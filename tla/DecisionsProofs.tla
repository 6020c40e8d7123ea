------------------------------ MODULE DecisionsProofs -----------------------------
(***************************************************************************)
(* What the advising parts promise (Decisions), for any number of price    *)
(* levels, requests, legs, ranges, chains and pools.                       *)
(***************************************************************************)
EXTENDS Decisions, FiniteSetTheorems, TLAPS

(***************************************************************************)
(* One part at a time: a step of the whole is a step of one part, and the  *)
(* others stand still.                                                     *)
(***************************************************************************)
LEMMA PartsStep ==
    ASSUME [Next]_vars
    PROVE  /\ History!HistoryNext \/ UNCHANGED historyVars
           /\ Desk!LabNext \/ UNCHANGED labVars
           /\ Campaign!DecisionNext \/ UNCHANGED decisionVars
           /\ Choice!RangeNext \/ UNCHANGED rangeVars
           /\ CapitalNext \/ UNCHANGED capitalVars
           /\ Advice!AdviceNext \/ UNCHANGED adviceVars
BY Zenon DEF Next, vars

(***************************************************************************)
(* Extrema of finite sets and sums over them.  What fails for a subset of  *)
(* a finite set fails for a smallest one, which is compared with what is   *)
(* left when an element is taken away.                                     *)
(***************************************************************************)
LEMMA LeastExists ==
    ASSUME NEW S, IsFiniteSet(S), NEW Bad, Bad \subseteq SUBSET S, Bad # {}
    PROVE  \E U \in Bad : \A V \in SUBSET U : V # U => V \notin Bad
<1>1. IsWellFoundedOn(StrictSubsetOrdering(S), FiniteSubsetsOf(S))
  BY FS_StrictSubsetOrderingWellFounded
<1>2. Bad \subseteq FiniteSubsetsOf(S)
  BY FS_FiniteSubsetsOfFinite
<1>3. PICK U \in Bad : \A V \in Bad : <<V, U>> \notin StrictSubsetOrdering(S)
  BY <1>1, <1>2, WFMin
<1>4. QED
  BY <1>3 DEF StrictSubsetOrdering

LEMMA MaxExists ==
    ASSUME NEW S \in SUBSET Int, IsFiniteSet(S), S # {}
    PROVE  Max(S) \in S /\ \A y \in S : Max(S) >= y
<1> DEFINE HasMax(U) == \E x \in U : \A y \in U : x >= y
           Bad == {U \in SUBSET S : U # {} /\ ~HasMax(U)}
<1>1. Bad = {}
  <2> SUFFICES ASSUME Bad # {} PROVE FALSE
    OBVIOUS
  <2>1. Bad \subseteq SUBSET S
    OBVIOUS
  <2>2. PICK U \in Bad : \A V \in SUBSET U : V # U => V \notin Bad
    <3> HIDE DEF Bad
    <3>1. QED
      BY <2>1, LeastExists
  <2>3. PICK x \in U : TRUE
    OBVIOUS
  <2>4. U \ {x} \notin Bad
    BY <2>2, <2>3
  <2>5. CASE U \ {x} = {}
    BY <2>5 DEF HasMax
  <2>6. CASE U \ {x} # {}
    <3>1. PICK z \in U \ {x} : \A y \in U \ {x} : z >= y
      BY <2>4, <2>6
    <3>2. x \in Int /\ z \in Int /\ U \subseteq Int
      BY <3>1
    <3>3. HasMax(U)
      <4>1. CASE z >= x
        BY <3>1, <3>2, <4>1
      <4>2. CASE x >= z
        <5>1. \A y \in U : x >= y
          BY <3>1, <3>2, <4>2
        <5>2. QED
          BY <5>1
      <4>3. QED
        BY <3>2, <4>1, <4>2
    <3>4. QED
      BY <3>3
  <2>7. QED
    BY <2>5, <2>6
<1>2. HasMax(S)
  BY <1>1
<1>3. QED
  BY <1>2 DEF Max

LEMMA ImageFinite ==
    ASSUME NEW S, NEW T, NEW f \in [S -> T], IsFiniteSet(S)
    PROVE  IsFiniteSet({f[x] : x \in S})
<1>1. f \in Surjection(S, {f[x] : x \in S})
  BY DEF Surjection
<1>2. QED
  BY <1>1, FS_Surjection

LEMMA MinExists ==
    ASSUME NEW S \in SUBSET Int, IsFiniteSet(S), S # {}
    PROVE  Min(S) \in S /\ \A y \in S : Min(S) <= y
<1> DEFINE f == [x \in S |-> -x]
           T == {f[x] : x \in S}
<1>1. f \in [S -> Int]
  OBVIOUS
<1>2. IsFiniteSet(T) /\ T \in SUBSET Int /\ T # {}
  <2>1. IsFiniteSet(T)
    <3> HIDE DEF f
    <3>1. QED
      BY <1>1, ImageFinite
  <2>2. f[CHOOSE x \in S : TRUE] \in T
    OBVIOUS
  <2>3. T \in SUBSET Int
    BY <1>1
  <2>4. QED
    BY <2>1, <2>2, <2>3
<1>3. Max(T) \in T /\ \A y \in T : Max(T) >= y
  <2> HIDE DEF T
  <2>1. QED
    BY <1>2, MaxExists
<1>4. PICK x \in S : Max(T) = -x
  BY <1>3
<1>5. x \in Int /\ \A y \in S : x <= y
  <2>1. \A y \in S : f[y] \in T /\ f[y] = -y
    OBVIOUS
  <2>2. \A y \in S : -x >= -y
    BY <1>3, <1>4, <2>1
  <2>3. QED
    BY <2>2
<1>6. QED
  BY <1>5 DEF Min

(* The sum that MapThenFoldSet defines, one element after the other.       *)
Any(U) == CHOOSE x \in U : TRUE
Sums(sum, f, S) ==
    /\ sum \in [SUBSET S -> Int]
    /\ \A U \in SUBSET S : sum[U] = IF U = {} THEN 0 ELSE f[Any(U)] + sum[U \ {Any(U)}]

LEMMA AnyIsOne == \A U : U # {} => Any(U) \in U
BY DEF Any

LEMMA SumsAgree ==
    ASSUME NEW S, IsFiniteSet(S), NEW T \in SUBSET S, NEW f, NEW sum, NEW other,
           Sums(sum, f, S), Sums(other, f, T)
    PROVE  \A U \in SUBSET T : sum[U] = other[U]
<1> DEFINE Bad == {U \in SUBSET T : sum[U] # other[U]}
<1>1. Bad = {}
  <2> SUFFICES ASSUME Bad # {} PROVE FALSE
    OBVIOUS
  <2>1. Bad \subseteq SUBSET T /\ IsFiniteSet(T)
    BY FS_Subset
  <2>2. PICK U \in Bad : \A V \in SUBSET U : V # U => V \notin Bad
    <3> HIDE DEF Bad
    <3>1. QED
      BY <2>1, LeastExists
  <2>3. U # {}
    BY DEF Sums
  <2>4. U \ {Any(U)} \notin Bad
    BY <2>2, <2>3, AnyIsOne
  <2>5. sum[U \ {Any(U)}] = other[U \ {Any(U)}]
    BY <2>4
  <2>6. sum[U] = other[U]
    BY <2>3, <2>5 DEF Sums
  <2>7. QED
    BY <2>6
<1>2. QED
  BY <1>1

LEMMA SumsExist ==
    ASSUME NEW S, IsFiniteSet(S), NEW f \in [S -> Int] PROVE \E sum : Sums(sum, f, S)
<1> DEFINE Bad == {U \in SUBSET S : ~\E sum : Sums(sum, f, U)}
<1>1. Bad = {}
  <2> SUFFICES ASSUME Bad # {} PROVE FALSE
    OBVIOUS
  <2>1. Bad \subseteq SUBSET S
    OBVIOUS
  <2>2. PICK U \in Bad : \A V \in SUBSET U : V # U => V \notin Bad
    <3> HIDE DEF Bad
    <3>1. QED
      BY <2>1, LeastExists
  <2> DEFINE piece(V) == CHOOSE sum : Sums(sum, f, V)
             rest(V) == V \ {Any(V)}
             total(V) == IF V = {} THEN 0 ELSE f[Any(V)] + piece(rest(V))[rest(V)]
             sum == [V \in SUBSET U |-> total(V)]
  <2>3. ASSUME NEW V \in SUBSET U, V # U PROVE Sums(piece(V), f, V)
    BY <2>2, <2>3
  <2>4. ASSUME NEW V \in SUBSET U, V # {}
        PROVE  /\ rest(V) \in SUBSET U /\ rest(V) # U /\ Any(V) \in S
               /\ Sums(piece(rest(V)), f, rest(V))
    <3>1. Any(V) \in V
      BY <2>4, AnyIsOne
    <3>2. rest(V) \in SUBSET U /\ rest(V) # U /\ Any(V) \in S
      BY <3>1
    <3> HIDE DEF piece, rest
    <3>3. QED
      BY <2>3, <3>2
  <2>5. ASSUME NEW V \in SUBSET U PROVE total(V) \in Int
    <3>1. CASE V = {}
      BY <3>1
    <3>2. CASE V # {}
      <4> HIDE DEF piece, rest
      <4>1. piece(rest(V))[rest(V)] \in Int /\ f[Any(V)] \in Int
        BY <2>4, <3>2 DEF Sums
      <4>2. QED
        BY <3>2, <4>1
    <3>3. QED
      BY <3>1, <3>2
  <2>6. ASSUME NEW V \in SUBSET U, V # U PROVE piece(V)[V] = total(V)
    <3>1. CASE V = {}
      <4> HIDE DEF piece
      <4>1. QED
        BY <2>3, <2>6, <3>1 DEF Sums
    <3>2. CASE V # {}
      <4> HIDE DEF piece
      <4>1. Sums(piece(V), f, V) /\ Sums(piece(rest(V)), f, rest(V))
        BY <2>3, <2>4, <2>6, <3>2
      <4>2. IsFiniteSet(V) /\ rest(V) \in SUBSET V
        BY FS_Subset
      <4>3. piece(V)[rest(V)] = piece(rest(V))[rest(V)]
        <5> HIDE DEF rest
        <5>1. QED
          BY <4>1, <4>2, SumsAgree
      <4>4. piece(V)[V] = f[Any(V)] + piece(V)[rest(V)]
        BY <3>2, <4>1 DEF Sums
      <4>5. QED
        BY <3>2, <4>3, <4>4
    <3>3. QED
      BY <3>1, <3>2
  <2>7. Sums(sum, f, U)
    <3>1. sum \in [SUBSET U -> Int]
      <4> HIDE DEF total
      <4>1. QED
        BY <2>5
    <3>2. ASSUME NEW V \in SUBSET U
          PROVE  sum[V] = IF V = {} THEN 0 ELSE f[Any(V)] + sum[V \ {Any(V)}]
      <4>1. CASE V = {}
        BY <4>1
      <4>2. CASE V # {}
        <5>1. rest(V) \in SUBSET U /\ rest(V) # U
          BY <2>4, <4>2
        <5>2. total(V) = f[Any(V)] + piece(rest(V))[rest(V)]
          BY <4>2
        <5> HIDE DEF piece, total, rest
        <5>3. piece(rest(V))[rest(V)] = total(rest(V))
          BY <2>6, <5>1
        <5>4. sum[V] = total(V) /\ sum[rest(V)] = total(rest(V))
          BY <5>1
        <5>5. QED
          BY <4>2, <5>2, <5>3, <5>4 DEF rest
      <4>3. QED
        BY <4>1, <4>2
    <3> HIDE DEF sum
    <3>3. QED
      BY <3>1, <3>2 DEF Sums
  <2>8. QED
    <3> HIDE DEF sum
    <3>1. QED
      BY <2>7
<1>2. QED
  BY <1>1

(* The equation of the library's recursive sum has a solution, and what    *)
(* solves it is a sum.                                                     *)
LEMMA SumsSolve ==
    ASSUME NEW S, NEW f, NEW sum, Sums(sum, f, S)
    PROVE  sum = [U \in SUBSET S |-> IF U = {} THEN 0 ELSE f[Any(U)] + sum[U \ {Any(U)}]]
BY DEF Sums

LEMMA SolutionsSum ==
    ASSUME NEW S, IsFiniteSet(S), NEW f \in [S -> Int], NEW sum,
           sum = [U \in SUBSET S |-> IF U = {} THEN 0 ELSE f[Any(U)] + sum[U \ {Any(U)}]]
    PROVE  Sums(sum, f, S)
<1> DEFINE Bad == {U \in SUBSET S : sum[U] \notin Int}
<1>1. \A U \in SUBSET S : sum[U] = IF U = {} THEN 0 ELSE f[Any(U)] + sum[U \ {Any(U)}]
  OBVIOUS
<1>2. Bad = {}
  <2> SUFFICES ASSUME Bad # {} PROVE FALSE
    OBVIOUS
  <2>1. Bad \subseteq SUBSET S
    OBVIOUS
  <2>2. PICK U \in Bad : \A V \in SUBSET U : V # U => V \notin Bad
    <3> HIDE DEF Bad
    <3>1. QED
      BY <2>1, LeastExists
  <2>3. U \in SUBSET S /\ sum[U] \notin Int
    OBVIOUS
  <2>4. U # {}
    BY <1>1, <2>3
  <2>5. Any(U) \in U
    BY <2>4, AnyIsOne
  <2>6. f[Any(U)] \in Int /\ sum[U \ {Any(U)}] \in Int
    BY <2>2, <2>3, <2>5
  <2>7. sum[U] = f[Any(U)] + sum[U \ {Any(U)}]
    BY <1>1, <2>3, <2>4
  <2>8. QED
    BY <2>3, <2>6, <2>7
<1>3. sum \in [SUBSET S -> Int]
  BY <1>2
<1>4. QED
  BY <1>1, <1>3 DEF Sums

(* A set of numbers that adding a value of f never leaves holds the sum.   *)
LEMMA SumsStayIn ==
    ASSUME NEW S, IsFiniteSet(S), NEW f, NEW sum, Sums(sum, f, S),
           NEW P, 0 \in P, \A x \in S, v \in P : f[x] + v \in P
    PROVE  \A U \in SUBSET S : sum[U] \in P
<1> DEFINE Bad == {U \in SUBSET S : sum[U] \notin P}
<1>1. Bad = {}
  <2> SUFFICES ASSUME Bad # {} PROVE FALSE
    OBVIOUS
  <2>1. Bad \subseteq SUBSET S
    OBVIOUS
  <2>2. PICK U \in Bad : \A V \in SUBSET U : V # U => V \notin Bad
    <3> HIDE DEF Bad
    <3>1. QED
      BY <2>1, LeastExists
  <2>3. U # {}
    <3>1. sum[{}] = 0 /\ {} \in SUBSET S
      BY DEF Sums
    <3>2. {} \notin Bad
      BY <3>1
    <3>3. QED
      BY <3>2
  <2>4. Any(U) \in U /\ Any(U) \in S
    BY <2>3, AnyIsOne
  <2>5. sum[U] = f[Any(U)] + sum[U \ {Any(U)}]
    BY <2>3 DEF Sums
  <2>6. sum[U \ {Any(U)}] \in P
    BY <2>2, <2>4
  <2>7. QED
    BY <2>4, <2>5, <2>6
<1>2. QED
  BY <1>1

(* What one element less or more makes of a sum.                           *)
LEMMA SumsChange ==
    ASSUME NEW S, IsFiniteSet(S), NEW k \in S, NEW f \in [S -> Int], NEW g \in [S -> Int],
           \A x \in S : x # k => g[x] = f[x],
           NEW sum, NEW other, Sums(sum, f, S), Sums(other, g, S)
    PROVE  other[S] = sum[S] + g[k] - f[k]
<1> DEFINE change(U) == IF k \in U THEN g[k] - f[k] ELSE 0
           Bad == {U \in SUBSET S : other[U] # sum[U] + change(U)}
<1>1. Bad = {}
  <2> SUFFICES ASSUME Bad # {} PROVE FALSE
    OBVIOUS
  <2>1. Bad \subseteq SUBSET S
    OBVIOUS
  <2>2. PICK U \in Bad : \A V \in SUBSET U : V # U => V \notin Bad
    <3> HIDE DEF Bad
    <3>1. QED
      BY <2>1, LeastExists
  <2>3. U # {}
    <3>1. other[{}] = 0 /\ sum[{}] = 0 /\ change({}) = 0
      BY DEF Sums
    <3>2. {} \notin Bad
      BY <3>1
    <3>3. QED
      BY <3>2
  <2> DEFINE x == Any(U)
             V == U \ {x}
  <2>4. x \in U /\ x \in S /\ V \in SUBSET S /\ V \notin Bad
    BY <2>2, <2>3, AnyIsOne
  <2>5. sum[U] = f[x] + sum[V] /\ other[U] = g[x] + other[V]
    BY <2>3 DEF Sums
  <2>6. sum[V] \in Int /\ other[V] \in Int /\ f[x] \in Int /\ g[x] \in Int
        /\ f[k] \in Int /\ g[k] \in Int
    BY <2>4 DEF Sums
  <2>7. other[V] = sum[V] + change(V)
    BY <2>4
  <2>8. change(U) = change(V) + (g[x] - f[x])
    <3>1. CASE x = k
      BY <2>4, <2>6, <3>1
    <3>2. CASE x # k
      BY <2>4, <2>6, <3>2
    <3>3. QED
      BY <3>1, <3>2
  <2>9. change(V) \in Int
    BY <2>6
  <2> HIDE DEF x, V, change
  <2>10. other[U] = sum[U] + change(U)
    BY <2>5, <2>6, <2>7, <2>8, <2>9
  <2>11. QED
    BY <2>10
<1>2. other[S] = sum[S] + change(S)
  BY <1>1
<1>3. sum[S] \in Int /\ g[k] \in Int /\ f[k] \in Int
  BY DEF Sums
<1>4. QED
  BY <1>2, <1>3

(***************************************************************************)
(* ProfitHistory.                                                          *)
(***************************************************************************)
Sources == {"none", "alchemy", "symbol", "saved", "observe", "ohlc", "again", "short"}
Stages == {"idle", "alchemy", "symbol", "cached", "observe", "ohlc", "again", "settle",
           "served", "refused"}
Candles == {History!NoSeries} \cup [size : 1..3, level : Nat, latest : Nat]
LoadRecord == [pc : Stages, ok : BOOLEAN, pair : {"unknown", "stable", "major", "volatile"},
               from : Sources, candles : Candles, cached : Candles, observed : Candles,
               ohlc : Candles, fallback : Candles]

(* A load in progress has not fallen back to a short series, and a saved   *)
(* one that it took was fresh in this hour and in the units of the pool.   *)
Ended == load.pc \in {"served", "refused"}

(* The pool's own candles are those of the load until a long series takes  *)
(* their place.                                                            *)
OhlcHeld(l) ==
    \/ l.ohlc = History!NoSeries
    \/ l.pc \in {"again", "settle"} /\ l.candles = l.ohlc
    \/ l.pc = "settle" /\ l.candles = l.fallback /\ l.fallback.size = 3
NotAsked(l) == l.pc \notin {"again", "settle"} => l.ohlc = History!NoSeries

HistoryTyped ==
    /\ hour \in Nat /\ saved \in Candles /\ load \in LoadRecord
HistoryInv ==
    /\ HistoryTyped
    /\ ~Ended => load.from # "short"
    /\ ~Ended /\ load.from = "saved" => hour - load.candles.latest <= MaxAge
    /\ ~Ended => OhlcHeld(load) /\ NotAsked(load)
    /\ History!HistoryIsUsable

LEMMA AnswersAreCandles ==
    /\ History!Series \subseteq Candles /\ History!NoSeries \in Candles
    /\ \A s \in Candles : s.size \in 0..3 /\ s.latest \in Nat /\ s.level \in Nat
    /\ History!NoSeries.size = 0
<1>1. Levels \subseteq Nat /\ MaxHour \in Nat
  BY DecisionsAssumption
<1>2. \A r \in [size : 1..3, level : Levels, latest : 0..MaxHour] :
        r \in [size : 1..3, level : Nat, latest : Nat]
  <2>1. \A n \in 0..MaxHour : n \in Nat
    BY <1>1
  <2>2. \A l \in Levels : l \in Nat
    BY <1>1
  <2>3. QED
    BY <2>1, <2>2
<1>3. History!Series \subseteq Candles
  <2>1. History!Series =
          {History!NoSeries} \cup [size : 1..3, level : Levels, latest : 0..MaxHour]
    BY DEF History!Series, History!Short, History!Full
  <2>2. QED
    BY <1>2, <2>1 DEF Candles
<1>4. QED
  BY <1>3 DEF Candles, History!NoSeries

LEMMA NoLoadTyped ==
    /\ History!NoLoad \in LoadRecord /\ History!NoLoad.pc = "idle"
    /\ History!NoLoad.from = "none"
    /\ History!NoLoad.cached = History!NoSeries /\ History!NoLoad.observed = History!NoSeries
    /\ History!NoLoad.ohlc = History!NoSeries
BY AnswersAreCandles DEF History!NoLoad, LoadRecord, Stages, Sources

LEMMA HistoryBegins == History!HistoryInit => HistoryInv
BY AnswersAreCandles, NoLoadTyped
   DEF History!HistoryInit, HistoryInv, HistoryTyped, Ended, OhlcHeld, NotAsked,
       History!HistoryIsUsable

(* A step of a load under way, which neither ends nor falls back.          *)
LEMMA LoadStep ==
    ASSUME HistoryInv, NEW new \in LoadRecord, load' = new, UNCHANGED <<hour, spot, saved>>,
           new.pc \notin {"served", "refused"}, new.from # "short",
           new.from = "saved" => hour - new.candles.latest <= MaxAge,
           OhlcHeld(new), NotAsked(new)
    PROVE  HistoryInv'
BY DEF HistoryInv, HistoryTyped, Ended, History!HistoryIsUsable

LEMMA TakesKeep ==
    ASSUME HistoryInv, NEW from \in {"alchemy", "symbol"}, NEW to \in {"symbol", "cached"},
           NEW s \in Candles, NEW source \in Sources \ {"saved", "short"},
           History!Take(from, to, s, source), UNCHANGED <<hour, spot, saved>>
    PROVE  HistoryInv'
<1> DEFINE new == [load EXCEPT !.pc = to, !.candles = s, !.from = source]
<1>1. load \in LoadRecord /\ load.pc = from
  BY DEF HistoryInv, HistoryTyped, History!Take
<1>2. new \in LoadRecord /\ new.pc = to /\ new.from = source /\ new.ohlc = load.ohlc
  BY <1>1 DEF LoadRecord, Stages
<1>3. load' = new
  BY DEF History!Take
<1>4. load.ohlc = History!NoSeries
  BY <1>1 DEF HistoryInv, Ended, NotAsked
<1> HIDE DEF new
<1>5. QED
  BY <1>2, <1>3, <1>4, LoadStep DEF OhlcHeld, NotAsked

LEMMA MovesKeep ==
    ASSUME HistoryInv, NEW from, NEW to,
           <<from, to>> \in {<<"alchemy", "symbol">>, <<"symbol", "cached">>, <<"observe", "ohlc">>,
                            <<"ohlc", "again">>, <<"again", "settle">>},
           History!Move(from, to), UNCHANGED <<hour, spot, saved>>
    PROVE  HistoryInv'
<1> DEFINE new == [load EXCEPT !.pc = to]
<1>1. load \in LoadRecord /\ load.pc = from /\ ~Ended
  BY DEF HistoryInv, HistoryTyped, History!Move, Ended
<1>2. /\ new \in LoadRecord /\ new.pc = to /\ new.from = load.from /\ new.candles = load.candles
      /\ new.ohlc = load.ohlc /\ new.fallback = load.fallback
  BY <1>1 DEF LoadRecord, Stages
<1>3. load' = new
  BY DEF History!Move
<1>4. /\ load.from # "short" /\ (load.from = "saved" => hour - load.candles.latest <= MaxAge)
      /\ OhlcHeld(load) /\ NotAsked(load)
  BY <1>1 DEF HistoryInv
<1> HIDE DEF new
<1>5. OhlcHeld(new) /\ NotAsked(new)
  BY <1>1, <1>2, <1>4 DEF OhlcHeld, NotAsked
<1>6. to \notin {"served", "refused"}
  OBVIOUS
<1>7. QED
  BY <1>2, <1>3, <1>4, <1>5, <1>6, LoadStep

LEMMA AsksOhlcKeeps ==
    ASSUME HistoryInv, History!AskOhlc \/ History!AskAlchemyAgain
    PROVE  HistoryInv'
<1>1. \A s \in History!Answers : s \in Candles
  BY AnswersAreCandles DEF History!Answers
<1>2. load \in LoadRecord /\ UNCHANGED <<hour, spot, saved>>
  BY DEF HistoryInv, HistoryTyped, History!AskOhlc, History!AskAlchemyAgain, History!Still
<1>3. ASSUME NEW s \in History!Answers,
             load' = [load EXCEPT !.pc = "again", !.candles = s, !.ohlc = s, !.from = "ohlc"]
      PROVE  HistoryInv'
  <2> DEFINE new == [load EXCEPT !.pc = "again", !.candles = s, !.ohlc = s, !.from = "ohlc"]
  <2>1. new \in LoadRecord /\ new.pc = "again" /\ new.candles = new.ohlc /\ new.from = "ohlc"
    BY <1>1, <1>2 DEF LoadRecord, Stages, Sources
  <2>2. load' = new
    BY <1>3
  <2> HIDE DEF new
  <2>3. QED
    BY <1>2, <2>1, <2>2, LoadStep DEF OhlcHeld, NotAsked
<1>4. ASSUME NEW s \in History!Answers, s.size = 3,
             load' = [load EXCEPT !.pc = "settle", !.candles = s, !.fallback = s, !.from = "again"]
      PROVE  HistoryInv'
  <2> DEFINE new == [load EXCEPT !.pc = "settle", !.candles = s, !.fallback = s, !.from = "again"]
  <2>1. /\ new \in LoadRecord /\ new.pc = "settle" /\ new.candles = new.fallback
        /\ new.fallback.size = 3 /\ new.from = "again"
    BY <1>1, <1>2, <1>4 DEF LoadRecord, Stages, Sources
  <2>2. load' = new
    BY <1>4
  <2> HIDE DEF new
  <2>3. QED
    BY <1>2, <2>1, <2>2, LoadStep DEF OhlcHeld, NotAsked
<1>5. ASSUME History!Move("ohlc", "again") \/ History!Move("again", "settle") PROVE HistoryInv'
  BY <1>2, <1>5, MovesKeep
<1>6. CASE History!AskOhlc
  <2>1. \/ History!Move("ohlc", "again")
        \/ \E s \in History!Answers :
              load' = [load EXCEPT !.pc = "again", !.candles = s, !.ohlc = s, !.from = "ohlc"]
    BY <1>6, Zenon DEF History!AskOhlc
  <2>2. QED
    BY <1>3, <1>5, <2>1, Zenon
<1>7. CASE History!AskAlchemyAgain
  <2>1. \/ History!Move("again", "settle")
        \/ \E s \in History!Answers :
              /\ s.size = 3
              /\ load' = [load EXCEPT !.pc = "settle", !.candles = s, !.fallback = s, !.from = "again"]
    BY <1>7, Zenon DEF History!AskAlchemyAgain, History!Full
  <2>2. QED
    BY <1>4, <1>5, <2>1, Zenon
<1>8. QED
  BY <1>6, <1>7

LEMMA AsksKeep ==
    ASSUME HistoryInv,
           \/ History!AskAlchemy \/ History!AskSymbol \/ History!AskOhlc
           \/ History!AskAlchemyAgain
    PROVE  HistoryInv'
<1>1. \A s \in History!Answers : s \in Candles
  BY AnswersAreCandles DEF History!Answers
<1>2. CASE History!AskAlchemy
  BY <1>1, <1>2, TakesKeep, MovesKeep DEF History!AskAlchemy, History!Still, Sources
<1>3. CASE History!AskSymbol
  BY <1>1, <1>3, TakesKeep, MovesKeep DEF History!AskSymbol, History!Still, Sources
<1>4. QED
  BY <1>2, <1>3, AsksOhlcKeeps

LEMMA ReadsSavedKeeps == HistoryInv /\ History!ReadSaved => HistoryInv'
<1> SUFFICES ASSUME HistoryInv, History!ReadSaved PROVE HistoryInv'
  OBVIOUS
<1> DEFINE use == History!Missing /\ History!Usable(saved, History!Full) /\ History!IsFresh(saved)
           new == [load EXCEPT !.pc = "observe", !.cached = saved,
                   !.candles = IF use THEN saved ELSE @, !.from = IF use THEN "saved" ELSE @]
<1>1. /\ load \in LoadRecord /\ saved \in Candles /\ load.from # "short"
      /\ load.from = "saved" => hour - load.candles.latest <= MaxAge
      /\ load.ohlc = History!NoSeries
  BY DEF HistoryInv, HistoryTyped, Ended, NotAsked, History!ReadSaved
<1>2. load' = new /\ UNCHANGED <<hour, spot, saved>>
  BY DEF History!ReadSaved, History!Still
<1>3. use => hour - saved.latest <= MaxAge
  BY DEF History!IsFresh
<1> HIDE DEF use
<1>4. /\ new \in LoadRecord /\ new.pc = "observe"
      /\ new.from = IF use THEN "saved" ELSE load.from
      /\ new.candles = (IF use THEN saved ELSE load.candles) /\ new.ohlc = load.ohlc
  BY <1>1 DEF LoadRecord, Stages, Sources
<1> HIDE DEF new
<1>5. QED
  BY <1>1, <1>2, <1>3, <1>4, LoadStep DEF OhlcHeld, NotAsked

LEMMA ObservesKeep == HistoryInv /\ History!Observe => HistoryInv'
<1> SUFFICES ASSUME HistoryInv, History!Observe PROVE HistoryInv'
  OBVIOUS
<1>1. /\ load \in LoadRecord /\ load.from # "short"
      /\ load.from = "saved" => hour - load.candles.latest <= MaxAge
      /\ UNCHANGED <<hour, spot, saved>> /\ load.ohlc = History!NoSeries
  <2>1. load.pc = "observe"
    BY DEF HistoryInv, HistoryTyped, LoadRecord, History!Observe
  <2>2. QED
    BY <2>1 DEF HistoryInv, HistoryTyped, Ended, NotAsked, History!Observe, History!Still
<1>2. CASE load' = [load EXCEPT !.pc = "ohlc"]
  <2>1. History!Move("observe", "ohlc")
    BY <1>2 DEF History!Observe, History!Move
  <2>2. QED
    BY <1>1, <2>1, MovesKeep
<1>3. ASSUME NEW s \in History!Answers, NEW use \in BOOLEAN,
             load' = [load EXCEPT !.pc = "ohlc", !.observed = s,
                      !.candles = IF use THEN s ELSE @, !.from = IF use THEN "observe" ELSE @]
      PROVE  HistoryInv'
  <2> DEFINE new == [load EXCEPT !.pc = "ohlc", !.observed = s,
                     !.candles = IF use THEN s ELSE @, !.from = IF use THEN "observe" ELSE @]
  <2>1. s \in Candles
    BY AnswersAreCandles DEF History!Answers
  <2>2. /\ new \in LoadRecord /\ new.pc = "ohlc"
        /\ new.from = IF use THEN "observe" ELSE load.from
        /\ (~use => new.candles = load.candles) /\ new.ohlc = load.ohlc
    BY <1>1, <2>1 DEF LoadRecord, Stages, Sources
  <2>3. load' = new
    BY <1>3
  <2> HIDE DEF new
  <2>4. QED
    BY <1>1, <2>2, <2>3, LoadStep DEF OhlcHeld, NotAsked
<1>4. \A s : History!Usable(s, History!Floor) \in BOOLEAN
  BY DEF History!Usable
<1>5. QED
  BY <1>2, <1>3, <1>4 DEF History!Observe

LEMMA TickKeeps == HistoryInv /\ (History!Tick \/ History!BeginLoad) => HistoryInv'
<1> SUFFICES ASSUME HistoryInv, History!Tick \/ History!BeginLoad PROVE HistoryInv'
  OBVIOUS
<1>1. hour' \in Nat /\ saved' \in Candles
  <2>1. hour \in Nat /\ saved \in Candles
    BY DEF HistoryInv, HistoryTyped
  <2>2. hour' \in {hour, hour + 1} /\ saved' = saved
    BY DEF History!Tick, History!BeginLoad, History!Still
  <2>3. QED
    BY <2>1, <2>2
<1>2. CASE History!Tick
  <2>1. load' = History!NoLoad
    BY <1>2 DEF History!Tick
  <2>2. QED
    BY <1>1, <2>1, NoLoadTyped
       DEF HistoryInv, HistoryTyped, Ended, OhlcHeld, NotAsked, History!HistoryIsUsable
<1>3. CASE History!BeginLoad
  <2>1. PICK ok \in BOOLEAN, p \in History!Pairs, pc \in {"refused", "alchemy", "symbol"} :
           load' = [History!NoLoad EXCEPT !.ok = ok, !.pair = p, !.pc = pc]
    BY <1>3 DEF History!BeginLoad
  <2> DEFINE new == [History!NoLoad EXCEPT !.ok = ok, !.pair = p, !.pc = pc]
  <2>2. /\ new \in LoadRecord /\ new.pc # "served" /\ new.from = "none"
        /\ new.cached = History!NoSeries /\ new.observed = History!NoSeries
        /\ new.ohlc = History!NoSeries
    BY NoLoadTyped DEF LoadRecord, Stages, History!Pairs
  <2>3. load' = new
    BY <2>1
  <2> HIDE DEF new
  <2>4. ~(History!NoSeries.size >= History!Short) /\ ~(History!NoSeries.size >= History!Floor)
    BY AnswersAreCandles DEF History!Short, History!Floor
  <2>5. (History!HistoryIsUsable)'
    BY <2>2, <2>3, <2>4 DEF History!HistoryIsUsable, History!Usable
  <2>6. QED
    BY <1>1, <2>2, <2>3, <2>5 DEF HistoryInv, HistoryTyped, Ended, OhlcHeld, NotAsked
<1>4. QED
  BY <1>2, <1>3

(* What a load that settles on is.                                         *)
LEMMA SettlesWell ==
    ASSUME HistoryInv, ~Ended, load.pc = "settle"
    PROVE  LET s == History!Settled
               good == s.candles.size >= IF s.from = "short" THEN 1 ELSE 2
           IN /\ s.candles \in Candles /\ s.from \in Sources
              /\ good /\ load.ok /\ s.candles.size = 3 => s.candles.level = spot
              /\ good /\ s.from = "saved" => hour - s.candles.latest <= MaxAge
              /\ ~good => /\ ~History!Usable(load.observed, History!Short)
                         /\ ~(/\ History!Usable(load.cached, History!Floor)
                              /\ hour - load.cached.latest <= MaxAge)
                         /\ (History!Usable(load.ohlc, History!Floor) =>
                               load.fallback.size = 3 /\ ~History!Matches(load.fallback))
<1> DEFINE s == History!Settled
           kept == IF History!Sane(load.candles) THEN load.candles ELSE History!NoSeries
           spare == /\ kept.size < 2 /\ History!Usable(load.cached, History!Floor)
                    /\ History!IsFresh(load.cached)
           brief == kept.size < 2 /\ ~spare /\ History!Usable(load.observed, History!Short)
           good == s.candles.size >= IF s.from = "short" THEN 1 ELSE 2
<1>1. /\ load.candles \in Candles /\ load.cached \in Candles /\ load.observed \in Candles
      /\ load.from \in Sources /\ load.from # "short" /\ hour \in Nat /\ MaxAge \in Nat
      /\ load.from = "saved" => hour - load.candles.latest <= MaxAge
  BY DecisionsAssumption DEF HistoryInv, HistoryTyped, Ended, LoadRecord
<1>2. kept \in Candles /\ (load.ok /\ kept.size = 3 => kept.level = spot)
  BY <1>1, AnswersAreCandles DEF History!Sane, History!Matches, History!Full
<1>3. s = CASE spare -> [candles |-> load.cached, from |-> "saved"]
            [] brief -> [candles |-> load.observed, from |-> "short"]
            [] OTHER -> [candles |-> kept, from |-> load.from]
  BY DEF History!Settled, History!ShortFallback, History!Floor
<1>4. /\ History!Usable(load.cached, History!Floor) =>
            load.cached.size >= 2 /\ (load.ok => load.cached.level = spot)
      /\ History!Usable(load.observed, History!Short) =>
            load.observed.size >= 1 /\ (load.ok => load.observed.level = spot)
      /\ History!IsFresh(load.cached) <=>
            load.cached.size > 0 /\ hour - load.cached.latest <= MaxAge
  BY DEF History!Usable, History!Floor, History!Short, History!Matches, History!IsFresh
<1>5. kept.size \in 0..3 /\ load.cached.size \in 0..3 /\ load.observed.size \in 0..3
  BY <1>1, <1>2, AnswersAreCandles
<1>6. kept.size >= 2 => kept = load.candles
  BY AnswersAreCandles
<1>7a. \/ kept.size >= 2 \/ ~History!Usable(load.ohlc, History!Floor)
       \/ load.fallback.size = 3 /\ ~History!Matches(load.fallback)
  <2> SUFFICES ASSUME History!Usable(load.ohlc, History!Floor),
                      ~(load.fallback.size = 3 /\ ~History!Matches(load.fallback))
               PROVE  kept.size >= 2
    OBVIOUS
  <2>1. load.ohlc.size >= 2 /\ History!Matches(load.ohlc)
    BY DEF History!Usable, History!Floor
  <2>2. OhlcHeld(load) /\ load.ohlc # History!NoSeries
    BY <2>1, AnswersAreCandles DEF HistoryInv, Ended
  <2>3. CASE load.candles = load.ohlc
    BY <2>1, <2>3 DEF History!Sane
  <2>4. CASE load.candles = load.fallback /\ load.fallback.size = 3
    BY <2>4 DEF History!Sane
  <2>5. QED
    BY <2>2, <2>3, <2>4 DEF OhlcHeld
<1> HIDE DEF kept
<1>7. CASE spare
  <2>1. s.candles = load.cached /\ s.from = "saved"
    BY <1>3, <1>7
  <2>2. QED
    BY <1>1, <1>4, <1>5, <1>7, <2>1 DEF Sources
<1>8. CASE brief
  <2>1. ~spare
    BY <1>8
  <2>2. s.candles = load.observed /\ s.from = "short"
    BY <1>3, <1>8, <2>1
  <2>3. QED
    BY <1>1, <1>4, <1>5, <1>8, <2>2 DEF Sources
<1>9. CASE ~spare /\ ~brief
  <2>1. s.candles = kept /\ s.from = load.from
    BY <1>3, <1>9
  <2>2. good => kept = load.candles
    BY <1>1, <1>5, <1>6, <2>1
  <2>3. ~good => kept.size < 2
    BY <1>1, <1>5, <2>1
  <2>4. ~good => ~History!Usable(load.observed, History!Short)
    BY <1>9, <2>3
  <2>5. ~good => ~(/\ History!Usable(load.cached, History!Floor)
                   /\ hour - load.cached.latest <= MaxAge)
    BY <1>4, <1>5, <1>9, <2>3
  <2>6. ~good => (History!Usable(load.ohlc, History!Floor) =>
                    load.fallback.size = 3 /\ ~History!Matches(load.fallback))
    BY <1>5, <1>7a, <2>3
  <2>7. QED
    BY <1>1, <1>2, <2>1, <2>2, <2>4, <2>5, <2>6
<1>10. QED
  BY <1>7, <1>8, <1>9

LEMMA SettleKeeps == HistoryInv /\ History!Settle => HistoryInv'
<1> SUFFICES ASSUME HistoryInv, History!Settle PROVE HistoryInv'
  OBVIOUS
<1> DEFINE s == History!Settled
           good == s.candles.size >= IF s.from = "short" THEN 1 ELSE 2
           new == [load EXCEPT !.pc = IF good THEN "served" ELSE "refused",
                               !.candles = s.candles, !.from = s.from]
<1>1. load.pc = "settle" /\ ~Ended /\ load \in LoadRecord /\ hour \in Nat /\ saved \in Candles
  BY DEF History!Settle, Ended, HistoryInv, HistoryTyped
<1>2. /\ s.candles \in Candles /\ s.from \in Sources
      /\ good /\ load.ok /\ s.candles.size = 3 => s.candles.level = spot
      /\ good /\ s.from = "saved" => hour - s.candles.latest <= MaxAge
      /\ ~good => /\ ~History!Usable(load.observed, History!Short)
                 /\ ~(/\ History!Usable(load.cached, History!Floor)
                      /\ hour - load.cached.latest <= MaxAge)
                 /\ (History!Usable(load.ohlc, History!Floor) =>
                       load.fallback.size = 3 /\ ~History!Matches(load.fallback))
  BY <1>1, SettlesWell
<1>3. /\ load' = new /\ saved' \in {saved, s.candles} /\ UNCHANGED <<hour, spot>>
  BY DEF History!Settle, History!Short, History!Floor
<1> HIDE DEF good, s
<1>4. /\ new \in LoadRecord /\ new.pc = (IF good THEN "served" ELSE "refused")
      /\ new.candles = s.candles /\ new.from = s.from /\ new.ok = load.ok
      /\ new.observed = load.observed /\ new.cached = load.cached
      /\ new.ohlc = load.ohlc /\ new.fallback = load.fallback
  BY <1>1, <1>2 DEF LoadRecord, Stages
<1>5. HistoryTyped'
  BY <1>1, <1>2, <1>3, <1>4 DEF HistoryTyped
<1>6. Ended'
  BY <1>3, <1>4 DEF Ended
<1>7. CASE good
  <2>1. load'.pc = "served" /\ load'.ok = load.ok
    BY <1>3, <1>4, <1>7
  <2>2. (History!HistoryIsUsable)'
    BY <1>2, <1>3, <1>4, <1>7, <2>1 DEF History!HistoryIsUsable, History!Full
  <2>3. QED
    BY <1>5, <1>6, <2>2 DEF HistoryInv
<1>8. CASE ~good
  <2>1. load'.pc = "refused"
    BY <1>3, <1>4, <1>8
  <2>2. /\ load'.ok = load.ok /\ load'.observed = load.observed
        /\ load'.cached = load.cached /\ load'.ohlc = load.ohlc
        /\ load'.fallback = load.fallback /\ UNCHANGED <<hour, spot>>
    BY <1>3, <1>4
  <2>3. /\ History!Usable(load.observed, History!Short)' = History!Usable(load.observed, History!Short)
        /\ History!Usable(load.cached, History!Floor)' = History!Usable(load.cached, History!Floor)
        /\ History!Usable(load.ohlc, History!Floor)' = History!Usable(load.ohlc, History!Floor)
        /\ History!Matches(load.fallback)' = History!Matches(load.fallback)
    BY <2>2 DEF History!Usable, History!Matches
  <2>4. (History!HistoryIsUsable)'
    BY <1>2, <1>8, <2>1, <2>2, <2>3 DEF History!HistoryIsUsable, History!Full
  <2>5. QED
    BY <1>5, <1>6, <2>4 DEF HistoryInv
<1>9. QED
  BY <1>7, <1>8

LEMMA HistoryStep == HistoryInv /\ [Next]_vars => HistoryInv'
<1> SUFFICES ASSUME HistoryInv, [Next]_vars PROVE HistoryInv'
  OBVIOUS
<1>1. CASE UNCHANGED historyVars
  BY <1>1 DEF historyVars, HistoryInv, HistoryTyped, Ended, History!HistoryIsUsable,
              History!Usable, History!Matches
<1>2. CASE History!HistoryNext
  BY <1>2, TickKeeps, AsksKeep, ReadsSavedKeeps, ObservesKeep, SettleKeeps DEF History!HistoryNext
<1>3. QED
  BY <1>1, <1>2, PartsStep

(* A full history is in the units of the pool, a saved one fresh, and a    *)
(* load refused only when it held nothing to serve, or lost its short      *)
(* candles to a longer series in other units (_load_pool_and_history).     *)
THEOREM HistoriesAreUsable == Spec => []HistoryIsUsable
<1>1. Init => HistoryInv
  BY HistoryBegins DEF Init
<1>2. HistoryInv => HistoryIsUsable
  BY DEF HistoryInv, HistoryIsUsable
<1>3. QED
  BY <1>1, <1>2, HistoryStep, PTL DEF Spec

(***************************************************************************)
(* ProfitDesk.                                                             *)
(***************************************************************************)
Holding == {"looking", "computing", "snapshot", "last", "own", "failed"}
Keys == {KeyOf[q] : q \in Questions}
Asked == {PoolOf[q] : q \in Questions}
Computed == [at : Nat, of : Questions, pool : Asked, fees : BOOLEAN, mine : Askers]
Outcomes == Computed \cup {Desk!NoResult}
AskRecord == [pc : {"waiting", "answered"} \cup Holding, of : Questions, advised : BOOLEAN,
              label : {"ERROR", "REUSED", "LIVE", "STALE"}, result : Outcomes]

(* Who works has the lock; what it computed is its own answer; and what it *)
(* computes is not there already.                                          *)
Burst(r) == Desk!Answered(r) /\ r.fees /\ tick - r.at < Reuse
OwnResult(ask, a) == ask.result \in Computed /\ ask.result.of = ask.of /\ ask.result.mine = a
Works(ask, a) ==
    /\ ask.pc \in {"snapshot", "last", "own"} => OwnResult(ask, a)
    /\ ask.pc = "computing" => ~Burst(results[KeyOf[ask.of]])
DeskTyped ==
    /\ tick \in Nat /\ lastResult \in Outcomes /\ results \in [Keys -> Outcomes]
    /\ asks \in [Askers -> AskRecord \cup {Desk!NoAsk}]
DeskInv ==
    /\ DeskTyped
    /\ \A k \in Keys : Desk!Answered(results[k]) => KeyOf[results[k].of] = k
    /\ \A a \in Askers : asks[a].pc \in Holding => holder = a
    /\ \A a \in Askers : Works(asks[a], a)

Honest(ask, a) ==
    CASE ask.label = "LIVE" -> ask.result.of = ask.of /\ ask.result.mine = a
      [] ask.label = "REUSED" ->
            KeyOf[ask.result.of] = KeyOf[ask.of] /\ tick - ask.result.at < Reuse
      [] ask.label = "STALE" ->
            KeyOf[ask.result.of] = KeyOf[ask.of] \/ ask.result.pool = PoolOf[ask.of]
      [] OTHER -> ~Desk!Answered(results[KeyOf[ask.of]])
HonestStep ==
    \A a \in Askers : asks[a].pc # "answered" /\ asks'[a].pc = "answered" => Honest(asks'[a], a)

LEMMA NoAskIdle == Desk!NoAsk.pc = "idle" /\ Desk!NoResult \in Outcomes
BY DEF Desk!NoAsk, Outcomes

LEMMA DeskBegins == Desk!LabInit => DeskInv
BY NoAskIdle DEF Desk!Keys, Keys, Desk!LabInit, DeskInv, DeskTyped, Works, Desk!Answered, Holding

LEMMA AskTyped ==
    ASSUME DeskInv, NEW a \in Askers, asks[a].pc # "idle" PROVE asks[a] \in AskRecord
BY NoAskIdle DEF DeskInv, DeskTyped

(* One thread goes on.  It has the lock, or nobody has, or it leaves what  *)
(* the lock is for alone.                                                  *)
LEMMA OneAsks ==
    ASSUME DeskInv, NEW a \in Askers, NEW new \in AskRecord, asks' = [asks EXCEPT ![a] = new],
           tick' = tick, lastResult' \in Outcomes, results' \in [Keys -> Outcomes],
           \A k \in Keys : Desk!Answered(results'[k]) => KeyOf[results'[k].of] = k,
           \/ UNCHANGED <<holder, results>>
           \/ asks[a].pc \in Holding
           \/ holder = Desk!Nobody,
           new.pc \in Holding => holder' = a,
           new.pc \in {"snapshot", "last", "own"} => OwnResult(new, a),
           new.pc = "computing" => ~Burst(results'[KeyOf[new.of]]),
           new.pc = "answered" => Honest(new, a)
    PROVE  DeskInv' /\ HonestStep
<1>1. asks'[a] = new /\ \A b \in Askers : b # a => asks'[b] = asks[b]
  BY DEF DeskInv, DeskTyped
<1>2. DeskTyped'
  BY DEF DeskInv, DeskTyped
<1>3. ASSUME NEW b \in Askers, b # a, asks[b].pc \in Holding
      PROVE  UNCHANGED <<holder, results>>
  <2>1. holder = b
    BY <1>3 DEF DeskInv
  <2>2. b # Desk!Nobody
    BY DecisionsAssumption DEF Desk!Nobody
  <2>3. asks[a].pc \notin Holding
    BY <1>3, <2>1 DEF DeskInv
  <2>4. QED
    BY <2>1, <2>2, <2>3
<1>4. ASSUME NEW b \in Askers, b # a
      PROVE  (asks[b].pc \in Holding => holder = b)' /\ Works(asks[b], b)'
  <2>1. Works(asks[b], b) /\ (asks[b].pc \in Holding => holder = b) /\ asks'[b] = asks[b]
    BY <1>1, <1>4 DEF DeskInv
  <2>2. CASE asks[b].pc \in Holding
    BY <1>3, <1>4, <2>1, <2>2 DEF Works, OwnResult, Burst
  <2>3. CASE asks[b].pc \notin Holding
    BY <2>1, <2>3 DEF Works, Holding
  <2>4. QED
    BY <2>2, <2>3
<1>5. (asks[a].pc \in Holding => holder = a)' /\ Works(asks[a], a)'
  BY <1>1 DEF Works, OwnResult, Burst
<1>6. DeskInv'
  BY <1>2, <1>4, <1>5 DEF DeskInv
<1>7. HonestStep
  BY <1>1 DEF HonestStep
<1>8. QED
  BY <1>6, <1>7

(* A thread under way that goes on to another point.                       *)
LEMMA GotoKeeps ==
    ASSUME DeskInv, NEW a \in Askers, NEW from \in Holding \cup {"waiting"},
           NEW to \in Holding, Desk!Goto(a, from, to),
           UNCHANGED <<tick, results>>, lastResult' \in Outcomes,
           holder' = a, from = "waiting" => holder = Desk!Nobody,
           to \in {"snapshot", "last", "own"} => from \in {"snapshot", "last", "own"},
           to = "computing" => ~Burst(results[KeyOf[asks[a].of]])
    PROVE  DeskInv' /\ HonestStep
<1> DEFINE new == [asks[a] EXCEPT !.pc = to]
<1>1. asks[a].pc = from /\ asks' = [asks EXCEPT ![a] = new]
  BY DEF Desk!Goto, Desk!Step
<1>2. asks[a] \in AskRecord /\ asks[a].pc # "idle"
  <2>1. from # "idle"
    BY DEF Holding
  <2>2. QED
    BY <1>1, <2>1, AskTyped
<1>3. /\ new \in AskRecord /\ new.pc = to /\ new.of = asks[a].of
      /\ new.result = asks[a].result
  BY <1>2 DEF AskRecord
<1> HIDE DEF new
<1>4. to # "answered"
  BY DEF Holding
<1>5. Works(asks[a], a)
  BY DEF DeskInv
<1>6. to \in {"snapshot", "last", "own"} => OwnResult(new, a)
  BY <1>1, <1>3, <1>5 DEF Works, OwnResult
<1>7. results' \in [Keys -> Outcomes] /\
      \A k \in Keys : Desk!Answered(results'[k]) => KeyOf[results'[k].of] = k
  BY DEF DeskInv, DeskTyped
<1>8. asks[a].pc \in Holding \/ holder = Desk!Nobody
  BY <1>1
<1>9. new.pc = "computing" => ~Burst(results'[KeyOf[new.of]])
  BY <1>3
<1>10. QED
  BY <1>1, <1>3, <1>4, <1>6, <1>7, <1>8, <1>9, OneAsks

(* A thread that answers and gives the lock back.                          *)
LEMMA AnswerKeeps ==
    ASSUME DeskInv, NEW a \in Askers, NEW from \in Holding,
           NEW label \in {"ERROR", "REUSED", "LIVE", "STALE"}, NEW r \in Outcomes,
           Desk!Answer(a, from, label, r), tick' = tick, lastResult' = lastResult,
           results' \in [Keys -> Outcomes],
           \A k \in Keys : Desk!Answered(results'[k]) => KeyOf[results'[k].of] = k,
           CASE label = "LIVE" -> r.of = asks[a].of /\ r.mine = a
             [] label = "REUSED" -> KeyOf[r.of] = KeyOf[asks[a].of] /\ tick - r.at < Reuse
             [] label = "STALE" ->
                   KeyOf[r.of] = KeyOf[asks[a].of] \/ r.pool = PoolOf[asks[a].of]
             [] OTHER -> ~Desk!Answered(results[KeyOf[asks[a].of]])
    PROVE  DeskInv' /\ HonestStep
<1> DEFINE new == [asks[a] EXCEPT !.pc = "answered", !.label = label, !.result = r]
<1>1. asks[a].pc = from /\ asks' = [asks EXCEPT ![a] = new]
  BY DEF Desk!Answer, Desk!Step
<1>2. asks[a] \in AskRecord
  <2>1. from # "idle"
    BY DEF Holding
  <2>2. QED
    BY <1>1, <2>1, AskTyped
<1>3. /\ new \in AskRecord /\ new.pc = "answered" /\ new.of = asks[a].of
      /\ new.result = r /\ new.label = label
  BY <1>2 DEF AskRecord
<1> HIDE DEF new
<1>4. Honest(new, a)
  BY <1>3 DEF Honest
<1>5. new.pc \notin Holding
  BY <1>3 DEF Holding
<1>6. lastResult' \in Outcomes
  BY DEF DeskInv, DeskTyped
<1>7. QED
  BY <1>1, <1>3, <1>4, <1>5, <1>6, OneAsks

LEMMA ResultsTyped ==
    ASSUME DeskInv
    PROVE  /\ results \in [Keys -> Outcomes] /\ lastResult \in Outcomes /\ tick \in Nat
           /\ \A k \in Keys : Desk!Answered(results[k]) =>
                 results[k] \in Computed /\ KeyOf[results[k].of] = k
           /\ \A r \in Outcomes : r # Desk!NoResult => r \in Computed
BY DEF DeskInv, DeskTyped, Outcomes, Desk!Answered

LEMMA BeginsToAsk ==
    ASSUME DeskInv, NEW a \in Askers, NEW q \in Questions, Desk!AskFor(a, q)
    PROVE  DeskInv' /\ HonestStep
<1>1. PICK advised \in BOOLEAN :
         Desk!Step(a, "idle", [pc |-> "waiting", of |-> q, advised |-> advised,
                               label |-> "ERROR", result |-> Desk!NoResult])
  BY DEF Desk!AskFor
<1> DEFINE new == [pc |-> "waiting", of |-> q, advised |-> advised,
                   label |-> "ERROR", result |-> Desk!NoResult]
<1>2. new \in AskRecord /\ new.pc = "waiting" /\ asks' = [asks EXCEPT ![a] = new]
  BY <1>1, NoAskIdle DEF AskRecord, Desk!Step
<1> HIDE DEF new
<1>3. UNCHANGED <<tick, results, lastResult, holder>> /\ "waiting" \notin Holding
  BY DEF Desk!AskFor, Holding
<1>4. lastResult' \in Outcomes /\ results' \in [Keys -> Outcomes]
  BY <1>3, ResultsTyped
<1>5. \A k \in Keys : Desk!Answered(results'[k]) => KeyOf[results'[k].of] = k
  BY <1>3, ResultsTyped
<1>6. QED
  BY <1>2, <1>3, <1>4, <1>5, OneAsks

LEMMA TakesLock ==
    ASSUME DeskInv, NEW a \in Askers, Desk!TakeLock(a) PROVE DeskInv' /\ HonestStep
<1>1. /\ holder = Desk!Nobody /\ Desk!Goto(a, "waiting", "looking") /\ holder' = a
      /\ UNCHANGED <<tick, results, lastResult>>
  BY DEF Desk!TakeLock
<1>2. lastResult' \in Outcomes
  BY <1>1, ResultsTyped
<1>3. QED
  BY <1>1, <1>2, GotoKeeps DEF Holding

LEMMA Looks ==
    ASSUME DeskInv, NEW a \in Askers, Desk!Look(a) PROVE DeskInv' /\ HonestStep
<1> DEFINE k == KeyOf[asks[a].of]
<1>1. /\ asks[a].pc = "looking" /\ holder = a /\ k \in Keys
      /\ UNCHANGED <<tick, results, lastResult>>
  <2>1. asks[a].pc = "looking" /\ UNCHANGED <<tick, results, lastResult>>
    BY DEF Desk!Look
  <2>2. asks[a] \in AskRecord /\ holder = a
    BY <2>1, AskTyped DEF DeskInv, Holding
  <2>3. QED
    BY <2>1, <2>2 DEF AskRecord, Keys
<1>2. /\ lastResult' \in Outcomes /\ results' \in [Keys -> Outcomes]
      /\ \A j \in Keys : Desk!Answered(results'[j]) => KeyOf[results'[j].of] = j
  BY <1>1, ResultsTyped
<1>3. CASE Desk!Recent(k, asks[a].advised)
  <2>1. Desk!Answer(a, "looking", "REUSED", results[k])
    BY <1>3 DEF Desk!Look
  <2>2. Desk!Answered(results[k]) /\ tick - results[k].at < Reuse
    BY <1>3 DEF Desk!Recent
  <2>3. results[k] \in Outcomes /\ KeyOf[results[k].of] = k
    BY <1>1, <2>2, ResultsTyped
  <2>4. "looking" \in Holding
    BY DEF Holding
  <2>5. QED
    BY <1>1, <1>2, <2>1, <2>2, <2>3, <2>4, AnswerKeeps
<1>4. CASE ~Desk!Recent(k, asks[a].advised)
  <2>1. Desk!Goto(a, "looking", "computing") /\ UNCHANGED holder
    BY <1>4 DEF Desk!Look
  <2>2. ~Burst(results[k])
    BY <1>4 DEF Burst, Desk!Recent
  <2>3. QED
    BY <1>1, <1>2, <2>1, <2>2, GotoKeeps DEF Holding
<1>5. QED
  BY <1>3, <1>4

LEMMA Computes ==
    ASSUME DeskInv, NEW a \in Askers, Desk!Compute(a) PROVE DeskInv' /\ HonestStep
<1>1. UNCHANGED <<tick, results, lastResult, holder>> /\ asks[a].pc = "computing"
  BY DEF Desk!Compute, Desk!Goto, Desk!Step
<1>2. asks[a] \in AskRecord /\ holder = a /\ lastResult' \in Outcomes
  BY <1>1, AskTyped, ResultsTyped DEF DeskInv, Holding
<1>3. CASE Desk!Goto(a, "computing", "failed")
  BY <1>1, <1>2, <1>3, GotoKeeps DEF Holding
<1>4. ASSUME NEW fees \in BOOLEAN, NEW pool \in Asked,
             Desk!Step(a, "computing", [asks[a] EXCEPT !.pc = "snapshot",
                 !.result = [at |-> tick, of |-> asks[a].of, pool |-> pool,
                             fees |-> fees, mine |-> a]])
      PROVE  DeskInv' /\ HonestStep
  <2> DEFINE r == [at |-> tick, of |-> asks[a].of, pool |-> pool, fees |-> fees, mine |-> a]
             new == [asks[a] EXCEPT !.pc = "snapshot", !.result = r]
  <2>1. r \in Computed /\ r.of = asks[a].of /\ r.mine = a
    BY <1>2, ResultsTyped DEF Computed, AskRecord
  <2> HIDE DEF r
  <2>2. /\ new \in AskRecord /\ new.pc = "snapshot" /\ new.of = asks[a].of /\ new.result = r
    BY <1>2, <2>1 DEF AskRecord, Holding, Outcomes
  <2>3. asks' = [asks EXCEPT ![a] = new]
    BY <1>4 DEF Desk!Step, r
  <2> HIDE DEF new
  <2>4. OwnResult(new, a)
    BY <2>1, <2>2 DEF OwnResult
  <2>5. /\ results' \in [Keys -> Outcomes]
        /\ \A k \in Keys : Desk!Answered(results'[k]) => KeyOf[results'[k].of] = k
    BY <1>1, ResultsTyped
  <2>6. QED
    BY <1>1, <1>2, <2>2, <2>3, <2>4, <2>5, OneAsks
<1>5. QED
  BY <1>3, <1>4 DEF Desk!Compute, Asked

LEMMA Records ==
    ASSUME DeskInv, NEW a \in Askers, Desk!RecordSnapshot(a) \/ Desk!SetLast(a)
    PROVE  DeskInv' /\ HonestStep
<1>1. /\ asks[a].pc \in {"snapshot", "last"} /\ UNCHANGED <<tick, results, holder>>
      /\ lastResult' \in {lastResult, asks[a].result}
  BY DEF Desk!RecordSnapshot, Desk!SetLast, Desk!Goto, Desk!Step
<1>2. asks[a] \in AskRecord /\ holder = a
  BY <1>1, AskTyped DEF DeskInv, Holding
<1>3. lastResult' \in Outcomes
  BY <1>1, <1>2, ResultsTyped DEF AskRecord
<1>4. PICK from \in {"snapshot", "last"}, to \in {"last", "own", "failed"} :
         Desk!Goto(a, from, to)
  BY DEF Desk!RecordSnapshot, Desk!SetLast
<1>5. QED
  BY <1>1, <1>2, <1>3, <1>4, GotoKeeps DEF Holding

LEMMA SetsOwn ==
    ASSUME DeskInv, NEW a \in Askers, Desk!SetOwn(a) PROVE DeskInv' /\ HonestStep
<1>1. asks[a].pc = "own" /\ UNCHANGED <<tick, lastResult>>
  BY DEF Desk!SetOwn, Desk!Goto, Desk!Answer, Desk!Step
<1>2. /\ asks[a] \in AskRecord /\ holder = a /\ lastResult' \in Outcomes
      /\ OwnResult(asks[a], a)
  BY <1>1, AskTyped, ResultsTyped DEF DeskInv, Holding, Works
<1>3. CASE Desk!Goto(a, "own", "failed") /\ UNCHANGED <<tick, results, lastResult, holder>>
  BY <1>1, <1>2, <1>3, GotoKeeps DEF Holding
<1>4. CASE /\ Desk!Answer(a, "own", "LIVE", asks[a].result)
           /\ results' = [results EXCEPT ![KeyOf[asks[a].of]] = asks[a].result]
  <2>1. /\ asks[a].of \in Questions /\ asks[a].result \in Outcomes
        /\ asks[a].result.of = asks[a].of /\ asks[a].result.mine = a
    BY <1>2 DEF AskRecord, OwnResult
  <2>2. /\ results' \in [Keys -> Outcomes]
        /\ \A k \in Keys : Desk!Answered(results'[k]) => KeyOf[results'[k].of] = k
    BY <1>4, <2>1, ResultsTyped DEF Keys
  <2>3. "own" \in Holding
    BY DEF Holding
  <2>4. QED
    BY <1>1, <1>4, <2>1, <2>2, <2>3, AnswerKeeps
<1>5. QED
  BY <1>3, <1>4 DEF Desk!SetOwn

LEMMA FallsBack ==
    ASSUME DeskInv, NEW a \in Askers, Desk!FallBack(a) PROVE DeskInv' /\ HonestStep
<1> DEFINE q == asks[a].of
           k == KeyOf[q]
<1>1. asks[a].pc = "failed" /\ UNCHANGED <<tick, results, lastResult>>
  BY DEF Desk!FallBack
<1>2. asks[a] \in AskRecord /\ q \in Questions /\ k \in Keys
  BY <1>1, AskTyped DEF AskRecord, Keys
<1>3. /\ results' \in [Keys -> Outcomes]
      /\ \A j \in Keys : Desk!Answered(results'[j]) => KeyOf[results'[j].of] = j
  BY <1>1, ResultsTyped
<1>4. "failed" \in Holding
  BY DEF Holding
<1>5. CASE Desk!Answered(results[k])
  <2>1. Desk!Answer(a, "failed", "STALE", results[k])
    BY <1>5 DEF Desk!FallBack
  <2>2. results[k] \in Outcomes /\ KeyOf[results[k].of] = k
    BY <1>2, <1>5, ResultsTyped
  <2>3. QED
    BY <1>1, <1>3, <1>4, <2>1, <2>2, AnswerKeeps
<1>6. CASE ~Desk!Answered(results[k]) /\ Desk!SamePool(lastResult, q)
  <2>1. Desk!Answer(a, "failed", "STALE", lastResult)
    BY <1>6 DEF Desk!FallBack
  <2>2. lastResult \in Outcomes /\ lastResult.pool = PoolOf[q]
    BY <1>6, ResultsTyped DEF Desk!SamePool
  <2>3. QED
    BY <1>1, <1>3, <1>4, <2>1, <2>2, AnswerKeeps
<1>7. CASE ~Desk!Answered(results[k]) /\ ~Desk!SamePool(lastResult, q)
  <2>1. Desk!Answer(a, "failed", "ERROR", Desk!NoResult)
    BY <1>7 DEF Desk!FallBack
  <2>2. QED
    BY <1>1, <1>3, <1>4, <1>7, <2>1, NoAskIdle, AnswerKeeps
<1>8. QED
  BY <1>5, <1>6, <1>7

LEMMA SecondKeeps == DeskInv /\ Desk!Second => DeskInv' /\ HonestStep
<1> SUFFICES ASSUME DeskInv, Desk!Second PROVE DeskInv' /\ HonestStep
  OBVIOUS
<1>1. tick \in Nat /\ tick' = tick + 1 /\ UNCHANGED <<results, lastResult, holder>>
  BY ResultsTyped DEF Desk!Second
<1>2. ASSUME NEW a \in Askers
      PROVE  asks'[a] = IF asks[a].pc = "answered" THEN Desk!NoAsk ELSE asks[a]
  BY DEF Desk!Second
<1>3. asks' \in [Askers -> AskRecord \cup {Desk!NoAsk}]
  BY DEF Desk!Second, DeskInv, DeskTyped
<1>4. DeskTyped'
  BY <1>1, <1>3 DEF DeskInv, DeskTyped
<1>5. ASSUME NEW a \in Askers
      PROVE  /\ (asks[a].pc \in Holding => holder = a)' /\ Works(asks[a], a)'
             /\ asks'[a].pc = "answered" => asks[a].pc = "answered"
  <2>1. CASE asks[a].pc = "answered"
    <3>1. asks'[a].pc = "idle"
      BY <1>2, <2>1, NoAskIdle
    <3>2. QED
      BY <2>1, <3>1 DEF Works, Holding
  <2>2. CASE asks[a].pc # "answered"
    <3>1. asks'[a] = asks[a]
      BY <1>2, <2>2
    <3>2. asks[a].pc \in Holding => KeyOf[asks[a].of] \in Keys
      BY AskTyped DEF Holding, AskRecord, Keys
    <3>3. ASSUME NEW r \in Outcomes, ~Burst(r) PROVE ~Burst(r)'
      <4>1. Desk!Answered(r) => r.at \in Nat
        BY DEF Outcomes, Computed, Desk!Answered
      <4>2. Reuse \in Nat
        BY DecisionsAssumption
      <4>3. Desk!Answered(r) /\ r.fees => ~(tick - r.at < Reuse)
        BY <3>3 DEF Burst
      <4>4. Desk!Answered(r) /\ r.fees => ~(tick' - r.at < Reuse)
        BY <1>1, <4>1, <4>2, <4>3
      <4>5. QED
        BY <4>4, Zenon DEF Burst
    <3>4. asks[a].pc = "computing" => ~Burst(results[KeyOf[asks[a].of]])'
      <4>1. SUFFICES ASSUME asks[a].pc = "computing" PROVE ~Burst(results[KeyOf[asks[a].of]])'
        OBVIOUS
      <4>2. KeyOf[asks[a].of] \in Keys
        BY <3>2, <4>1 DEF Holding
      <4>3. results[KeyOf[asks[a].of]] \in Outcomes /\ ~Burst(results[KeyOf[asks[a].of]])
        BY <4>1, <4>2, ResultsTyped DEF DeskInv, Works
      <4>4. QED
        BY <1>1, <3>1, <3>3, <4>3 DEF Burst
    <3>5. QED
      BY <1>1, <3>1, <3>4 DEF DeskInv, Works, OwnResult
  <2>3. QED
    BY <2>1, <2>2
<1>6. QED
  BY <1>1, <1>4, <1>5 DEF DeskInv, HonestStep

LEMMA DeskStep == DeskInv /\ [Next]_vars => DeskInv' /\ HonestStep
<1> SUFFICES ASSUME DeskInv, [Next]_vars PROVE DeskInv' /\ HonestStep
  OBVIOUS
<1>1. CASE UNCHANGED labVars
  <2>1. UNCHANGED <<tick, results, lastResult, holder, asks>>
    BY <1>1 DEF labVars
  <2>2. QED
    BY <2>1 DEF DeskInv, DeskTyped, HonestStep, Works, OwnResult, Burst
<1>2. CASE Desk!LabNext
  <2>1. ASSUME NEW a \in Askers, Desk!AskNext(a) PROVE DeskInv' /\ HonestStep
    BY <2>1, BeginsToAsk, TakesLock, Looks, Computes, Records, SetsOwn, FallsBack
       DEF Desk!AskNext
  <2>2. QED
    BY <1>2, <2>1, SecondKeeps DEF Desk!LabNext
<1>3. QED
  BY <1>1, <1>2, PartsStep

LEMMA DeskInvariance == Spec => []DeskInv
<1>1. Init => DeskInv
  BY DeskBegins DEF Init
<1>2. QED
  BY <1>1, DeskStep, PTL DEF Spec

(* Of two requests for the same key at the same time the later one    *)
(* gets the result of the earlier one (profit_recommend).                  *)
THEOREM BurstsComputeOnce == Spec => []OneComputationPerBurst
<1>1. DeskInv => OneComputationPerBurst
  BY DEF DeskInv, Works, Burst, OneComputationPerBurst, Desk!OneComputationPerBurst
<1>2. QED
  BY <1>1, DeskInvariance, PTL

(* What is called live was computed by that request for that question,     *)
(* what is called reused or stale has its key, and what is stale at least  *)
(* selects the pool asked for (profit_recommend).                          *)
THEOREM LabelsAreTrue == Spec => AnswersAreLabelled
<1>1. DeskInv /\ [Next]_vars =>
        [\A a \in Askers : asks[a].pc # "answered" /\ asks'[a].pc = "answered" =>
            LET r == asks'[a].result
                q == asks'[a].of
            IN CASE asks'[a].label = "LIVE" -> r.of = q /\ r.mine = a
                 [] asks'[a].label = "REUSED" ->
                       KeyOf[r.of] = KeyOf[q] /\ tick - r.at < Reuse
                 [] asks'[a].label = "STALE" -> KeyOf[r.of] = KeyOf[q] \/ r.pool = PoolOf[q]
                 [] OTHER -> ~Desk!Answered(results[KeyOf[q]])]_Desk!labVars
  BY DeskStep DEF HonestStep, Honest
<1>2. QED
  BY <1>1, DeskInvariance, PTL DEF Spec, AnswersAreLabelled, Desk!AnswersAreLabelled

(***************************************************************************)
(* CampaignDecision.                                                       *)
(***************************************************************************)
IsRequest(r) ==
    /\ r = [pc |-> r.pc, asked |-> r.asked, context |-> r.context, base |-> r.base,
            forecast |-> r.forecast, leg |-> r.leg, outcome |-> r.outcome, keep |-> r.keep,
            disturbed |-> r.disturbed]
    /\ r.disturbed \in BOOLEAN
IsForecast(f, base) ==
    \/ f = Campaign!NoForecast
    \/ f.leg = base /\ f.net \in Int /\ f.recovers \in BOOLEAN

(* Until the decision, the forecast is of the leg that the request was     *)
(* about at first, which is the one asked for, or still the one that is    *)
(* worth most when no row changed.                                         *)
AboutBase(r) ==
    /\ r.asked # Campaign!None => r.base = r.asked
    /\ ~r.disturbed => r.base = Campaign!ActiveLeg(r.asked, r.context)
DecisionInv ==
    /\ IsRequest(request)
    /\ request.pc \in {"context", "lab", "decide"} => request.leg = Campaign!None
    /\ request.pc \in {"context", "lab"} => request.forecast = Campaign!NoForecast
    /\ request.pc \in {"lab", "decide"} => AboutBase(request)
    /\ request.pc = "decide" => IsForecast(request.forecast, request.base)

Founded ==
    request.pc = "decide" /\ request'.pc = "done" =>
        LET r == request'
            named == r.asked # Campaign!None
            shown == r.forecast # Campaign!NoForecast /\ r.leg # Campaign!None
        IN /\ named => r.leg = r.asked
           /\ shown /\ (named \/ ~r.disturbed) => r.forecast.leg = r.leg
           /\ r.outcome = "RE_RANGE" => shown /\ r.forecast.net > r.keep
           /\ r.outcome = "EXIT" => Campaign!IsFreshThesis

LEMMA DecisionBegins == Campaign!DecisionInit => DecisionInv
BY DEF Campaign!DecisionInit, Campaign!NoRequest, DecisionInv, IsRequest

LEMMA AsksCampaign == DecisionInv /\ Campaign!Ask => DecisionInv' /\ Founded
<1> SUFFICES ASSUME DecisionInv, Campaign!Ask PROVE DecisionInv' /\ Founded
  OBVIOUS
<1>1. PICK asked, context :
         request' = [Campaign!NoRequest EXCEPT !.pc = "context", !.asked = asked,
                                               !.context = context]
  BY DEF Campaign!Ask
<1>2. request.pc # "decide"
  BY DEF Campaign!Ask
<1>3. QED
  BY <1>1, <1>2 DEF Campaign!NoRequest, DecisionInv, IsRequest, Founded

LEMMA Bases == DecisionInv /\ Campaign!Base => DecisionInv' /\ Founded
<1> SUFFICES ASSUME DecisionInv, Campaign!Base PROVE DecisionInv' /\ Founded
  OBVIOUS
<1> DEFINE l == Campaign!ActiveLeg(request.asked, request.context)
<1>1. /\ request.pc = "context" /\ IsRequest(request) /\ request.leg = Campaign!None
      /\ request.forecast = Campaign!NoForecast
  BY DEF Campaign!Base, DecisionInv
<1>2. CASE request' = [request EXCEPT !.pc = "done", !.outcome = "REFUSED"]
  BY <1>1, <1>2 DEF DecisionInv, IsRequest, Founded
<1>3. ASSUME NEW pc \in {"lab", "decide"}, request' = [request EXCEPT !.base = l, !.pc = pc]
      PROVE  DecisionInv' /\ Founded
  <2>1. /\ IsRequest(request') /\ request'.pc = pc /\ request'.base = l
        /\ request'.asked = request.asked /\ request'.context = request.context
        /\ request'.leg = Campaign!None /\ request'.forecast = Campaign!NoForecast
    BY <1>1, <1>3 DEF IsRequest
  <2>2. UNCHANGED legs
    BY DEF Campaign!Base
  <2>3. request.asked # Campaign!None => l = request.asked
    BY DEF Campaign!ActiveLeg
  <2>4. Campaign!ActiveLeg(request.asked, request.context)' = l
    BY <2>1, <2>2 DEF Campaign!ActiveLeg, Campaign!Richest
  <2> HIDE DEF l
  <2>5. AboutBase(request)'
    BY <2>1, <2>3, <2>4 DEF AboutBase
  <2>6. QED
    BY <1>1, <2>1, <2>5 DEF DecisionInv, IsForecast, Founded
<1>4. QED
  BY <1>2, <1>3 DEF Campaign!Base

LEMMA Labs == DecisionInv /\ Campaign!Lab => DecisionInv' /\ Founded
<1> SUFFICES ASSUME DecisionInv, Campaign!Lab PROVE DecisionInv' /\ Founded
  OBVIOUS
<1>1. /\ request.pc = "lab" /\ IsRequest(request) /\ request.leg = Campaign!None
      /\ AboutBase(request) /\ UNCHANGED legs
  BY DEF Campaign!Lab, DecisionInv
<1>2. PICK f \in [leg : {request.base}, net : -1..MaxFee, recovers : BOOLEAN]
                 \cup {Campaign!NoForecast} :
         request' = [request EXCEPT !.pc = "decide", !.forecast = f]
  BY DEF Campaign!Lab
<1>3. /\ IsRequest(request') /\ request'.pc = "decide" /\ request'.base = request.base
      /\ request'.asked = request.asked /\ request'.context = request.context
      /\ request'.leg = Campaign!None /\ request'.forecast = f
      /\ request'.disturbed = request.disturbed
  BY <1>1, <1>2 DEF IsRequest
<1>4. IsForecast(f, request.base)
  <2>1. MaxFee \in Nat
    BY DecisionsAssumption
  <2>2. QED
    BY <2>1 DEF IsForecast
<1>5. AboutBase(request)'
  BY <1>1, <1>3 DEF AboutBase, Campaign!ActiveLeg, Campaign!Richest
<1>6. QED
  BY <1>1, <1>3, <1>4, <1>5 DEF DecisionInv, Founded

LEMMA RefreshesLeg ==
    ASSUME DecisionInv, NEW l \in Legs, Campaign!RefreshLeg(l) PROVE DecisionInv' /\ Founded
<1>1. IsRequest(request)
  BY DEF DecisionInv
<1>2. request' = [request EXCEPT !.disturbed = @ \/ request.pc \notin {"idle", "done"}]
  BY DEF Campaign!RefreshLeg
<1>3. (request.disturbed \/ request.pc \notin {"idle", "done"}) \in BOOLEAN
  BY Zenon
<1>4. /\ IsRequest(request') /\ request'.pc = request.pc /\ request'.base = request.base
      /\ request'.asked = request.asked /\ request'.leg = request.leg
      /\ request'.forecast = request.forecast
      /\ request'.disturbed = (request.disturbed \/ request.pc \notin {"idle", "done"})
  BY <1>1, <1>2, <1>3 DEF IsRequest
<1>5. request.pc \in {"lab", "decide"} => request'.disturbed
  <2>1. request.pc \in {"lab", "decide"} => request.pc \notin {"idle", "done"}
    OBVIOUS
  <2>2. QED
    BY <1>4, <2>1, Zenon
<1>6. request.pc \in {"lab", "decide"} => AboutBase(request)'
  BY <1>4, <1>5 DEF DecisionInv, AboutBase
<1>7. QED
  BY <1>4, <1>6 DEF DecisionInv, Founded

(* A recommended new range earns more than going on.                       *)
LEMMA RangesEarnMore ==
    ASSUME NEW f, NEW place, NEW keep \in Campaign!Continuations(place),
           f.net \in Int, Campaign!Worthwhile(f, place, keep)
    PROVE  f.net > keep
<1>1. keep \in Nat /\ (~Campaign!InRange(place) => keep = 0)
  BY DecisionsAssumption DEF Campaign!Continuations
<1>2. CASE Campaign!InRange(place)
  <2>1. 100 * f.net > 115 * keep
    BY <1>2 DEF Campaign!Worthwhile, Campaign!Beats
  <2>2. QED
    BY <1>1, <2>1
<1>3. CASE ~Campaign!InRange(place)
  <2>1. 100 * f.net > 25
    BY <1>3 DEF Campaign!Worthwhile
  <2>2. QED
    BY <1>1, <1>3, <2>1
<1>4. QED
  BY <1>2, <1>3

LEMMA Decides == DecisionInv /\ Campaign!Decide => DecisionInv' /\ Founded
<1> SUFFICES ASSUME DecisionInv, Campaign!Decide PROVE DecisionInv' /\ Founded
  OBVIOUS
<1> DEFINE l == Campaign!ActiveLeg(request.asked, request.context)
<1>1. /\ request.pc = "decide" /\ IsRequest(request) /\ request.leg = Campaign!None
      /\ AboutBase(request) /\ IsForecast(request.forecast, request.base)
  BY DEF Campaign!Decide, DecisionInv
<1>2. request.asked # Campaign!None => l = request.asked
  BY DEF Campaign!ActiveLeg
<1>3. CASE l = Campaign!None
  <2>1. PICK held \in BOOLEAN :
           request' = [request EXCEPT !.pc = "done", !.outcome = Campaign!Idle(held)]
    BY <1>3 DEF Campaign!Decide
  <2>2. /\ IsRequest(request') /\ request'.pc = "done" /\ request'.leg = Campaign!None
        /\ request'.asked = request.asked /\ request'.outcome = Campaign!Idle(held)
    BY <1>1, <2>1 DEF IsRequest
  <2>3. Campaign!Idle(held) \in {"HODL_WAIT", "NO_ACTIVE_CAPITAL"}
    BY DEF Campaign!Idle
  <2>4. QED
    BY <1>2, <1>3, <2>2, <2>3 DEF DecisionInv, Founded
<1>4. CASE l # Campaign!None
  <2> DEFINE place == legs[l].place
  <2>1. PICK keep \in Campaign!Continuations(place) :
           request' = [request EXCEPT !.pc = "done", !.leg = l, !.keep = keep,
                       !.outcome = Campaign!Recommended(request.forecast, place, keep)]
    BY <1>4 DEF Campaign!Decide
  <2> DEFINE outcome == Campaign!Recommended(request.forecast, place, keep)
  <2>2. /\ outcome = "EXIT" => Campaign!IsFreshThesis
        /\ outcome = "RE_RANGE" => Campaign!Worthwhile(request.forecast, place, keep)
    BY DEF Campaign!Recommended, Campaign!StrongExitCaution
  <2> HIDE DEF outcome, place, l
  <2>3. /\ IsRequest(request') /\ request'.pc = "done" /\ request'.leg = l
        /\ request'.asked = request.asked /\ request'.outcome = outcome
        /\ request'.keep = keep /\ request'.forecast = request.forecast
        /\ request'.disturbed = request.disturbed
    BY <1>1, <2>1 DEF IsRequest, outcome
  <2>4. outcome = "RE_RANGE" =>
           request.forecast # Campaign!NoForecast /\ request.forecast.net > keep
    <3>1. SUFFICES ASSUME Campaign!Worthwhile(request.forecast, place, keep)
                   PROVE  request.forecast # Campaign!NoForecast /\ request.forecast.net > keep
      BY <2>2
    <3>2. request.forecast # Campaign!NoForecast
      BY <3>1 DEF Campaign!Worthwhile
    <3>3. request.forecast.net \in Int
      BY <1>1, <3>2 DEF IsForecast
    <3>4. QED
      BY <3>1, <3>2, <3>3, RangesEarnMore
  <2>5. request.asked # Campaign!None \/ ~request.disturbed => l = request.base
    BY <1>1, <1>2 DEF AboutBase, l
  <2>6. request.forecast # Campaign!NoForecast => request.forecast.leg = request.base
    BY <1>1 DEF IsForecast
  <2>7. Founded
    BY <1>2, <1>4, <2>2, <2>3, <2>4, <2>5, <2>6 DEF Founded
  <2>8. QED
    BY <2>3, <2>7 DEF DecisionInv
<1>5. QED
  BY <1>3, <1>4

LEMMA DecisionStep == DecisionInv /\ [Next]_vars => DecisionInv' /\ Founded
<1> SUFFICES ASSUME DecisionInv, [Next]_vars PROVE DecisionInv' /\ Founded
  OBVIOUS
<1>1. CASE UNCHANGED <<legs, request>>
  <2>1. AboutBase(request) => AboutBase(request)'
    BY <1>1 DEF AboutBase, Campaign!ActiveLeg, Campaign!Richest
  <2>2. QED
    BY <1>1, <2>1 DEF DecisionInv, Founded
<1>2. CASE Campaign!DecisionNext
  BY <1>1, <1>2, AsksCampaign, Bases, Labs, Decides, RefreshesLeg
     DEF Campaign!DecisionNext, Campaign!Research, Campaign!Age
<1>3. QED
  BY <1>1, <1>2, PartsStep DEF decisionVars

(* A recommendation is about the leg the operator named, and shows that    *)
(* leg's forecast if the leg was named or no row changed meanwhile; a new  *)
(* range has a better forecast, an exit a fresh thesis (campaign_decision).*)
THEOREM DecisionsAreFounded == Spec => DecisionIsFounded
<1>1. Init => DecisionInv
  BY DecisionBegins DEF Init
<1>2. DecisionInv /\ [Next]_vars => DecisionInv' /\ [Founded]_Campaign!decisionVars
  BY DecisionStep
<1>3. Spec => [][Founded]_Campaign!decisionVars
  BY <1>1, <1>2, PTL DEF Spec
<1>4. QED
  BY <1>3 DEF Founded, DecisionIsFounded, Campaign!DecisionIsFounded

(***************************************************************************)
(* RangeChoice.                                                            *)
(***************************************************************************)
LEMMA ChoiceExtrema == \A S : Choice!Max(S) = Max(S) /\ Choice!Min(S) = Min(S)
BY DEF Max, Min, Choice!Max, Choice!Min

LEMMA FewAreFinite ==
    ASSUME NEW a, NEW b, NEW c PROVE IsFiniteSet({a, b}) /\ IsFiniteSet({a, b, c})
<1>1. IsFiniteSet({a})
  BY FS_Singleton
<1>2. IsFiniteSet({a} \cup {b})
  BY <1>1, FS_AddElement
<1>3. IsFiniteSet({a} \cup {b} \cup {c})
  BY <1>2, FS_AddElement
<1>4. {a} \cup {b} = {a, b} /\ {a} \cup {b} \cup {c} = {a, b, c}
  OBVIOUS
<1>5. QED
  BY <1>2, <1>3, <1>4

LEMMA MaxOfTwo ==
    ASSUME NEW a \in Int, NEW b \in Int
    PROVE  Max({a, b}) = IF a >= b THEN a ELSE b
<1>1. IsFiniteSet({a, b}) /\ {a, b} \in SUBSET Int /\ {a, b} # {}
  BY FewAreFinite
<1>2. Max({a, b}) \in {a, b} /\ \A y \in {a, b} : Max({a, b}) >= y
  BY <1>1, MaxExists
<1>3. QED
  BY <1>2

LEMMA MinOfTwo ==
    ASSUME NEW a \in Int, NEW b \in Int
    PROVE  Min({a, b}) = IF a <= b THEN a ELSE b
<1>1. IsFiniteSet({a, b}) /\ {a, b} \in SUBSET Int /\ {a, b} # {}
  BY FewAreFinite
<1>2. Min({a, b}) \in {a, b} /\ \A y \in {a, b} : Min({a, b}) <= y
  BY <1>1, MinExists
<1>3. QED
  BY <1>2

(* The evidence of an analysis, and what a row makes of it.                *)
IsEvidence(f) ==
    /\ f.volume \in BOOLEAN /\ f.tvl \in BOOLEAN
    /\ f.factor \in 50..200 /\ (f.age < 3 => f.factor \in 80..125)
Most(r, f) == IF ~r.public THEN 100 ELSE IF f.age < 3 THEN 125 ELSE 200
RowFounded(r, f) ==
    /\ r.model \/ f.owned # "NONE" \/ f.advised
    /\ r.net <= Most(r, f) * r.raw
RowRecord == [state : {"row"}, net : Int, raw : Nat, public : BOOLEAN, model : BOOLEAN,
              eligible : BOOLEAN, score : Int]
Outcome == RowRecord \cup {Choice!Untried, Choice!Failed}

LEMMA ClampsBetween ==
    ASSUME NEW lo \in Int, NEW hi \in Int, NEW n \in Int, lo <= hi
    PROVE  Choice!Clamp(lo, hi, n) \in lo..hi
<1>1. Choice!Clamp(lo, hi, n) = Max({lo, Min({hi, n})})
  BY ChoiceExtrema DEF Choice!Clamp
<1>2. Min({hi, n}) \in Int /\ Min({hi, n}) <= hi
  BY MinOfTwo
<1>3. QED
  BY <1>1, <1>2, MaxOfTwo

LEMMA EvidenceIsBounded ==
    ASSUME NEW known, NEW ratio \in {20, 100, 500}
    PROVE  /\ Choice!Calibration(known, ratio) \in 50..200
           /\ Choice!EvidenceAge(known) < 3 => Choice!Calibration(known, ratio) \in 80..125
<1>1. /\ Choice!Clamp(80, 125, ratio) \in 80..125
      /\ Choice!Clamp(65, 150, ratio) \in 65..150
      /\ Choice!Clamp(50, 200, ratio) \in 50..200
  <2>1. ratio \in Int
    OBVIOUS
  <2> DEFINE Lands(lo, hi) == Choice!Clamp(lo, hi, ratio) \in lo..hi
  <2>0. \A lo, hi \in Int : lo <= hi => Lands(lo, hi)
    BY <2>1, ClampsBetween
  <2> HIDE DEF Lands
  <2>2. Lands(80, 125) /\ Lands(65, 150) /\ Lands(50, 200)
    BY <2>0
  <2> USE DEF Lands
  <2>3. QED
    BY <2>2
<1>2. Choice!EvidenceAge(known) < 3 =>
         Choice!Calibration(known, ratio) \in {100, Choice!Clamp(80, 125, ratio)}
  BY DEF Choice!Calibration
<1>3. Choice!Calibration(known, ratio) \in {100, Choice!Clamp(80, 125, ratio),
         Choice!Clamp(65, 150, ratio), Choice!Clamp(50, 200, ratio)}
  BY DEF Choice!Calibration
<1>4. QED
  BY <1>1, <1>2, <1>3

LEMMA RowsAreFounded ==
    ASSUME NEW f, IsEvidence(f), NEW daily \in Dailies, NEW rate \in Rates,
           NEW cost \in Costs, NEW fits \in BOOLEAN, NEW score \in 0..1
    PROVE  LET r == Choice!Row(f, daily, rate, cost, fits, score) IN
           /\ r \in Outcome /\ r # Choice!Untried
           /\ r.state = "row" => RowFounded(r, f)
<1> DEFINE r == Choice!Row(f, daily, rate, cost, fits, score)
           model == Choice!HasModel(f, daily)
           public == Choice!IsPublic(f, daily)
           raw == Choice!Raw(f, daily, rate)
           fees == Choice!Fees(f, daily, rate)
           new == [state |-> "row", net |-> fees - 100 * cost, raw |-> raw, public |-> public,
                   model |-> model, eligible |-> fits, score |-> score]
<1>1. CASE ~model /\ Choice!Empirical(f, daily) = "NONE"
  <2>1. r = Choice!Failed
    BY <1>1 DEF Choice!Row
  <2>2. QED
    BY <2>1 DEF Outcome, Choice!Failed, Choice!Untried
<1>2. CASE ~(~model /\ Choice!Empirical(f, daily) = "NONE")
  <2>1. r = new
    BY <1>2 DEF Choice!Row
  <2>2. raw \in Nat /\ cost \in Nat
    BY DecisionsAssumption DEF Choice!Raw
  <2>3. model \in BOOLEAN
    BY Zenon DEF Choice!HasModel
  <2>4. public \in BOOLEAN
    BY Zenon DEF Choice!IsPublic
  <2>5. /\ public => fees = f.factor * raw
        /\ ~public => fees = 100 * raw
    BY DEF Choice!Fees
  <2>6. f.factor \in Nat /\ f.factor <= 200 /\ (f.age < 3 => f.factor <= 125)
    BY DEF IsEvidence
  <2> HIDE DEF fees, raw, public, model
  <2>7. fees \in Nat
    <3>1. CASE public
      BY <2>2, <2>5, <2>6, <3>1
    <3>2. CASE ~public
      BY <2>2, <2>5, <3>2
    <3>3. QED
      BY <3>1, <3>2
  <2>8. /\ new \in RowRecord /\ new.model = model /\ new.state = "row" /\ new.public = public
        /\ new.raw = raw /\ new.net = fees - 100 * cost
    <3>1. fees - 100 * cost \in Int
      BY <2>2, <2>7
    <3>2. QED
      BY <2>2, <2>3, <2>4, <3>1 DEF RowRecord
  <2>9. model \/ f.owned # "NONE" \/ f.advised
    BY <1>2 DEF Choice!Empirical, model
  <2> HIDE DEF new
  <2>10. new.net <= Most(new, f) * new.raw
    <3>1. CASE ~public
      BY <2>2, <2>5, <2>7, <2>8, <3>1 DEF Most
    <3>2. CASE public /\ f.age < 3
      <4>1. Most(new, f) = 125 /\ f.factor * raw <= 125 * raw
        BY <2>2, <2>6, <2>8, <3>2 DEF Most
      <4>2. QED
        BY <2>2, <2>5, <2>7, <2>8, <3>2, <4>1
    <3>3. CASE public /\ ~(f.age < 3)
      <4>1. Most(new, f) = 200 /\ f.factor * raw <= 200 * raw
        BY <2>2, <2>6, <2>8, <3>3 DEF Most
      <4>2. QED
        BY <2>2, <2>5, <2>7, <2>8, <3>3, <4>1
    <3>4. QED
      BY <3>1, <3>2, <3>3, Zenon
  <2>11. new # Choice!Untried
    BY <2>8 DEF Choice!Untried
  <2>12. new.model \/ f.owned # "NONE" \/ f.advised
    BY <2>8, <2>9, Zenon
  <2>13. RowFounded(new, f)
    BY <2>10, <2>12, Zenon DEF RowFounded
  <2>14. QED
    BY <2>1, <2>8, <2>11, <2>13, Zenon DEF Outcome
<1>3. QED
  BY <1>1, <1>2

(* Once a range is chosen, it may be used, is nearly the best, and stays.  *)
NearlyBest ==
    /\ chosen \in Ranges /\ rows[chosen].state = "row" /\ rows[chosen].eligible
    /\ \A r \in Ranges : rows[r].state = "row" /\ rows[r].eligible =>
          LET less == rows[r].net - rows[chosen].net
          IN less <= 100 \/ 100 * less <= 8 * rows[r].net
ChoiceInv ==
    /\ stage \in {"facts", "rows", "tiers", "done", "refused"}
    /\ stage # "facts" => IsEvidence(facts)
    /\ rows \in [Ranges -> Outcome]
    /\ \A r \in Ranges : rows[r].state = "row" => stage # "facts" /\ RowFounded(rows[r], facts)
    /\ stage \in {"tiers", "done"} => NearlyBest
    /\ DOMAIN analyses = Tiers
    /\ \A t \in Tiers : analyses[t].state = "row" =>
          analyses[t].sameUnit /\ analyses[t].spot \in 67..150
    /\ stage = "done" =>
          /\ Choice!NetOf(selected) >= rows[chosen].net
          /\ selected # Choice!Requested => selected \in Tiers /\ analyses[selected].state = "row"

LEMMA OutcomeStates ==
    /\ \A r \in Outcome : r.state = "row" => r \in RowRecord
    /\ Choice!Untried \in Outcome /\ Choice!Untried.state = "untried"
    /\ Choice!Failed \in Outcome /\ Choice!Failed.state = "failed"
BY DEF Outcome, Choice!Untried, Choice!Failed

LEMMA ChoiceBegins == Choice!RangeInit => ChoiceInv
BY OutcomeStates DEF Choice!RangeInit, ChoiceInv

LEMMA ReadsFacts == ChoiceInv /\ Choice!ReadFacts => ChoiceInv'
<1> SUFFICES ASSUME ChoiceInv, Choice!ReadFacts PROVE ChoiceInv'
  OBVIOUS
<1>1. /\ stage = "facts" /\ stage' = "rows"
      /\ UNCHANGED <<rows, chosen, analyses, selected>>
  BY DEF Choice!ReadFacts
<1>2. \A r \in Ranges : rows[r].state # "row"
  BY <1>1 DEF ChoiceInv
<1> DEFINE Evidence(volume, tvl, advised, ratio, known) ==
              [volume |-> volume, tvl |-> tvl, advised |-> advised,
               owned |-> Choice!OwnedRate(known), age |-> Choice!EvidenceAge(known),
               factor |-> Choice!Calibration(known, ratio)]
<1>7. PICK p \in Choice!Positions, o \in Choice!Positions, volume \in BOOLEAN, tvl \in BOOLEAN,
           advised \in BOOLEAN, ratio \in {20, 100, 500} :
         \E known \in {{}, {p}, {p, o}} : facts' = Evidence(volume, tvl, advised, ratio, known)
  BY Zenon DEF Choice!ReadFacts
<1>3. PICK known \in {{}, {p}, {p, o}} :
         facts' = Evidence(volume, tvl, advised, ratio, known)
  BY <1>7, Zenon
<1>4. /\ facts'.volume = volume /\ facts'.tvl = tvl
      /\ facts'.age = Choice!EvidenceAge(known)
      /\ facts'.factor = Choice!Calibration(known, ratio)
  BY <1>3
<1>5. IsEvidence(facts')
  BY <1>4, EvidenceIsBounded DEF IsEvidence
<1>6. QED
  BY <1>1, <1>2, <1>5 DEF ChoiceInv

LEMMA AddsRow ==
    ASSUME ChoiceInv, NEW r \in Ranges, Choice!AddRow(r) PROVE ChoiceInv'
<1>1. stage = "rows" /\ IsEvidence(facts) /\ UNCHANGED <<stage, facts, chosen, analyses, selected>>
  BY DEF Choice!AddRow, ChoiceInv
<1>2. PICK daily \in Dailies, rate \in Rates, cost \in Costs, score \in 0..1,
           fits \in BOOLEAN :
         rows' = [rows EXCEPT ![r] = Choice!Row(facts, daily, rate, cost, fits, score)]
  BY DEF Choice!AddRow
<1> DEFINE new == Choice!Row(facts, daily, rate, cost, fits, score)
<1>3. new \in Outcome /\ (new.state = "row" => RowFounded(new, facts))
  BY <1>1, RowsAreFounded
<1> HIDE DEF new
<1>4. /\ rows' \in [Ranges -> Outcome] /\ rows'[r] = new
      /\ \A q \in Ranges : q # r => rows'[q] = rows[q]
  BY <1>2, <1>3 DEF ChoiceInv, new
<1>5. \A q \in Ranges : rows'[q].state = "row" => RowFounded(rows'[q], facts)
  BY <1>3, <1>4 DEF ChoiceInv
<1>6. QED
  BY <1>1, <1>4, <1>5 DEF ChoiceInv

(* Arithmetic of the tolerance: n is the net of a range within it, m of    *)
(* another one, and b of the best.                                         *)
LEMMA WithinTolerance ==
    ASSUME NEW b \in Int, NEW m \in Int, NEW n \in Int, NEW confidence \in {3, 8},
           m <= b, n >= b - Choice!Tolerance(b, confidence)
    PROVE  m - n <= 100 \/ 100 * (m - n) <= 8 * m
<1>1. (b * confidence) \div 100 \in Int /\ 100 * ((b * confidence) \div 100) <= b * confidence
  OBVIOUS
<1>2. Choice!Tolerance(b, confidence) =
        IF 100 >= (b * confidence) \div 100 THEN 100 ELSE (b * confidence) \div 100
  BY <1>1, MaxOfTwo, ChoiceExtrema DEF Choice!Tolerance
<1>3. CASE 100 >= (b * confidence) \div 100
  BY <1>2, <1>3
<1>4. CASE 100 < (b * confidence) \div 100
  <2>1. n >= b - (b * confidence) \div 100
    BY <1>1, <1>2, <1>4
  <2>2. b * confidence > 10000
    BY <1>1, <1>4
  <2>3. CASE confidence = 3
    BY <1>1, <2>1, <2>2, <2>3
  <2>4. CASE confidence = 8
    BY <1>1, <2>1, <2>2, <2>4
  <2>5. QED
    BY <2>3, <2>4
<1>5. QED
  BY <1>1, <1>3, <1>4

LEMMA Chooses == ChoiceInv /\ Choice!Choose => ChoiceInv'
<1> SUFFICES ASSUME ChoiceInv, Choice!Choose PROVE ChoiceInv'
  OBVIOUS
<1>1. /\ stage = "rows" /\ UNCHANGED <<facts, rows, analyses, selected>>
      /\ stage' \in {"refused", "tiers"}
  BY DEF Choice!Choose
<1>2. CASE Choice!Eligible = {}
  BY <1>1, <1>2 DEF Choice!Choose, ChoiceInv
<1>3. CASE Choice!Eligible # {}
  <2> DEFINE S == Choice!Eligible
             net == [r \in S |-> rows[r].net]
             Nets == {net[r] : r \in S}
  <2>1. PICK confidence \in {3, 8} : chosen' \in Choice!BestScored(S, confidence)
    BY <1>3 DEF Choice!Choose
  <2>2. /\ S \subseteq Ranges
        /\ \A r \in S : rows[r].state = "row" /\ rows[r].eligible /\ rows[r].net \in Int
    BY OutcomeStates DEF Choice!Eligible, Choice!Rows, ChoiceInv, RowRecord
  <2>3. \A r \in Ranges : rows[r].state = "row" /\ rows[r].eligible => r \in S
    BY DEF Choice!Eligible, Choice!Rows
  <2>4. chosen' \in S /\ rows[chosen'].net >=
            Choice!BestNet(S) - Choice!Tolerance(Choice!BestNet(S), confidence)
    BY <2>1 DEF Choice!BestScored, Choice!NearBest
  <2> HIDE DEF S
  <2>5. net \in [S -> Int]
    BY <2>2
  <2>6. IsFiniteSet(S)
    BY <2>2, DecisionsAssumption, FS_Subset
  <2>7. IsFiniteSet(Nets)
    <3> HIDE DEF net
    <3>1. QED
      BY <2>5, <2>6, ImageFinite
  <2>8. Nets \in SUBSET Int /\ Nets # {}
    BY <2>4, <2>5
  <2>9. Max(Nets) \in Nets /\ \A n \in Nets : Max(Nets) >= n
    <3> HIDE DEF Nets
    <3>1. QED
      BY <2>7, <2>8, MaxExists
  <2>10. Choice!BestNet(S) = Max(Nets)
    <3>1. Nets = {rows[r].net : r \in S}
      OBVIOUS
    <3>2. QED
      BY <3>1, ChoiceExtrema DEF Choice!BestNet
  <2>11. Choice!BestNet(S) \in Int /\ \A r \in S : rows[r].net <= Choice!BestNet(S)
    <3>1. \A r \in S : net[r] \in Nets /\ net[r] = rows[r].net
      OBVIOUS
    <3>2. QED
      BY <2>8, <2>9, <2>10, <3>1
  <2>12. ASSUME NEW r \in Ranges, rows[r].state = "row", rows[r].eligible
         PROVE  \/ rows[r].net - rows[chosen'].net <= 100
                \/ 100 * (rows[r].net - rows[chosen'].net) <= 8 * rows[r].net
    <3>1. r \in S
      BY <2>3, <2>12
    <3>2. /\ rows[r].net \in Int /\ rows[chosen'].net \in Int
          /\ rows[r].net <= Choice!BestNet(S)
      BY <2>2, <2>4, <2>11, <3>1
    <3>3. QED
      BY <2>4, <2>11, <3>2, WithinTolerance
  <2>13. NearlyBest'
    BY <1>1, <2>2, <2>4, <2>12 DEF NearlyBest
  <2>14. stage' = "tiers"
    BY <1>3 DEF Choice!Choose
  <2>15. QED
    BY <1>1, <2>13, <2>14 DEF ChoiceInv
<1>4. QED
  BY <1>2, <1>3

LEMMA AnalysesKeep ==
    ASSUME ChoiceInv, NEW t \in Tiers, Choice!AnalyseTier(t) \/ Choice!TierFails(t)
    PROVE  ChoiceInv'
<1>1. stage = "tiers" /\ UNCHANGED <<stage, facts, rows, chosen, selected>>
  BY DEF Choice!AnalyseTier, Choice!TierFails
<1>2. ASSUME NEW a, analyses' = [analyses EXCEPT ![t] = a],
             a.state = "row" => a.sameUnit /\ a.spot \in 67..150
      PROVE  ChoiceInv'
  <2>1. /\ DOMAIN analyses' = Tiers /\ analyses'[t] = a
        /\ \A u \in Tiers : u # t => analyses'[u] = analyses[u]
    BY <1>2 DEF ChoiceInv
  <2>2. \A u \in Tiers : analyses'[u].state = "row" =>
           analyses'[u].sameUnit /\ analyses'[u].spot \in 67..150
    BY <1>2, <2>1 DEF ChoiceInv
  <2>3. QED
    BY <1>1, <2>1, <2>2 DEF ChoiceInv, NearlyBest
<1>3. CASE analyses' = [analyses EXCEPT ![t] = Choice!Failed]
  BY <1>2, <1>3, OutcomeStates
<1>4. CASE Choice!AnalyseTier(t)
  <2>1. PICK a \in Choice!TierAnalyses :
           analyses' = [analyses EXCEPT ![t] = IF Choice!Compatible(a) THEN a ELSE Choice!Failed]
    BY <1>4 DEF Choice!AnalyseTier
  <2>2. CASE ~Choice!Compatible(a)
    BY <1>3, <2>1, <2>2
  <2>3. CASE Choice!Compatible(a)
    <3>1. a.sameUnit /\ 2 * Max({a.spot, 100}) <= 3 * Min({a.spot, 100})
      BY <2>3, ChoiceExtrema DEF Choice!Compatible
    <3>2. a.spot \in {60, 100, 200}
      BY DEF Choice!TierAnalyses
    <3>3. /\ Max({60, 100}) = 100 /\ Min({60, 100}) = 60
          /\ Max({200, 100}) = 200 /\ Min({200, 100}) = 100
      BY MaxOfTwo, MinOfTwo
    <3>4. a.spot = 100
      BY <3>1, <3>2, <3>3
    <3>5. a.state = "row" => a.sameUnit /\ a.spot \in 67..150
      BY <3>1, <3>4
    <3>6. analyses' = [analyses EXCEPT ![t] = a]
      BY <2>1, <2>3
    <3>7. QED
      BY <1>2, <3>5, <3>6, Zenon
  <2>4. QED
    BY <2>2, <2>3
<1>5. QED
  BY <1>3, <1>4 DEF Choice!TierFails

LEMMA Selects == ChoiceInv /\ Choice!Select => ChoiceInv'
<1> SUFFICES ASSUME ChoiceInv, Choice!Select PROVE ChoiceInv'
  OBVIOUS
<1>1. stage = "tiers" /\ stage' = "done" /\ UNCHANGED <<facts, rows, chosen, analyses>>
  BY DEF Choice!Select
<1>2. /\ selected' \in Choice!Analysed
      /\ \A b \in Choice!Analysed : Choice!NetOf(b) <= Choice!NetOf(selected')
  BY DEF Choice!Select
<1>3. Choice!Requested \in Choice!Analysed
  BY DEF Choice!Analysed
<1>4. Choice!NetOf(Choice!Requested) = rows[chosen].net
  BY DEF Choice!NetOf
<1>5. rows[chosen].net <= Choice!NetOf(selected')
  BY <1>2, <1>3, <1>4
<1>6. selected' # Choice!Requested => selected' \in Tiers /\ analyses[selected'].state = "row"
  BY <1>2 DEF Choice!Analysed
<1>7. NearlyBest /\ NearlyBest'
  BY <1>1 DEF ChoiceInv, NearlyBest
<1>8. (Choice!NetOf(selected))' = Choice!NetOf(selected')
  BY <1>1 DEF Choice!NetOf
<1>9. QED
  BY <1>1, <1>5, <1>6, <1>7, <1>8 DEF ChoiceInv

LEMMA ChoiceStep == ChoiceInv /\ [Next]_vars => ChoiceInv'
<1> SUFFICES ASSUME ChoiceInv, [Next]_vars PROVE ChoiceInv'
  OBVIOUS
<1>1. CASE UNCHANGED rangeVars
  BY <1>1 DEF rangeVars, ChoiceInv, NearlyBest, Choice!NetOf
<1>2. CASE Choice!RangeNext
  BY <1>2, ReadsFacts, AddsRow, Chooses, AnalysesKeep, Selects DEF Choice!RangeNext
<1>3. QED
  BY <1>1, <1>2, PartsStep

LEMMA InvIsDefensible == ChoiceInv => ChoiceIsDefensible
<1> SUFFICES ASSUME ChoiceInv, stage = "done" PROVE Choice!ChoiceIsDefensible
  BY DEF ChoiceIsDefensible, Choice!ChoiceIsDefensible
<1>1. NearlyBest /\ RowFounded(rows[chosen], facts)
  BY DEF ChoiceInv, NearlyBest
<1>2. selected # Choice!Requested =>
         analyses[selected].sameUnit /\ analyses[selected].spot \in 67..150
  BY DEF ChoiceInv
<1>3. Choice!NetOf(selected) >= rows[chosen].net
  BY DEF ChoiceInv
<1>4. \A r \in Choice!Rows : r \in Ranges /\ rows[r].state = "row"
  BY DEF Choice!Rows
<1>5. QED
  BY <1>1, <1>2, <1>3, <1>4, ChoiceExtrema
     DEF Choice!ChoiceIsDefensible, NearlyBest, RowFounded, Most

(* The range and the pool recommended rest on evidence and are nearly the  *)
(* best of those that may be used (recommend_profit_range).                *)
THEOREM ChoicesAreDefensible == Spec => []ChoiceIsDefensible
<1>1. Init => ChoiceInv
  BY ChoiceBegins DEF Init
<1>2. QED
  BY <1>1, ChoiceStep, InvIsDefensible, PTL DEF Spec

(***************************************************************************)
(* CapitalPlan.                                                            *)
(***************************************************************************)
SleeveTotal(inv, s) == MapThenSumSet(LAMBDA c : inv[<<s, c>>], Chains)
Book(inv, s) == [c \in Chains |-> inv[<<s, c>>]]
Balances == [Sleeves \X Chains -> Nat]

LEMMA TotalIsSum ==
    ASSUME NEW inv \in Balances, NEW s \in Sleeves
    PROVE  \E sum : Sums(sum, Book(inv, s), Chains) /\ SleeveTotal(inv, s) = sum[Chains]
<1> DEFINE f == Book(inv, s)
           Defines(g) == g = [U \in SUBSET Chains |-> IF U = {} THEN 0
                                ELSE inv[<<s, Any(U)>>] + g[U \ {Any(U)}]]
           Solves(g) == g = [U \in SUBSET Chains |-> IF U = {} THEN 0
                                ELSE f[Any(U)] + g[U \ {Any(U)}]]
           total == CHOOSE g : Defines(g)
<1>1. SleeveTotal(inv, s) = total[Chains]
  BY DEF SleeveTotal, MapThenSumSet, MapThenFoldSet, Any
<1>2. f \in [Chains -> Int] /\ \A c \in Chains : f[c] = inv[<<s, c>>]
  BY DEF Book, Balances
<1> HIDE DEF f
<1>3. \A g : Defines(g) <=> Solves(g)
  <2>1. \A U \in SUBSET Chains : U # {} => f[Any(U)] = inv[<<s, Any(U)>>]
    BY <1>2, AnyIsOne
  <2>2. QED
    BY <2>1
<1>4. \E g : Solves(g)
  <2>1. PICK g : Sums(g, f, Chains)
    BY <1>2, SumsExist, CapitalAssumption
  <2>2. Solves(g)
    BY <2>1, SumsSolve
  <2> HIDE DEF Solves
  <2>3. QED
    BY <2>2
<1>5. Solves(total)
  <2> HIDE DEF Solves, Defines
  <2>1. QED
    BY <1>3, <1>4
<1> HIDE DEF total
<1>6. Sums(total, f, Chains)
  BY <1>2, <1>5, SolutionsSum, CapitalAssumption
<1>7. QED
  BY <1>1, <1>6 DEF f

LEMMA TotalIsNatural ==
    ASSUME NEW inv \in Balances, NEW s \in Sleeves
    PROVE  SleeveTotal(inv, s) \in Nat
<1>1. PICK sum : Sums(sum, Book(inv, s), Chains) /\ SleeveTotal(inv, s) = sum[Chains]
  BY TotalIsSum
<1>2. 0 \in Nat /\ \A c \in Chains, v \in Nat : Book(inv, s)[c] + v \in Nat
  BY DEF Book, Balances
<1>3. \A U \in SUBSET Chains : sum[U] \in Nat
  BY <1>1, <1>2, SumsStayIn, CapitalAssumption
<1>4. QED
  BY <1>1, <1>3

LEMMA NothingIsZero ==
    ASSUME NEW s \in Sleeves
    PROVE  SleeveTotal([b \in Sleeves \X Chains |-> 0], s) = 0
<1> DEFINE inv == [b \in Sleeves \X Chains |-> 0]
<1>1. inv \in Balances
  BY DEF Balances
<1>2. 0 \in {0} /\ \A c \in Chains, v \in {0} : Book(inv, s)[c] + v \in {0}
  BY DEF Book
<1> HIDE DEF inv
<1>3. PICK sum : Sums(sum, Book(inv, s), Chains) /\ SleeveTotal(inv, s) = sum[Chains]
  BY <1>1, TotalIsSum
<1>4. \A U \in SUBSET Chains : sum[U] \in {0}
  BY <1>2, <1>3, SumsStayIn, CapitalAssumption
<1>5. QED
  BY <1>3, <1>4 DEF inv

CellIs(new, inv, s, c, v) ==
    \A t \in Sleeves, d \in Chains :
       new[<<t, d>>] = IF t = s /\ d = c THEN v ELSE inv[<<t, d>>]

LEMMA TotalChanges ==
    ASSUME NEW inv \in Balances, NEW s \in Sleeves, NEW c \in Chains, NEW v \in Nat,
           NEW new \in Balances, CellIs(new, inv, s, c, v)
    PROVE  /\ SleeveTotal(new, s) = SleeveTotal(inv, s) + v - inv[<<s, c>>]
           /\ \A t \in Sleeves : t # s => SleeveTotal(new, t) = SleeveTotal(inv, t)
<1>1. SleeveTotal(new, s) = SleeveTotal(inv, s) + v - inv[<<s, c>>]
  <2>1. PICK sum : Sums(sum, Book(inv, s), Chains) /\ SleeveTotal(inv, s) = sum[Chains]
    BY TotalIsSum
  <2>2. PICK other : Sums(other, Book(new, s), Chains) /\ SleeveTotal(new, s) = other[Chains]
    BY TotalIsSum
  <2>3. Book(inv, s) \in [Chains -> Int] /\ Book(new, s) \in [Chains -> Int]
    BY DEF Book, Balances
  <2>4. \A d \in Chains : d # c => Book(new, s)[d] = Book(inv, s)[d]
    BY DEF Book, CellIs
  <2>5. Book(new, s)[c] = v /\ Book(inv, s)[c] = inv[<<s, c>>]
    BY DEF Book, CellIs
  <2>6. other[Chains] = sum[Chains] + Book(new, s)[c] - Book(inv, s)[c]
    BY <2>1, <2>2, <2>3, <2>4, SumsChange, CapitalAssumption
  <2>7. QED
    BY <2>1, <2>2, <2>5, <2>6
<1>2. ASSUME NEW t \in Sleeves, t # s PROVE SleeveTotal(new, t) = SleeveTotal(inv, t)
  <2>1. PICK sum : Sums(sum, Book(inv, t), Chains) /\ SleeveTotal(inv, t) = sum[Chains]
    BY TotalIsSum
  <2>2. PICK other : Sums(other, Book(new, t), Chains) /\ SleeveTotal(new, t) = other[Chains]
    BY TotalIsSum
  <2>3. Book(new, t) = Book(inv, t)
    BY <1>2 DEF Book, CellIs
  <2>4. QED
    BY <2>1, <2>2, <2>3, SumsAgree, CapitalAssumption
<1>3. QED
  BY <1>1, <1>2

(* At most one suggestion is open, and what it suggests still fits; once   *)
(* one was asked for blindly, nothing is said.                             *)
SpotPlan == [sleeve : Sleeves, chain : Chains, amount : Nat \ {0}]
CapitalTyped ==
    /\ invested \in Balances /\ listed \in Balances
    /\ plans \in [Pages -> SpotPlan \cup {NoPlan}]
    /\ blind \in BOOLEAN
Fits(p) ==
    /\ p.amount <= Cash - Reserve
    /\ p.sleeve = Tactical => p.amount <= TacticalLimit - InSleeve(invested, Tactical)
    /\ p.amount <= ChainLimit - OnChain(invested, p.chain)
Within ==
    /\ Cash >= Reserve
    /\ InSleeve(invested, Tactical) <= TacticalLimit
    /\ \A c \in Chains : OnChain(invested, c) <= ChainLimit
CapitalInv ==
    /\ CapitalTyped
    /\ ~blind =>
          /\ Within
          /\ \A a, b \in Pages : plans[a] # NoPlan /\ plans[b] # NoPlan => a = b
          /\ \A a \in Pages : plans[a] # NoPlan => Fits(plans[a])

LEMMA SleevesAreTotals ==
    /\ \A book, s : InSleeve(book, s) = SleeveTotal(book, s)
    /\ \A s : InSleeve(invested, s)' = SleeveTotal(invested', s)
    /\ Core \in Sleeves /\ Tactical \in Sleeves /\ Core # Tactical
    /\ Sleeves = {Core, Tactical}
<1>1. \A book, s : InSleeve(book, s) = SleeveTotal(book, s)
  BY DEF InSleeve, SleeveTotal
<1>2. \A s : InSleeve(invested, s)' = SleeveTotal(invested', s)
  BY DEF InSleeve, SleeveTotal, MapThenSumSet, MapThenFoldSet
<1>3. QED
  BY <1>1, <1>2 DEF Sleeves, Core, Tactical

LEMMA CapitalBegins == CapitalInit => CapitalInv
<1> SUFFICES ASSUME CapitalInit PROVE CapitalInv
  OBVIOUS
<1>1. CapitalTyped
  BY DEF CapitalInit, CapitalTyped, Balances
<1>2. InSleeve(invested, Core) = 0 /\ InSleeve(invested, Tactical) = 0
  BY SleevesAreTotals, NothingIsZero DEF CapitalInit
<1>3. \A c \in Chains : OnChain(invested, c) = 0
  BY SleevesAreTotals DEF CapitalInit, OnChain
<1>4. Within
  BY <1>2, <1>3 DEF Within, Cash, CashOf, Total, Reserve, TacticalLimit, ChainLimit
<1>5. \A a \in Pages : plans[a] = NoPlan
  BY DEF CapitalInit
<1>6. QED
  BY <1>1, <1>4, <1>5 DEF CapitalInv

LEMMA RoomIsLeft ==
    ASSUME NEW n \in Int PROVE Room(n) \in Nat /\ (Room(n) > 0 => Room(n) = n)
<1>1. Max({0, n}) = IF 0 >= n THEN 0 ELSE n
  BY MaxOfTwo
<1>2. QED
  BY <1>1 DEF Room

LEMMA BooksAreNumbers ==
    ASSUME NEW book \in Balances
    PROVE  /\ InSleeve(book, Core) \in Nat /\ InSleeve(book, Tactical) \in Nat
           /\ CashOf(book) \in Int
           /\ \A s \in Sleeves : InSleeve(book, s) \in Nat
           /\ \A c \in Chains : OnChain(book, c) \in Nat
<1>1. \A s \in Sleeves : InSleeve(book, s) \in Nat
  BY SleevesAreTotals, TotalIsNatural
<1>2. \A c \in Chains : OnChain(book, c) \in Nat
  BY SleevesAreTotals DEF Balances, OnChain
<1>3. InSleeve(book, Core) \in Nat /\ InSleeve(book, Tactical) \in Nat
  BY <1>1, SleevesAreTotals
<1>4. CashOf(book) \in Int
  BY <1>3 DEF CashOf, Total
<1>5. QED
  BY <1>1, <1>2, <1>3, <1>4

LEMMA InvestedIsNumbers ==
    ASSUME CapitalTyped
    PROVE  /\ InSleeve(invested, Core) \in Nat /\ InSleeve(invested, Tactical) \in Nat
           /\ Cash \in Int
           /\ \A s \in Sleeves : InSleeve(invested, s) \in Nat
           /\ \A c \in Chains : OnChain(invested, c) \in Nat
BY BooksAreNumbers DEF CapitalTyped, Cash

(* What is suggested is one of five numbers and no more than any of them,  *)
(* three of which are the room that the rows and the cash told leave.      *)
LEMMA SuggestionFits ==
    ASSUME CapitalTyped, NEW s \in Sleeves, NEW c \in Chains, NEW score \in Int,
           NEW told \in Int, Suggested(s, c, score, told) > 0
    PROVE  LET amount == Suggested(s, c, score, told) IN
           /\ amount \in Nat \ {0}
           /\ amount <= told - Reserve /\ amount <= ChainLimit - OnChain(listed, c)
           /\ s = Tactical => amount <= TacticalLimit - InSleeve(listed, Tactical)
<1> DEFINE amount == Suggested(s, c, score, told)
           a1 == Room(told - Reserve)
           a2 == SleeveRoom(s)
           a3 == SingleLimit[s]
           a4 == Room(ChainLimit - OnChain(listed, c))
           a5 == Quality(s, score)
           S == {a1, a2, a3, a4, a5}
<1>1. score >= MinScore /\ amount = Min(S)
  BY DEF Suggested, MinScore
<1>2. told - Reserve \in Int /\ ChainLimit - OnChain(listed, c) \in Int
      /\ TacticalLimit - InSleeve(listed, Tactical) \in Int
  BY BooksAreNumbers DEF CapitalTyped, Reserve, ChainLimit, TacticalLimit
<1>3. a1 \in Nat /\ (a1 > 0 => a1 = told - Reserve)
  BY <1>2, RoomIsLeft
<1>4. a4 \in Nat /\ (a4 > 0 => a4 = ChainLimit - OnChain(listed, c))
  BY <1>2, RoomIsLeft
<1>5. a2 \in Nat /\ (s = Tactical /\ a2 > 0 => a2 = TacticalLimit - InSleeve(listed, Tactical))
  <2>1. CASE s = Tactical
    <3>1. a2 = Room(TacticalLimit - InSleeve(listed, Tactical))
      BY <2>1 DEF SleeveRoom
    <3> HIDE DEF a2
    <3>2. QED
      BY <1>2, <3>1, RoomIsLeft
  <2>2. CASE s # Tactical
    BY <2>2 DEF SleeveRoom, Total
  <2>3. QED
    BY <2>1, <2>2
<1>6. a3 \in Nat
  BY DEF SingleLimit
<1>7. a5 \in Int
  <2>1. 35 + 3 * (score - MinScore) \in Int
    BY DEF MinScore
  <2>2. SingleLimit[s] * (35 + 3 * (score - MinScore)) \in Int
    BY <1>6, <2>1
  <2>3. QED
    BY <2>2 DEF Quality
<1>8. IsFiniteSet(S) /\ S \in SUBSET Int /\ S # {}
  <2> HIDE DEF a1, a2, a3, a4, a5
  <2>1. IsFiniteSet({a1, a2, a3}) /\ IsFiniteSet({a4, a5})
    BY FewAreFinite
  <2>2. IsFiniteSet({a1, a2, a3} \cup {a4, a5})
    BY <2>1, FS_Union
  <2>3. S = {a1, a2, a3} \cup {a4, a5}
    OBVIOUS
  <2>4. S \in SUBSET Int
    BY <1>3, <1>4, <1>5, <1>6, <1>7
  <2>5. QED
    BY <2>2, <2>3, <2>4
<1> HIDE DEF a1, a2, a3, a4, a5
<1>9. amount \in S /\ \A y \in S : amount <= y
  <2> HIDE DEF S, amount
  <2>1. QED
    BY <1>1, <1>8, MinExists
<1>10. amount \in Nat \ {0} /\ amount <= a1 /\ amount <= a2 /\ amount <= a4
  <2>1. amount \in Int /\ amount > 0
    BY <1>8, <1>9
  <2> HIDE DEF amount
  <2>2. QED
    BY <1>9, <2>1
<1>11. amount <= told - Reserve /\ amount <= ChainLimit - OnChain(listed, c)
       /\ (s = Tactical => amount <= TacticalLimit - InSleeve(listed, Tactical))
  <2> HIDE DEF amount
  <2>1. QED
    BY <1>2, <1>3, <1>4, <1>5, <1>10
<1>12. QED
  BY <1>10, <1>11

LEMMA Suggests ==
    ASSUME CapitalInv, NEW a \in Pages, NEW s \in Sleeves, NEW c \in Chains, Suggest(a, s, c)
    PROVE  CapitalInv'
<1>1. PICK score \in {60, MinScore, 100}, told \in {Cash, CashOf(listed)} :
          /\ Suggested(s, c, score, told) > 0
          /\ plans' = [plans EXCEPT ![a] =
                 [sleeve |-> s, chain |-> c, amount |-> Suggested(s, c, score, told)]]
  BY DEF Suggest
<1>2. PICK amount : amount = Suggested(s, c, score, told)
  OBVIOUS
<1> DEFINE p == [sleeve |-> s, chain |-> c, amount |-> amount]
<1>3. /\ amount \in Nat \ {0}
      /\ amount <= told - Reserve /\ amount <= ChainLimit - OnChain(listed, c)
      /\ s = Tactical => amount <= TacticalLimit - InSleeve(listed, Tactical)
  <2>1. score \in Int
    BY DEF MinScore
  <2>2. CapitalTyped /\ Cash \in Int /\ CashOf(listed) \in Int
    BY BooksAreNumbers DEF CapitalInv, CapitalTyped, Cash
  <2>3. told \in Int
    BY <2>2
  <2>4. QED
    BY <1>1, <1>2, <2>1, <2>2, <2>3, SuggestionFits
<1>4. p \in SpotPlan /\ p.amount = amount /\ p.sleeve = s /\ p.chain = c
  BY <1>3 DEF SpotPlan
<1> HIDE DEF p
<1>5. /\ plans' = [plans EXCEPT ![a] = p]
      /\ invested' = invested /\ listed' = listed
      /\ blind' = (blind \/ listed # invested \/ \E b \in Pages : plans[b] # NoPlan)
  BY <1>1, <1>2 DEF Suggest, p
<1>6. blind' \in BOOLEAN
  BY <1>5
<1>7. CapitalTyped'
  BY <1>4, <1>5, <1>6 DEF CapitalInv, CapitalTyped
<1>8. \A q : Fits(q) <=> Fits(q)'
  BY <1>5, SleevesAreTotals DEF Fits, Cash, CashOf, OnChain
<1>9. ASSUME ~blind'
      PROVE  /\ Within'
             /\ \A i, j \in Pages : plans'[i] # NoPlan /\ plans'[j] # NoPlan => i = j
             /\ \A i \in Pages : plans'[i] # NoPlan => Fits(plans'[i])
  <2>1. ~blind /\ listed = invested /\ \A b \in Pages : plans[b] = NoPlan
    BY <1>5, <1>9
  <2>2. \A i \in Pages : plans'[i] = IF i = a THEN p ELSE NoPlan
    BY <1>5, <2>1 DEF CapitalInv, CapitalTyped
  <2>3. Within'
    BY <1>5, <2>1, SleevesAreTotals DEF CapitalInv, Within, Cash, CashOf, OnChain
  <2>4. told = Cash
    BY <2>1 DEF Cash
  <2>5. Fits(p)
    BY <1>3, <1>4, <2>1, <2>4 DEF Fits
  <2>6. QED
    BY <2>2, <2>3, <2>5
<1>10. QED
  BY <1>7, <1>8, <1>9 DEF CapitalInv

(* What a changed cell makes of the two sleeves and of the chains.         *)
LEMMA CellChanges ==
    ASSUME CapitalTyped, NEW s \in Sleeves, NEW c \in Chains, NEW v \in Nat,
           invested' = [invested EXCEPT ![<<s, c>>] = v]
    PROVE  /\ invested' \in Balances
           /\ InSleeve(invested, s)' = InSleeve(invested, s) + v - invested[<<s, c>>]
           /\ \A t \in Sleeves : t # s => InSleeve(invested, t)' = InSleeve(invested, t)
           /\ Cash' = Cash - v + invested[<<s, c>>]
           /\ OnChain(invested, c)' = OnChain(invested, c) + v - invested[<<s, c>>]
           /\ \A d \in Chains : d # c => OnChain(invested, d)' = OnChain(invested, d)
           /\ invested[<<s, c>>] \in Nat
<1>1. invested \in Balances /\ invested[<<s, c>>] \in Nat
  BY DEF CapitalTyped, Balances
<1>2. invested' \in Balances /\ CellIs(invested', invested, s, c, v)
  BY <1>1 DEF Balances, CellIs
<1>3. /\ SleeveTotal(invested', s) = SleeveTotal(invested, s) + v - invested[<<s, c>>]
      /\ \A t \in Sleeves : t # s => SleeveTotal(invested', t) = SleeveTotal(invested, t)
  <2>1. SleeveTotal(invested', s) = SleeveTotal(invested, s) + v - invested[<<s, c>>]
    BY <1>1, <1>2, TotalChanges
  <2>2. \A t \in Sleeves : t # s => SleeveTotal(invested', t) = SleeveTotal(invested, t)
    BY <1>1, <1>2, TotalChanges
  <2>3. QED
    BY <2>1, <2>2
<1>4. /\ InSleeve(invested, s)' = InSleeve(invested, s) + v - invested[<<s, c>>]
      /\ \A t \in Sleeves : t # s => InSleeve(invested, t)' = InSleeve(invested, t)
  BY <1>3, SleevesAreTotals
<1>5. Cash' = Cash - v + invested[<<s, c>>]
  <2>1. InSleeve(invested, Core) \in Int /\ InSleeve(invested, Tactical) \in Int
    BY InvestedIsNumbers
  <2>2. (s = Core /\ InSleeve(invested, Tactical)' = InSleeve(invested, Tactical))
        \/ (s = Tactical /\ InSleeve(invested, Core)' = InSleeve(invested, Core))
    BY <1>4, SleevesAreTotals
  <2>3. Cash' = Total - InSleeve(invested, Core)' - InSleeve(invested, Tactical)'
    BY DEF Cash, CashOf, Total
  <2>4. Cash = Total - InSleeve(invested, Core) - InSleeve(invested, Tactical) /\ Total \in Int
    BY DEF Cash, CashOf, Total
  <2>5. QED
    BY <1>1, <1>4, <2>1, <2>2, <2>3, <2>4
<1>6. \A d \in Chains :
         OnChain(invested, d)' = invested'[<<Core, d>>] + invested'[<<Tactical, d>>]
  BY DEF OnChain
<1>7. OnChain(invested, c)' = OnChain(invested, c) + v - invested[<<s, c>>]
  <2>1. invested[<<Core, c>>] \in Int /\ invested[<<Tactical, c>>] \in Int
    BY <1>1, SleevesAreTotals DEF Balances
  <2>2. OnChain(invested, c) = invested[<<Core, c>>] + invested[<<Tactical, c>>]
    BY DEF OnChain
  <2>3. s \in {Core, Tactical} /\ Core # Tactical /\ Core \in Sleeves /\ Tactical \in Sleeves
    BY SleevesAreTotals
  <2>4. /\ invested'[<<Core, c>>] = IF Core = s THEN v ELSE invested[<<Core, c>>]
        /\ invested'[<<Tactical, c>>] = IF Tactical = s THEN v ELSE invested[<<Tactical, c>>]
    BY <1>2, <2>3 DEF CellIs
  <2>5. OnChain(invested, c)' = invested'[<<Core, c>>] + invested'[<<Tactical, c>>]
    BY <1>6
  <2>6. CASE s = Core
    BY <2>1, <2>2, <2>3, <2>4, <2>5, <2>6
  <2>7. CASE s = Tactical
    BY <2>1, <2>2, <2>3, <2>4, <2>5, <2>7
  <2>8. QED
    BY <2>3, <2>6, <2>7
<1>8. \A d \in Chains : d # c => OnChain(invested, d)' = OnChain(invested, d)
  BY <1>2, <1>6, SleevesAreTotals DEF OnChain, CellIs
<1>9. QED
  BY <1>1, <1>2, <1>4, <1>5, <1>7, <1>8

LEMMA Opens ==
    ASSUME CapitalInv, NEW a \in Pages, OpenPlanned(a) PROVE CapitalInv'
<1>1. PICK s \in Sleeves, c \in Chains, n \in Nat \ {0} :
          s = plans[a].sleeve /\ c = plans[a].chain /\ n = plans[a].amount
  BY DEF CapitalInv, CapitalTyped, OpenPlanned, SpotPlan
<1>2. /\ invested' = [invested EXCEPT ![<<s, c>>] = @ + n]
      /\ plans' = [plans EXCEPT ![a] = NoPlan]
      /\ blind' = blind /\ listed' = listed
      /\ plans[a] # NoPlan
  BY <1>1 DEF OpenPlanned
<1>3. ~blind =>
         n <= Cash - Reserve /\ (s = Tactical => n <= TacticalLimit - InSleeve(invested, Tactical))
         /\ n <= ChainLimit - OnChain(invested, c)
  BY <1>1, <1>2 DEF CapitalInv, Fits
<1>4. invested[<<s, c>>] \in Nat /\ invested[<<s, c>>] + n \in Nat
  BY <1>1 DEF CapitalInv, CapitalTyped, Balances
<1>5. invested' = [invested EXCEPT ![<<s, c>>] = invested[<<s, c>>] + n]
  BY <1>2
<1>6. /\ invested' \in Balances
      /\ InSleeve(invested, s)' = InSleeve(invested, s) + n
      /\ \A t \in Sleeves : t # s => InSleeve(invested, t)' = InSleeve(invested, t)
      /\ Cash' = Cash - n
      /\ OnChain(invested, c)' = OnChain(invested, c) + n
      /\ \A d \in Chains : d # c => OnChain(invested, d)' = OnChain(invested, d)
  <2>1. PICK v \in Nat : v = invested[<<s, c>>] + n
    BY <1>4
  <2>2. invested' = [invested EXCEPT ![<<s, c>>] = v]
    BY <1>5, <2>1
  <2>3. InSleeve(invested, s) \in Int /\ Cash \in Int /\ OnChain(invested, c) \in Int
    BY <1>1, InvestedIsNumbers DEF CapitalInv
  <2>6. CapitalTyped
    BY DEF CapitalInv
  <2>4. /\ invested' \in Balances
        /\ InSleeve(invested, s)' = InSleeve(invested, s) + v - invested[<<s, c>>]
        /\ \A t \in Sleeves : t # s => InSleeve(invested, t)' = InSleeve(invested, t)
        /\ Cash' = Cash - v + invested[<<s, c>>]
        /\ OnChain(invested, c)' = OnChain(invested, c) + v - invested[<<s, c>>]
        /\ \A d \in Chains : d # c => OnChain(invested, d)' = OnChain(invested, d)
    BY <2>2, <2>6, CellChanges, Zenon
  <2>5. \A x \in Int : x + v - invested[<<s, c>>] = x + n /\ x - v + invested[<<s, c>>] = x - n
    <3>1. PICK m : m = invested[<<s, c>>]
      OBVIOUS
    <3>2. m \in Nat /\ n \in Nat /\ v = m + n
      BY <1>1, <1>4, <2>1, <3>1
    <3>3. \A x \in Int : x + v - m = x + n /\ x - v + m = x - n
      BY <3>2
    <3>4. QED
      BY <3>1, <3>3
  <2>7. InSleeve(invested, s)' = InSleeve(invested, s) + n
    BY <2>3, <2>4, <2>5
  <2>8. Cash' = Cash - n
    BY <2>3, <2>4, <2>5
  <2>9. OnChain(invested, c)' = OnChain(invested, c) + n
    BY <2>3, <2>4, <2>5
  <2>10. QED
    BY <2>4, <2>7, <2>8, <2>9, Zenon
<1>7. CapitalTyped'
  BY <1>2, <1>6 DEF CapitalInv, CapitalTyped
<1>8. ASSUME ~blind'
      PROVE  Within' /\ \A i \in Pages : plans'[i] = NoPlan
  <2>1. ~blind
    BY <1>2, <1>8
  <2>2. Within /\ Cash \in Int /\ InSleeve(invested, Tactical) \in Int
        /\ \A d \in Chains : OnChain(invested, d) \in Int
    BY <2>1, InvestedIsNumbers DEF CapitalInv
  <2>3. Cash' >= Reserve
    BY <1>1, <1>3, <1>6, <2>1, <2>2 DEF Reserve
  <2>4. InSleeve(invested, Tactical)' <= TacticalLimit
    <3>1. CASE s = Tactical
      BY <1>1, <1>3, <1>6, <2>1, <2>2, <3>1 DEF TacticalLimit
    <3>2. CASE s # Tactical
      BY <1>6, <2>2, <3>2, SleevesAreTotals DEF Within
    <3>3. QED
      BY <3>1, <3>2
  <2>5. ASSUME NEW d \in Chains PROVE OnChain(invested, d)' <= ChainLimit
    <3>1. CASE d = c
      BY <1>1, <1>3, <1>6, <2>1, <2>2, <3>1 DEF ChainLimit
    <3>2. CASE d # c
      BY <1>6, <2>2, <3>2 DEF Within
    <3>3. QED
      BY <3>1, <3>2
  <2>6. Within'
    BY <2>3, <2>4, <2>5 DEF Within, Reserve, TacticalLimit, ChainLimit
  <2>7. \A i \in Pages : plans'[i] = NoPlan
    BY <1>2, <2>1 DEF CapitalInv, CapitalTyped
  <2>8. QED
    BY <2>6, <2>7
<1>9. QED
  BY <1>7, <1>8 DEF CapitalInv

LEMMA Discards ==
    ASSUME CapitalInv, NEW a \in Pages, Discard(a) PROVE CapitalInv'
<1>1. /\ plans' = [plans EXCEPT ![a] = NoPlan]
      /\ invested' = invested /\ listed' = listed /\ blind' = blind
  BY DEF Discard
<1>2. CapitalTyped'
  BY <1>1 DEF CapitalInv, CapitalTyped
<1>3. \A i \in Pages : plans'[i] = IF i = a THEN NoPlan ELSE plans[i]
  BY <1>1 DEF CapitalInv, CapitalTyped
<1>4. (Within <=> Within') /\ \A q : Fits(q) <=> Fits(q)'
  BY <1>1, SleevesAreTotals DEF Within, Fits, Cash, CashOf, OnChain
<1>5. QED
  BY <1>1, <1>2, <1>3, <1>4 DEF CapitalInv

LEMMA Closes ==
    ASSUME CapitalInv, NEW s \in Sleeves, NEW c \in Chains, CloseAll(s, c) PROVE CapitalInv'
<1>1. /\ invested' = [invested EXCEPT ![<<s, c>>] = 0]
      /\ plans' = plans /\ blind' = blind /\ listed' = listed
  BY DEF CloseAll
<1>2. /\ invested' \in Balances
      /\ InSleeve(invested, s)' = InSleeve(invested, s) + 0 - invested[<<s, c>>]
      /\ \A t \in Sleeves : t # s => InSleeve(invested, t)' = InSleeve(invested, t)
      /\ Cash' = Cash - 0 + invested[<<s, c>>]
      /\ OnChain(invested, c)' = OnChain(invested, c) + 0 - invested[<<s, c>>]
      /\ \A d \in Chains : d # c => OnChain(invested, d)' = OnChain(invested, d)
      /\ invested[<<s, c>>] \in Nat
  <2>1. 0 \in Nat
    OBVIOUS
  <2>2. QED
    BY <1>1, <2>1, CellChanges DEF CapitalInv
<1>3. /\ Cash \in Int /\ Cash' \in Int /\ Cash' >= Cash
      /\ InSleeve(invested, Tactical) \in Int /\ InSleeve(invested, Tactical)' \in Int
      /\ InSleeve(invested, Tactical)' <= InSleeve(invested, Tactical)
      /\ \A d \in Chains : OnChain(invested, d) \in Int /\ OnChain(invested, d)' \in Int /\ OnChain(invested, d)' <= OnChain(invested, d)
  <2>1. CapitalTyped
    BY DEF CapitalInv
  <2>2. Cash \in Int /\ Cash' \in Int /\ Cash' >= Cash
    BY <1>2, <2>1, InvestedIsNumbers
  <2>3. /\ InSleeve(invested, Tactical) \in Int /\ InSleeve(invested, Tactical)' \in Int
        /\ InSleeve(invested, Tactical)' <= InSleeve(invested, Tactical)
    BY <1>2, <2>1, InvestedIsNumbers, SleevesAreTotals
  <2>4. ASSUME NEW d \in Chains
        PROVE  OnChain(invested, d) \in Int /\ OnChain(invested, d)' \in Int /\ OnChain(invested, d)' <= OnChain(invested, d)
    BY <1>2, <2>1, InvestedIsNumbers
  <2>5. QED
    BY <2>2, <2>3, <2>4
<1>4. CapitalTyped'
  BY <1>1, <1>2 DEF CapitalInv, CapitalTyped
<1>5. Within => Within'
  BY <1>3 DEF Within, Reserve, TacticalLimit, ChainLimit
<1>6. ASSUME NEW q \in SpotPlan, Fits(q) PROVE Fits(q)'
  <2>1. q.chain \in Chains /\ q.amount \in Int
    BY DEF SpotPlan
  <2>2. QED
    BY <1>3, <1>6, <2>1 DEF Fits, Reserve, TacticalLimit, ChainLimit
<1>7. \A i \in Pages : plans[i] # NoPlan => plans[i] \in SpotPlan
  BY DEF CapitalInv, CapitalTyped
<1>8. QED
  BY <1>1, <1>4, <1>5, <1>6, <1>7 DEF CapitalInv

LEMMA Lists ==
    ASSUME CapitalInv, NEW c \in Chains, ListChain(c) PROVE CapitalInv'
<1>1. /\ invested' = invested /\ plans' = plans /\ blind' = blind
      /\ listed' = [b \in Sleeves \X Chains |-> IF b[2] = c THEN invested[b] ELSE listed[b]]
  BY DEF ListChain
<1>2. listed' \in Balances
  BY <1>1 DEF CapitalInv, CapitalTyped, Balances
<1>3. CapitalTyped'
  BY <1>1, <1>2 DEF CapitalInv, CapitalTyped
<1>4. (Within <=> Within') /\ \A q : Fits(q) <=> Fits(q)'
  BY <1>1, SleevesAreTotals DEF Within, Fits, Cash, CashOf, OnChain
<1>5. QED
  BY <1>1, <1>3, <1>4 DEF CapitalInv

LEMMA CapitalStep == CapitalInv /\ [Next]_vars => CapitalInv'
<1> SUFFICES ASSUME CapitalInv, [Next]_vars PROVE CapitalInv'
  OBVIOUS
<1>1. CASE UNCHANGED capitalVars
  <2>1. /\ invested' = invested /\ plans' = plans /\ blind' = blind
        /\ listed' = listed
    BY <1>1 DEF capitalVars
  <2>2. CapitalTyped'
    BY <2>1 DEF CapitalInv, CapitalTyped
  <2>3. (Within <=> Within') /\ \A q : Fits(q) <=> Fits(q)'
    BY <2>1, SleevesAreTotals DEF Within, Fits, Cash, CashOf, OnChain
  <2>4. QED
    BY <2>1, <2>2, <2>3 DEF CapitalInv
<1>2. CASE CapitalNext
  BY <1>2, Suggests, Opens, Discards, Closes, Lists DEF CapitalNext
<1>3. QED
  BY <1>1, <1>2, PartsStep

(* Unless a suggestion was asked for while another one was open, or while  *)
(* the rows did not show what is in the pools, what is opened never        *)
(* exceeds the reserve, the tactical book or a chain (suggest_allocation). *)
THEOREM LimitsAreCeilings == Spec => []LimitsHold
<1>1. Init => CapitalInv
  BY CapitalBegins DEF Init
<1>2. CapitalInv => LimitsHold
  BY DEF CapitalInv, Within, LimitsHold
<1>3. QED
  BY <1>1, <1>2, CapitalStep, PTL DEF Spec

(***************************************************************************)
(* CapitalAdvice.                                                          *)
(***************************************************************************)
AdviceTyped == found \in [Pools -> Advice!Pool \cup {Advice!Unseen}]
Weights(T) == [q \in T |-> found[q].weight]
Weight(T) == Advice!MapThenSumSet(LAMBDA q : found[q].weight, T)

LEMMA AdviceExtrema == \A S : Advice!Min(S) = Min(S)
BY DEF Min, Advice!Min

LEMMA SeenFacts ==
    ASSUME AdviceTyped, NEW p \in Pools, found[p] # Advice!Unseen
    PROVE  found[p] \in Advice!Pool /\ found[p].weight \in {50, 400}
BY DEF AdviceTyped, Advice!Pool

LEMMA WeightIsSum ==
    ASSUME NEW T, IsFiniteSet(T), Weights(T) \in [T -> Int]
    PROVE  \E sum : Sums(sum, Weights(T), T) /\ Weight(T) = sum[T]
<1> DEFINE f == Weights(T)
           Defines(g) == g = [U \in SUBSET T |-> IF U = {} THEN 0
                                ELSE found[Any(U)].weight + g[U \ {Any(U)}]]
           Solves(g) == g = [U \in SUBSET T |-> IF U = {} THEN 0
                                ELSE f[Any(U)] + g[U \ {Any(U)}]]
           total == CHOOSE g : Defines(g)
<1>1. Weight(T) = total[T]
  BY DEF Weight, Advice!MapThenSumSet, Advice!MapThenFoldSet, Any
<1>2. f \in [T -> Int] /\ \A q \in T : f[q] = found[q].weight
  BY DEF Weights
<1> HIDE DEF f
<1>3. \A g : Defines(g) <=> Solves(g)
  <2>1. \A U \in SUBSET T : U # {} => f[Any(U)] = found[Any(U)].weight
    BY <1>2, AnyIsOne
  <2>2. QED
    BY <2>1
<1>4. \E g : Solves(g)
  <2>1. PICK g : Sums(g, f, T)
    BY <1>2, SumsExist
  <2>2. Solves(g)
    BY <2>1, SumsSolve
  <2> HIDE DEF Solves
  <2>3. QED
    BY <2>2
<1>5. Solves(total)
  <2> HIDE DEF Solves, Defines
  <2>1. QED
    BY <1>3, <1>4
<1> HIDE DEF total
<1>6. Sums(total, f, T)
  BY <1>2, <1>5, SolutionsSum
<1>7. QED
  BY <1>1, <1>6 DEF f

LEMMA AmountIsSum ==
    ASSUME NEW T, IsFiniteSet(T), NEW f \in [T -> Int]
    PROVE  \E sum : Sums(sum, f, T) /\ Advice!SumFunction(f) = sum[T]
<1> DEFINE Solves(g) == g = [U \in SUBSET T |-> IF U = {} THEN 0
                                ELSE f[Any(U)] + g[U \ {Any(U)}]]
           total == CHOOSE g : Solves(g)
<1>1. Advice!SumFunction(f) = Advice!SumFunctionOnSet(f, T)
  BY DEF Advice!SumFunction
<1>2. Advice!SumFunctionOnSet(f, T) = total[T]
  BY DEF Advice!SumFunctionOnSet, Advice!FoldFunctionOnSet, Advice!MapThenFoldSet, Any
<1>3. \E g : Solves(g)
  <2>1. PICK g : Sums(g, f, T)
    BY SumsExist
  <2>2. Solves(g)
    BY <2>1, SumsSolve
  <2> HIDE DEF Solves
  <2>3. QED
    BY <2>2
<1>4. Solves(total)
  <2> HIDE DEF Solves
  <2>1. QED
    BY <1>3
<1> HIDE DEF total
<1>5. Sums(total, f, T)
  BY <1>4, SolutionsSum
<1>6. QED
  BY <1>1, <1>2, <1>5

(* Shares by weight, rounded down, come to no more than what is shared.    *)
LEMMA TimesAdds ==
    ASSUME NEW a \in Int, NEW b \in Int, NEW x \in Int, NEW y \in Int,
           NEW D \in Nat, NEW W \in Nat, a * W <= D * x, b * W <= D * y
    PROVE  (a + b) * W <= D * (x + y)
BY SMT

LEMMA DividedFits ==
    ASSUME NEW a \in Int, NEW x \in Nat, NEW W \in Nat \ {0}, a <= x \div W
    PROVE  a * W <= x
BY SMT

LEMMA TimesLess ==
    ASSUME NEW a \in Int, NEW D \in Nat, NEW W \in Nat \ {0}, a * W <= D * W
    PROVE  a <= D
BY SMT

LEMMA WholeIsNatural ==
    ASSUME NEW T, IsFiniteSet(T), NEW w \in [T -> Nat \ {0}], NEW whole, Sums(whole, w, T)
    PROVE  (\A U \in SUBSET T : whole[U] \in Nat) /\ (T # {} => whole[T] \in Nat \ {0})
<1>1. \A U \in SUBSET T : whole[U] \in Nat
  <2>1. 0 \in Nat /\ \A p \in T, v \in Nat : w[p] + v \in Nat
    OBVIOUS
  <2>2. QED
    BY <2>1, SumsStayIn
<1>2. ASSUME T # {} PROVE whole[T] \in Nat \ {0}
  <2>1. Any(T) \in T
    BY <1>2, AnyIsOne
  <2>2. whole[T] = w[Any(T)] + whole[T \ {Any(T)}]
    BY <1>2 DEF Sums
  <2>3. w[Any(T)] \in Nat \ {0} /\ whole[T \ {Any(T)}] \in Nat
    BY <1>1, <2>1
  <2>4. QED
    BY <2>2, <2>3
<1>3. QED
  BY <1>1, <1>2

LEMMA SharesFit ==
    ASSUME NEW T, IsFiniteSet(T), NEW D \in Nat,
           NEW f \in [T -> Int], NEW w \in [T -> Nat \ {0}],
           NEW sum, NEW whole, Sums(sum, f, T), Sums(whole, w, T),
           \A p \in T : f[p] <= (D * w[p]) \div whole[T]
    PROVE  sum[T] <= D
<1>1. CASE T = {}
  <2>1. sum[T] = 0
    BY <1>1 DEF Sums
  <2>2. QED
    BY <2>1
<1>2. CASE T # {}
  <2>2. (\A U \in SUBSET T : whole[U] \in Nat) /\ whole[T] \in Nat \ {0}
    BY <1>2, WholeIsNatural
  <2>3. PICK W \in Nat \ {0} : whole[T] = W
    BY <2>2
  <2>4. ASSUME NEW p \in T PROVE f[p] * W <= D * w[p]
    <3>1. D * w[p] \in Nat /\ f[p] \in Int /\ f[p] <= (D * w[p]) \div W
      BY <2>3
    <3>2. QED
      BY <3>1, DividedFits
  <2> DEFINE Bad == {U \in SUBSET T : ~(sum[U] * W <= D * whole[U])}
  <2>5. Bad = {}
    <3> SUFFICES ASSUME Bad # {} PROVE FALSE
      OBVIOUS
    <3>1. Bad \subseteq SUBSET T
      OBVIOUS
    <3>2. PICK U \in Bad : \A V \in SUBSET U : V # U => V \notin Bad
      <4> HIDE DEF Bad
      <4>1. QED
        BY <3>1, LeastExists
    <3>3. U \in SUBSET T /\ ~(sum[U] * W <= D * whole[U])
      OBVIOUS
    <3>4. U # {}
      <4>1. sum[{}] = 0 /\ whole[{}] = 0
        BY DEF Sums
      <4>2. 0 * W <= D * 0
        OBVIOUS
      <4>3. QED
        BY <3>3, <4>1, <4>2
    <3> DEFINE x == Any(U)
               V == U \ {x}
    <3>5. x \in U /\ x \in T /\ V \in SUBSET T /\ V \notin Bad
      BY <3>2, <3>3, <3>4, AnyIsOne
    <3>6. sum[U] = f[x] + sum[V] /\ whole[U] = w[x] + whole[V]
      BY <3>3, <3>4 DEF Sums
    <3>7. sum[V] * W <= D * whole[V]
      BY <3>5
    <3>8. f[x] * W <= D * w[x]
      BY <2>4, <3>5
    <3>9. f[x] \in Int /\ sum[V] \in Int /\ w[x] \in Int /\ whole[V] \in Int
      BY <2>2, <3>5 DEF Sums
    <3> HIDE DEF x, V
    <3>10. (f[x] + sum[V]) * W <= D * (w[x] + whole[V])
      BY <3>7, <3>8, <3>9, TimesAdds
    <3>11. QED
      BY <3>3, <3>6, <3>10
  <2>6. sum[T] * W <= D * W
    BY <2>3, <2>5
  <2>7. sum[T] \in Int
    BY DEF Sums
  <2>8. QED
    BY <2>6, <2>7, TimesLess
<1>3. QED
  BY <1>1, <1>2

LEMMA SpreadFits ==
    ASSUME NEW T, IsFiniteSet(T), NEW D \in {1000, 900, 100}, NEW by,
           \A p \in T : found[p].weight \in {50, 400}
    PROVE  LET amounts == Advice!Funded(by, T, D)
           IN /\ Advice!SumFunction(amounts) <= D
              /\ \A p \in T : 100 * amounts[p] <= Advice!Ceiling(by, p) * D
<1> DEFINE f == Advice!Funded(by, T, D)
           w == Weights(T)
<1>1. w \in [T -> Nat \ {0}] /\ w \in [T -> Int] /\ \A p \in T : w[p] = found[p].weight
  BY DEF Weights
<1>2. PICK whole : Sums(whole, w, T) /\ Weight(T) = whole[T]
  <2> HIDE DEF w
  <2>1. QED
    BY <1>1, WeightIsSum DEF w
<1>3. ASSUME NEW p \in T
      PROVE  /\ f[p] \in Int
             /\ f[p] <= (D * w[p]) \div whole[T]
             /\ 100 * f[p] <= Advice!Ceiling(by, p) * D
  <2> DEFINE a == Advice!Share(p, T, D)
             b == (D * Advice!Ceiling(by, p)) \div 100
  <2>1. f[p] = Min({a, b})
    BY AdviceExtrema DEF Advice!Funded
  <2>2. a = (D * w[p]) \div whole[T]
    BY <1>1, <1>2 DEF Advice!Share, Weight
  <2>3. Advice!Ceiling(by, p) \in Nat
    BY DEF Advice!Ceiling
  <2>4. a \in Int
    <3>1. T # {}
      OBVIOUS
    <3>2. whole[T] \in Nat \ {0}
      <4> HIDE DEF w
      <4>1. QED
        BY <1>1, <1>2, <3>1, WholeIsNatural
    <3>3. D * w[p] \in Int
      BY <1>1
    <3>4. QED
      BY <2>2, <3>2, <3>3
  <2>5. b \in Int
    BY <2>3
  <2> HIDE DEF a, b, f, w
  <2>6. Min({a, b}) \in Int /\ Min({a, b}) <= a /\ Min({a, b}) <= b
    BY <2>4, <2>5, MinOfTwo
  <2>7. 100 * f[p] <= Advice!Ceiling(by, p) * D
    <3>1. D * Advice!Ceiling(by, p) \in Nat /\ 100 \in Nat \ {0}
      BY <2>3
    <3>2. f[p] \in Int /\ f[p] <= (D * Advice!Ceiling(by, p)) \div 100
      BY <2>1, <2>6 DEF b
    <3>3. f[p] * 100 <= D * Advice!Ceiling(by, p)
      BY <3>1, <3>2, DividedFits
    <3>4. QED
      BY <2>3, <3>2, <3>3
  <2>8. QED
    BY <2>1, <2>2, <2>6, <2>7
<1>4. f \in [T -> Int]
  BY <1>3 DEF Advice!Funded
<1>5. PICK sum : Sums(sum, f, T) /\ Advice!SumFunction(f) = sum[T]
  <2> HIDE DEF f
  <2>1. QED
    BY <1>4, AmountIsSum
<1> HIDE DEF f, w
<1>6. sum[T] <= D
  <2>1. D \in Nat
    OBVIOUS
  <2>2. QED
    BY <1>1, <1>2, <1>3, <1>4, <1>5, <2>1, SharesFit
<1>7. QED
  BY <1>3, <1>5, <1>6 DEF f

LEMMA PlanFits ==
    ASSUME AdviceTyped, NEW by, NEW S \in SUBSET Pools, NEW n, Advice!Plan(by, S, n)
    PROVE  /\ Advice!SumFunction(advice'.amounts) <= advice'.deployable
           /\ advice'.by = by /\ DOMAIN advice'.amounts \subseteq S
           /\ \A p \in DOMAIN advice'.amounts :
                 100 * advice'.amounts[p] <= Advice!Ceiling(by, p) * advice'.deployable
<1>1. PICK reserve \in {0, 10, 90}, T \in Advice!Cut(S, n) :
          advice' = [by |-> by, deployable |-> 1000 - (1000 * reserve) \div 100,
                     amounts |-> Advice!Funded(by, T, 1000 - (1000 * reserve) \div 100)]
  BY DEF Advice!Plan, Advice!Capital
<1> DEFINE D == 1000 - (1000 * reserve) \div 100
<1>2. D \in {1000, 900, 100}
  OBVIOUS
<1> HIDE DEF D
<1>3. /\ advice'.by = by /\ advice'.deployable = D
      /\ advice'.amounts = Advice!Funded(by, T, D)
  BY <1>1 DEF D
<1>4. T \subseteq S /\ IsFiniteSet(T)
  <2>1. T \subseteq S
    BY DEF Advice!Cut, Advice!Best
  <2>2. QED
    BY <2>1, DecisionsAssumption, FS_Subset
<1>5. \A p \in T : found[p].weight \in {50, 400}
  BY <1>4, SeenFacts DEF Advice!Plan
<1>6. DOMAIN Advice!Funded(by, T, D) = T
  BY DEF Advice!Funded
<1> DEFINE amounts == Advice!Funded(by, T, D)
<1>7. /\ Advice!SumFunction(amounts) <= D
      /\ \A p \in T : 100 * amounts[p] <= Advice!Ceiling(by, p) * D
  BY <1>2, <1>4, <1>5, SpreadFits
<1>8. QED
  BY <1>3, <1>4, <1>6, <1>7

(* No pool is core behind the gates, and a tactical one is of some age and *)
(* size.                                                                   *)
LEMMA GatedIsTactical ==
    ASSUME AdviceTyped, NEW p \in Pools, found[p] # Advice!Unseen, Advice!Gate(p)
    PROVE  /\ found[p].age >= 1 /\ found[p].tvl >= 1
           /\ Advice!SleeveOf(p) = Advice!Tactical
<1>1. Advice!SleeveOf(p) \in {Advice!Core, Advice!Tactical}
  BY SeenFacts DEF Advice!SleeveOf, Advice!Pool
<1>2. ~Advice!CoreGate(p)
  BY DEF Advice!CoreGate, Advice!LiquidityStability
<1>3. Advice!SleeveOf(p) # Advice!Core /\ Advice!TacticalGate(p)
  BY <1>2 DEF Advice!Gate
<1>4. QED
  BY <1>1, <1>3 DEF Advice!TacticalGate

LEMMA AdviceTypes == AdviceTyped /\ [Next]_vars => AdviceTyped'
<1> SUFFICES ASSUME AdviceTyped, [Next]_vars PROVE AdviceTyped'
  OBVIOUS
<1>1. CASE UNCHANGED adviceVars
  BY <1>1 DEF adviceVars, AdviceTyped
<1>2. ASSUME NEW p \in Pools, Advice!Find(p) PROVE AdviceTyped'
  BY <1>2 DEF Advice!Find, AdviceTyped
<1>3. ASSUME NEW by, NEW S, NEW n, Advice!Plan(by, S, n) PROVE AdviceTyped'
  BY <1>3 DEF Advice!Plan, AdviceTyped
<1>4. CASE Advice!AdviceNext
  BY <1>2, <1>3, <1>4 DEF Advice!AdviceNext, Advice!Advise, Advice!Search
<1>5. QED
  BY <1>1, <1>4, PartsStep

Affordable ==
    /\ Advice!SumFunction(advice'.amounts) <= advice'.deployable
    /\ \A p \in DOMAIN advice'.amounts :
          /\ 100 * advice'.amounts[p] <= Advice!Ceiling(advice'.by, p) * advice'.deployable
          /\ advice'.by # "search" =>
                /\ found[p].age >= 1 /\ found[p].tvl >= 1
                /\ Advice!SleeveOf(p) = Advice!Tactical

LEMMA AdviceStep ==
    ASSUME AdviceTyped, [Next]_vars, advice' # Advice!NoAdvice, ~UNCHANGED adviceVars
    PROVE  Affordable
<1>1. ASSUME NEW by, NEW n, Advice!Plan(by, Advice!Accepted, n) PROVE Affordable
  <2>1. Advice!Accepted \in SUBSET Pools
    BY DEF Advice!Accepted
  <2>2. \A p \in Advice!Accepted : found[p] # Advice!Unseen /\ Advice!Gate(p) /\ p \in Pools
    BY <1>1 DEF Advice!Accepted, Advice!Plan
  <2>3. \A p \in Advice!Accepted :
           found[p].age >= 1 /\ found[p].tvl >= 1 /\ Advice!SleeveOf(p) = Advice!Tactical
    BY <2>2, GatedIsTactical
  <2>4. QED
    BY <1>1, <2>1, <2>3, PlanFits DEF Affordable
<1>2. CASE Advice!Search
  <2> DEFINE S == {p \in Pools : found[p].sound}
  <2>1. Advice!Plan("search", S, 3) /\ S \in SUBSET Pools
    BY <1>2 DEF Advice!Search
  <2> HIDE DEF S
  <2>2. QED
    BY <2>1, PlanFits DEF Affordable
<1>3. ASSUME NEW p \in Pools, Advice!Find(p) PROVE FALSE
  BY <1>3 DEF Advice!Find
<1>4. Advice!AdviceNext
  BY PartsStep
<1>5. QED
  BY <1>1, <1>2, <1>3, <1>4 DEF Advice!AdviceNext, Advice!Advise

(* Either plan leaves the reserve alone and keeps to its ceilings, and the *)
(* advisor funds no young, small or core pool (rank_opportunities and      *)
(* profit_search).                                                         *)
THEOREM PlansAreAffordable == Spec => AdviceIsAffordable
<1>1. Init => AdviceTyped
  BY DEF Init, Advice!AdviceInit, AdviceTyped
<1>2. AdviceTyped /\ [Next]_vars =>
         [advice' # Advice!NoAdvice =>
            LET plan == advice'
            IN /\ Advice!SumFunction(plan.amounts) <= plan.deployable
               /\ \A p \in DOMAIN plan.amounts :
                     /\ 100 * plan.amounts[p] <= Advice!Ceiling(plan.by, p) * plan.deployable
                     /\ plan.by # "search" =>
                           /\ found[p].age >= 1 /\ found[p].tvl >= 1
                           /\ Advice!SleeveOf(p) = Advice!Tactical
         ]_(Advice!adviceVars)
  BY AdviceStep DEF Affordable, adviceVars, Advice!adviceVars
<1>3. QED
  BY <1>1, <1>2, AdviceTypes, PTL DEF Spec, AdviceIsAffordable, Advice!AdviceIsAffordable
===================================================================================
