-------------------------------- MODULE MCReadings --------------------------------
EXTENDS Readings

(* Counters that start at, just before and half-way round the wrap.        *)
MCGrowths == {0, 3, 7}

MCSources == {"POOL_FEE_GROWTH", "STORED_TOKENS_OWED_FALLBACK"}

(* One key of each kind: 15 minutes and a day against 45 s and half an     *)
(* hour, a cooldown lasting 20 to 45 s.                                    *)
MCYoung == [candles |-> 2, rows |-> 1]
MCStale == [candles |-> 4, rows |-> 3]
================================================================================
