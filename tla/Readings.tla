--------------------------------- MODULE Readings ---------------------------------
(***************************************************************************)
(* What the program reads about an NFT and what it makes of it: unclaimed  *)
(* fees out of five calls (V3Fees), fees over time out of those (module    *)
(* FeeTracker), the accounts of a closed one (LifecycleHistory), and the   *)
(* client that everything about prices comes through (MarketClient).  Each *)
(* takes what the others return as an input of any value, so an execution  *)
(* is one of a single part.                                                *)
(***************************************************************************)
EXTENDS V3Fees, MarketClient

CONSTANTS Scanners, Sources, Spacings, Coalesce, Window, Retention, Midnight, MaxTime, MaxEarned,
          MaxWrong, MaxBlock, MaxSupply, WideRange, LeastRange

ASSUME SourcesAssumption ==
    Sources # {} /\ Sources \subseteq {"POOL_FEE_GROWTH", "STORED_TOKENS_OWED_FALLBACK"}
ASSUME TimeAssumption ==
    /\ {MaxTime, Coalesce, Window, Retention, MaxEarned, MaxWrong} \subseteq Nat
    /\ 0 < Window /\ Window <= Retention
    /\ Midnight \in 1..MaxTime /\ Spacings \subseteq 1..MaxTime
ASSUME RangeAssumption ==
    /\ {MaxBlock, MaxSupply, LeastRange} \subseteq Nat \ {0} /\ WideRange \in Nat
    /\ LeastRange <= WideRange

VARIABLES part,
          now, fees, tracker, scan, past, thinned, wrong, overlapped,
          blocks, nft, job, account

Tracking == INSTANCE FeeTracker
Life == INSTANCE LifecycleHistory

trackerVars == <<now, fees, tracker, scan, past, thinned, wrong, overlapped>>
lifeVars == <<blocks, nft, job, account>>
readingVars == <<part, vars, trackerVars, lifeVars, marketVars>>

(* One state is enough for a part that does not move.                      *)
Resting == price = "in" /\ global = 0

ReadingsInit ==
    /\ part \in {"unclaimed", "tracker", "closed", "market"}
    /\ Init /\ (part = "unclaimed" \/ Resting)
    /\ Tracking!Init /\ Life!LifeInit /\ MarketInit

ReadingsNext ==
    \/ /\ part = "unclaimed" /\ Next
       /\ UNCHANGED <<part, trackerVars, lifeVars, marketVars>>
    \/ /\ part = "tracker" /\ Tracking!Next
       /\ UNCHANGED <<part, vars, lifeVars, marketVars>>
    \/ /\ part = "closed" /\ Life!LifeNext
       /\ UNCHANGED <<part, vars, trackerVars, marketVars>>
    \/ /\ part = "market" /\ MarketNext
       /\ UNCHANGED <<part, vars, trackerVars, lifeVars>>

ReadingsSpec == ReadingsInit /\ [][ReadingsNext]_readingVars

--------------------------------------------------------------------------------
(* _rolling_fee_tracker counts no fee the pool did not pay beyond what the *)
(* amounts it was given were off by (see FeeTracker).                      *)
CountsRealFeesOnly == Tracking!CountsRealFeesOnly

(* The rolling sum of _rolling_fee_tracker takes in its own time (see      *)
(* FeeTracker).                                                            *)
RollingIsWindow == Tracking!RollingIsWindow

(* _closed_position_final freezes the whole life or nothing (see           *)
(* LifecycleHistory).                                                      *)
ClosedAccountsAreWhole == Life!ClosedAccountsAreWhole
================================================================================
