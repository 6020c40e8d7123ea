------------------------------ MODULE WorkerProofs ------------------------------
(***************************************************************************)
(* Decisions about positions at risk are repeated only after a fault, for  *)
(* any number of positions and of threads that refresh.                    *)
(***************************************************************************)
EXTENDS Worker, FiniteSetTheorems, TLAPS

Labels == {"idle", "read", "review", "sign", "wallet", "scout", "market", "health", "caught", "dead"}

ReviewTypeOK ==
    /\ risk \in [Positions -> Bands] /\ lock \in Refreshers \cup {None}
    /\ pc \in [Refreshers -> Labels]
    /\ review \in [todo : SUBSET Positions, read : [Positions -> Bands], cur : Positions \cup {None}]
    /\ lastRisk \in [Positions -> Bands] /\ decided \in [Positions -> Bands]
    /\ repeats \in Nat /\ faults \in Nat

(* Who refreshes holds the lock, and so no other thread does.              *)
Refreshing(r) == pc[r] \in {"read", "review", "sign"}
LockHeld == \A r \in Refreshers : Refreshing(r) => lock = r

(* The position whose decision is stored and whose signature is not yet.   *)
Pending == {p \in Positions : \E r \in Refreshers : pc[r] = "sign" /\ review.cur = p}
SignsDecided ==
    \A r \in Refreshers : pc[r] = "sign" =>
        review.cur \in Positions /\ decided[review.cur] = review.read[review.cur]

(* Positions whose decision and signature a fault has set apart: each can  *)
(* be repeated once, and has a fault of its own.                           *)
Apart == {p \in Positions : decided[p] # lastRisk[p]} \ Pending
FaultsPay == IsFiniteSet(Apart) /\ repeats + Cardinality(Apart) <= faults

WorkerInv == ReviewTypeOK /\ LockHeld /\ SignsDecided /\ FaultsPay

LEMMA PayIs == WorkerInv => RepeatsNeedFaults
<1> SUFFICES ASSUME WorkerInv PROVE RepeatsNeedFaults
  OBVIOUS
<1>1. Cardinality(Apart) \in Nat
  BY FS_CardinalityType DEF WorkerInv, FaultsPay
<1>2. QED
  BY <1>1 DEF WorkerInv, FaultsPay, ReviewTypeOK, RepeatsNeedFaults

LEMMA InitWorker == Init => WorkerInv
<1> SUFFICES ASSUME Init PROVE WorkerInv
  OBVIOUS
<1>1. NoReview \in [todo : SUBSET Positions, read : [Positions -> Bands],
                    cur : Positions \cup {None}]
  BY WorkerAssumption DEF NoReview
<1>2. ReviewTypeOK
  BY <1>1, WorkerAssumption DEF Init, ReviewTypeOK, Labels
<1>3. LockHeld /\ SignsDecided
  BY DEF Init, LockHeld, Refreshing, SignsDecided
<1>4. Apart = {}
  BY DEF Init, Apart
<1>5. FaultsPay
  BY <1>4, FS_EmptySet DEF Init, FaultsPay
<1>6. QED
  BY <1>2, <1>3, <1>5 DEF WorkerInv

(* One position more or less set apart.                                    *)
LEMMA OneMore ==
    ASSUME WorkerInv, NEW p, Apart' \subseteq Apart \cup {p}, faults' = faults + 1,
           repeats' = repeats
    PROVE  FaultsPay'
<1>1. /\ IsFiniteSet(Apart) /\ Cardinality(Apart) \in Nat
      /\ repeats + Cardinality(Apart) <= faults /\ repeats \in Nat /\ faults \in Nat
  BY FS_CardinalityType DEF WorkerInv, FaultsPay, ReviewTypeOK
<1>2. /\ IsFiniteSet(Apart \cup {p})
      /\ Cardinality(Apart \cup {p}) \in Nat /\ Cardinality(Apart \cup {p}) <= Cardinality(Apart) + 1
  <2>1. /\ IsFiniteSet(Apart \cup {p})
        /\ \/ Cardinality(Apart \cup {p}) = Cardinality(Apart)
           \/ Cardinality(Apart \cup {p}) = Cardinality(Apart) + 1
    BY <1>1, FS_AddElement
  <2>2. QED
    BY <1>1, <2>1
<1>3. /\ IsFiniteSet(Apart') /\ Cardinality(Apart') \in Nat
      /\ Cardinality(Apart') <= Cardinality(Apart \cup {p})
  BY <1>2, FS_Subset, FS_CardinalityType
<1>4. QED
  BY <1>1, <1>2, <1>3 DEF FaultsPay

LEMMA NoMore ==
    ASSUME WorkerInv, Apart' \subseteq Apart, faults' >= faults, faults' \in Nat,
           repeats' = repeats
    PROVE  FaultsPay'
<1>1. /\ IsFiniteSet(Apart) /\ Cardinality(Apart) \in Nat
      /\ repeats + Cardinality(Apart) <= faults /\ repeats \in Nat /\ faults \in Nat
  BY FS_CardinalityType DEF WorkerInv, FaultsPay, ReviewTypeOK
<1>2. /\ IsFiniteSet(Apart') /\ Cardinality(Apart') \in Nat
      /\ Cardinality(Apart') <= Cardinality(Apart)
  BY <1>1, FS_Subset, FS_CardinalityType
<1>3. QED
  BY <1>1, <1>2 DEF FaultsPay

(* A repetition uses up the fault of its position.                         *)
LEMMA OneLess ==
    ASSUME WorkerInv, NEW p, p \in Apart, Apart' \subseteq Apart \ {p}, faults' = faults,
           repeats' \in Nat, repeats' <= repeats + 1
    PROVE  FaultsPay'
<1>1. /\ IsFiniteSet(Apart) /\ Cardinality(Apart) \in Nat
      /\ repeats + Cardinality(Apart) <= faults /\ repeats \in Nat /\ faults \in Nat
  BY FS_CardinalityType DEF WorkerInv, FaultsPay, ReviewTypeOK
<1>2. IsFiniteSet(Apart \ {p}) /\ Cardinality(Apart \ {p}) = Cardinality(Apart) - 1
  BY <1>1, FS_RemoveElement
<1>3. /\ IsFiniteSet(Apart') /\ Cardinality(Apart') \in Nat
      /\ Cardinality(Apart') <= Cardinality(Apart \ {p})
  BY <1>2, FS_Subset, FS_CardinalityType
<1>4. QED
  BY <1>1, <1>2, <1>3 DEF FaultsPay

--------------------------------------------------------------------------------
(***************************************************************************)
(* The steps.                                                              *)
(***************************************************************************)

(* Only the thread that holds the lock can be signing.                     *)
LEMMA PendingIs ==
    ASSUME WorkerInv, NEW r \in Refreshers, Refreshing(r)
    PROVE  /\ lock = r /\ \A s \in Refreshers : Refreshing(s) => s = r
           /\ pc[r] # "sign" => Pending = {}
           /\ pc[r] = "sign" => Pending = {review.cur} /\ review.cur \in Positions
BY DEF WorkerInv, LockHeld, Refreshing, Pending, SignsDecided

(* A step after which who signs, and what, is as before.                   *)
LEMMA SameReview ==
    ASSUME WorkerInv, UNCHANGED <<lock, review, lastRisk, decided, repeats>>,
           faults' = faults \/ faults' = faults + 1,
           risk' \in [Positions -> Bands], pc' \in [Refreshers -> Labels],
           \A r \in Refreshers : pc'[r] = pc[r] \/ (pc[r] # "sign" /\ ~Refreshing(r)')
    PROVE  WorkerInv'
<1>1. ReviewTypeOK' /\ LockHeld'
  BY DEF WorkerInv, ReviewTypeOK, LockHeld, Refreshing
<1>2. SignsDecided' /\ Apart' = Apart
  BY DEF WorkerInv, SignsDecided, Refreshing, Apart, Pending
<1>3. FaultsPay'
  <2>1. CASE faults' = faults
    BY <1>2, <2>1 DEF WorkerInv, FaultsPay
  <2>2. CASE faults' = faults + 1
    BY <1>2, <2>2, OneMore
  <2>3. QED
    BY <2>1, <2>2
<1>4. QED
  BY <1>1, <1>2, <1>3 DEF WorkerInv

LEMMA RiskMovesKeeps ==
    ASSUME WorkerInv, NEW p \in Positions, NEW band \in Bands, RiskMoves(p, band)
    PROVE  WorkerInv'
<1>1. /\ risk' = [risk EXCEPT ![p] = band]
      /\ UNCHANGED <<lock, pc, review, lastRisk, decided, repeats, faults>>
  BY DEF RiskMoves, serviceVars
<1>2. risk' \in [Positions -> Bands] /\ pc' \in [Refreshers -> Labels]
  BY <1>1 DEF WorkerInv, ReviewTypeOK
<1>3. QED
  BY <1>1, <1>2, SameReview

LEMMA BeginRefreshKeeps ==
    ASSUME WorkerInv, NEW r \in Refreshers, BeginRefresh(r)
    PROVE  WorkerInv'
<1>1. /\ pc[r] = "idle" /\ pc \in [Refreshers -> Labels]
      /\ UNCHANGED <<risk, review, lastRisk, decided, repeats, faults>>
  BY DEF BeginRefresh, At, RefreshUnchanged, WorkerInv, ReviewTypeOK
<1>2. CASE lock = None
  <2>1. lock' = r /\ pc' = [pc EXCEPT ![r] = "read"]
    BY <1>2 DEF BeginRefresh, Goto
  <2>2. ReviewTypeOK'
    BY <1>1, <2>1 DEF WorkerInv, ReviewTypeOK, Labels
  <2>3. \A s \in Refreshers : ~Refreshing(s)
    BY <1>2, WorkerAssumption DEF WorkerInv, LockHeld, Refreshers
  <2>4. \A s \in Refreshers : s # r => pc'[s] = pc[s]
    BY <1>1, <2>1
  <2>5. pc'[r] = "read"
    BY <1>1, <2>1
  <2>6. LockHeld' /\ SignsDecided'
    BY <2>1, <2>3, <2>4, <2>5 DEF LockHeld, SignsDecided, Refreshing
  <2>7. Pending' = {} /\ Pending = {}
    BY <2>3, <2>4, <2>5 DEF Pending, Refreshing
  <2>8. Apart' = Apart
    BY <1>1, <2>7 DEF Apart
  <2>9. QED
    BY <1>1, <2>2, <2>6, <2>8 DEF WorkerInv, FaultsPay
<1>3. CASE lock # None
  <2>1. lock' = lock /\ pc' = [pc EXCEPT ![r] = IF r = Worker THEN "wallet" ELSE "idle"]
    BY <1>3 DEF BeginRefresh, Return, Goto
  <2>2. pc' \in [Refreshers -> Labels]
    BY <1>1, <2>1 DEF Labels
  <2>3. \A s \in Refreshers : pc'[s] = pc[s] \/ (pc[s] # "sign" /\ ~Refreshing(s)')
    BY <1>1, <2>1 DEF Refreshing
  <2>4. QED
    BY <1>1, <2>1, <2>2, <2>3, SameReview DEF WorkerInv, ReviewTypeOK
<1>4. QED
  BY <1>2, <1>3

(* The refresh ends: nobody is left signing.                               *)
LEMMA ReleaseKeeps ==
    ASSUME WorkerInv, NEW r \in Refreshers, Refreshing(r), pc[r] # "sign", Release(r),
           UNCHANGED <<risk, lastRisk, decided, repeats, faults>>
    PROVE  WorkerInv'
<1>1. /\ \A s \in Refreshers : Refreshing(s) => s = r
      /\ Pending = {} /\ pc \in [Refreshers -> Labels]
  BY PendingIs DEF WorkerInv, ReviewTypeOK
<1>2. /\ lock' = None /\ review' = NoReview
      /\ pc' = [pc EXCEPT ![r] = IF r = Worker THEN "wallet" ELSE "idle"]
  BY DEF Release, Return, Goto
<1>3. NoReview \in [todo : SUBSET Positions, read : [Positions -> Bands],
                    cur : Positions \cup {None}]
  BY WorkerAssumption DEF NoReview
<1>4. ReviewTypeOK'
  BY <1>1, <1>2, <1>3 DEF WorkerInv, ReviewTypeOK, Labels
<1>5. \A s \in Refreshers : ~Refreshing(s)'
  BY <1>1, <1>2 DEF Refreshing
<1>6. LockHeld' /\ SignsDecided' /\ Pending' = {}
  BY <1>5 DEF LockHeld, SignsDecided, Refreshing, Pending
<1>7. Apart' = Apart
  BY <1>1, <1>6 DEF Apart
<1>8. QED
  BY <1>4, <1>6, <1>7 DEF WorkerInv, FaultsPay

(* The thread that refreshes goes on and does not sign after the step.     *)
LEMMA NotSigning ==
    ASSUME WorkerInv, NEW r \in Refreshers, Refreshing(r), lock' = lock,
           pc' \in [Refreshers -> Labels], \A s \in Refreshers \ {r} : pc'[s] = pc[s],
           pc'[r] = "review"
    PROVE  LockHeld' /\ SignsDecided' /\ Pending' = {}
<1>1. \A s \in Refreshers : Refreshing(s) => s = r
  BY PendingIs
<1>2. lock = r
  BY PendingIs
<1>3. \A s \in Refreshers : Refreshing(s)' => s = r
  BY <1>1 DEF Refreshing
<1>4. QED
  BY <1>2, <1>3 DEF LockHeld, SignsDecided, Pending, Refreshing

LEMMA ReadChainsKeeps ==
    ASSUME WorkerInv, NEW r \in Refreshers, ReadChains(r)
    PROVE  WorkerInv'
<1>1. /\ pc[r] = "read" /\ Refreshing(r) /\ pc \in [Refreshers -> Labels]
      /\ UNCHANGED <<risk, lastRisk, decided, repeats, faults>>
  BY DEF ReadChains, At, Refreshing, RefreshUnchanged, WorkerInv, ReviewTypeOK
<1>2. CASE "strategy_reviews" \in policy
  <2>1. /\ review' = [todo |-> Positions, read |-> risk, cur |-> None]
        /\ pc' = [pc EXCEPT ![r] = "review"] /\ lock' = lock
    BY <1>2 DEF ReadChains, Goto
  <2>2. ReviewTypeOK'
    BY <1>1, <2>1 DEF WorkerInv, ReviewTypeOK, Labels
  <2>3. /\ pc' \in [Refreshers -> Labels] /\ \A s \in Refreshers \ {r} : pc'[s] = pc[s]
        /\ pc'[r] = "review"
    BY <1>1, <2>1, <2>2 DEF ReviewTypeOK
  <2>4. LockHeld' /\ SignsDecided' /\ Pending' = {}
    BY <1>1, <2>1, <2>3, NotSigning
  <2>5. Apart' = Apart
    BY <1>1, <2>4, PendingIs DEF Apart
  <2>6. QED
    BY <1>1, <2>2, <2>4, <2>5 DEF WorkerInv, FaultsPay
<1>3. CASE "strategy_reviews" \notin policy
  <2>1. Release(r)
    BY <1>3 DEF ReadChains
  <2>2. QED
    BY <1>1, <2>1, ReleaseKeeps
<1>4. QED
  BY <1>2, <1>3

LEMMA EndRefreshKeeps ==
    ASSUME WorkerInv, NEW r \in Refreshers, EndRefresh(r)
    PROVE  WorkerInv'
<1>1. /\ pc[r] = "review" /\ Refreshing(r) /\ Release(r)
      /\ UNCHANGED <<risk, lastRisk, decided, repeats, faults>>
  BY DEF EndRefresh, At, Refreshing, RefreshUnchanged
<1>2. QED
  BY <1>1, ReleaseKeeps

(* A position is done with, with or without a refused decision.            *)
LEMMA SkipKeeps ==
    ASSUME WorkerInv, NEW r \in Refreshers, NEW p \in Positions, pc[r] = "review",
           review' = [review EXCEPT !.todo = @ \ {p}],
           UNCHANGED <<risk, lock, pc, lastRisk, decided, repeats>>,
           faults' \in Nat, faults' >= faults
    PROVE  WorkerInv'
<1>1. Refreshing(r) /\ pc \in [Refreshers -> Labels]
  BY DEF Refreshing, WorkerInv, ReviewTypeOK
<1>2. ReviewTypeOK'
  BY DEF WorkerInv, ReviewTypeOK
<1>3. LockHeld' /\ SignsDecided' /\ Pending' = {}
  BY <1>1, NotSigning
<1>4. Apart' = Apart
  BY <1>1, <1>3, PendingIs DEF Apart
<1>5. FaultsPay'
  BY <1>4, NoMore
<1>6. QED
  BY <1>2, <1>3, <1>5 DEF WorkerInv

LEMMA SkipPositionKeeps ==
    ASSUME WorkerInv, NEW r \in Refreshers, NEW p \in Positions, SkipPosition(r, p)
    PROVE  WorkerInv'
<1>1. /\ pc[r] = "review" /\ review' = [review EXCEPT !.todo = @ \ {p}]
      /\ UNCHANGED <<risk, lock, pc, lastRisk, decided, repeats, faults>>
  BY DEF SkipPosition, At, RefreshUnchanged
<1>2. faults' \in Nat /\ faults' >= faults
  BY <1>1 DEF WorkerInv, ReviewTypeOK
<1>3. QED
  BY <1>1, <1>2, SkipKeeps

LEMMA RefuseDecisionKeeps ==
    ASSUME WorkerInv, NEW r \in Refreshers, NEW p \in Positions, RefuseDecision(r, p)
    PROVE  WorkerInv'
<1>1. /\ pc[r] = "review" /\ review' = [review EXCEPT !.todo = @ \ {p}]
      /\ UNCHANGED <<risk, lock, pc, lastRisk, decided, repeats>> /\ faults' = faults + 1
  BY DEF RefuseDecision, At, RefreshUnchanged
<1>2. faults' \in Nat /\ faults' >= faults
  BY <1>1 DEF WorkerInv, ReviewTypeOK
<1>3. QED
  BY <1>1, <1>2, SkipKeeps

(* A decision is repeated only where a fault left an older signature.      *)
LEMMA AddDecisionKeeps ==
    ASSUME WorkerInv, NEW r \in Refreshers, NEW p \in Positions, AddDecision(r, p)
    PROVE  WorkerInv'
<1> DEFINE read == review.read
<1>1. /\ pc[r] = "review" /\ Refreshing(r) /\ read[p] # lastRisk[p]
      /\ decided' = [decided EXCEPT ![p] = read[p]]
      /\ repeats' = repeats + (IF decided[p] = read[p] THEN 1 ELSE 0)
      /\ review' = [review EXCEPT !.todo = @ \ {p}, !.cur = p]
      /\ pc' = [pc EXCEPT ![r] = "sign"]
      /\ UNCHANGED <<risk, lock, lastRisk, faults>>
  BY DEF AddDecision, At, Material, Goto, Refreshing, RefreshUnchanged
<1>2. /\ pc \in [Refreshers -> Labels] /\ decided \in [Positions -> Bands]
      /\ review \in [todo : SUBSET Positions, read : [Positions -> Bands],
                     cur : Positions \cup {None}]
      /\ lastRisk \in [Positions -> Bands] /\ repeats \in Nat
  BY DEF WorkerInv, ReviewTypeOK
<1>3. repeats' \in Nat /\ repeats' <= repeats + 1 /\ (decided[p] # read[p] => repeats' = repeats)
  BY <1>1, <1>2
<1>4. /\ review' \in [todo : SUBSET Positions, read : [Positions -> Bands],
                      cur : Positions \cup {None}]
      /\ review'.cur = p /\ review'.read = review.read
  BY <1>1, <1>2
<1>5. ReviewTypeOK'
  BY <1>1, <1>2, <1>3, <1>4 DEF WorkerInv, ReviewTypeOK, Labels
<1>6. /\ lock = r /\ Pending = {} /\ \A s \in Refreshers : Refreshing(s) => s = r
  BY <1>1, PendingIs
<1>7. pc'[r] = "sign" /\ \A s \in Refreshers \ {r} : pc'[s] = pc[s] /\ pc[s] # "sign"
  BY <1>1, <1>2, <1>6 DEF Refreshing
<1>8. LockHeld'
  BY <1>1, <1>6, <1>7 DEF LockHeld, Refreshing
<1>9. SignsDecided'
  BY <1>1, <1>2, <1>4, <1>7 DEF SignsDecided
<1>10. Pending' = {p}
  BY <1>4, <1>7 DEF Pending
<1>11. Apart' = Apart \ {p}
  BY <1>1, <1>2, <1>6, <1>10 DEF Apart
<1>12. FaultsPay'
  <2>1. CASE p \in Apart
    BY <1>1, <1>3, <1>11, <2>1, OneLess
  <2>2. CASE p \notin Apart
    <3>1. decided[p] # read[p]
      BY <1>1, <1>6, <2>2 DEF Apart
    <3>2. faults' \in Nat /\ faults' >= faults
      BY <1>1 DEF WorkerInv, ReviewTypeOK
    <3>3. QED
      BY <1>3, <1>11, <3>1, <3>2, NoMore
  <2>3. QED
    BY <2>1, <2>2
<1>13. QED
  BY <1>5, <1>8, <1>9, <1>12 DEF WorkerInv

LEMMA SetSignatureKeeps ==
    ASSUME WorkerInv, NEW r \in Refreshers, SetSignature(r)
    PROVE  WorkerInv'
<1> DEFINE p == review.cur
<1>1. /\ pc[r] = "sign" /\ Refreshing(r)
      /\ lastRisk' = [lastRisk EXCEPT ![p] = review.read[p]]
      /\ review' = [review EXCEPT !.cur = None] /\ pc' = [pc EXCEPT ![r] = "review"]
      /\ UNCHANGED <<risk, lock, decided, repeats, faults>>
  BY DEF SetSignature, Signed, At, Goto, Refreshing, RefreshUnchanged
<1>2. /\ p \in Positions /\ decided[p] = review.read[p] /\ Pending = {p}
  BY <1>1, PendingIs DEF WorkerInv, SignsDecided
<1>3. ReviewTypeOK'
  BY <1>1, <1>2 DEF WorkerInv, ReviewTypeOK, Labels
<1>4. pc'[r] = "review" /\ \A s \in Refreshers \ {r} : pc'[s] = pc[s]
  BY <1>1 DEF WorkerInv, ReviewTypeOK
<1>5. LockHeld' /\ SignsDecided' /\ Pending' = {}
  BY <1>1, <1>3, <1>4, NotSigning DEF ReviewTypeOK
<1>6. Apart' \subseteq Apart
  BY <1>1, <1>2, <1>5 DEF Apart, WorkerInv, ReviewTypeOK
<1>7. faults' \in Nat /\ faults' >= faults
  BY <1>1 DEF WorkerInv, ReviewTypeOK
<1>8. FaultsPay'
  BY <1>1, <1>6, <1>7, NoMore
<1>9. QED
  BY <1>3, <1>5, <1>8 DEF WorkerInv

LEMMA LoseSignatureKeeps ==
    ASSUME WorkerInv, NEW r \in Refreshers, LoseSignature(r)
    PROVE  WorkerInv'
<1>1. /\ pc[r] = "sign" /\ Refreshing(r) /\ faults' = faults + 1
      /\ review' = [review EXCEPT !.cur = None] /\ pc' = [pc EXCEPT ![r] = "review"]
      /\ UNCHANGED <<risk, lock, lastRisk, decided, repeats>>
  BY DEF LoseSignature, At, Goto, Refreshing, RefreshUnchanged
<1>2. Pending = {review.cur}
  BY <1>1, PendingIs
<1>3. ReviewTypeOK'
  BY <1>1 DEF WorkerInv, ReviewTypeOK, Labels
<1>4. pc'[r] = "review" /\ \A s \in Refreshers \ {r} : pc'[s] = pc[s]
  BY <1>1 DEF WorkerInv, ReviewTypeOK
<1>5. LockHeld' /\ SignsDecided' /\ Pending' = {}
  BY <1>1, <1>3, <1>4, NotSigning DEF ReviewTypeOK
<1>6. Apart' \subseteq Apart \cup {review.cur}
  BY <1>1, <1>2, <1>5 DEF Apart
<1>7. FaultsPay'
  BY <1>1, <1>6, OneMore
<1>8. QED
  BY <1>3, <1>5, <1>7 DEF WorkerInv

LEMMA RefreshFailsKeeps ==
    ASSUME WorkerInv, NEW r \in Refreshers, RefreshFails(r)
    PROVE  WorkerInv'
<1>1. /\ Refreshing(r) /\ faults' = faults + 1 /\ lock' = None /\ review' = NoReview
      /\ UNCHANGED <<risk, lastRisk, decided, repeats>>
  BY DEF RefreshFails, At, Refreshing, RefreshUnchanged
<1>2. \E label \in {"caught", "idle"} : pc' = [pc EXCEPT ![r] = label]
  BY DEF RefreshFails, Caught, Goto
<1>3. \A s \in Refreshers : ~Refreshing(s)' /\ pc'[s] # "sign" /\ pc'[s] \in Labels
  <2> TAKE s \in Refreshers
  <2>1. pc \in [Refreshers -> Labels] /\ (s # r => ~Refreshing(s))
    BY <1>1, WorkerAssumption DEF WorkerInv, LockHeld, ReviewTypeOK
  <2>2. QED
    BY <1>2, <2>1 DEF Refreshing, Labels
<1>4. ReviewTypeOK'
  <2>1. NoReview \in [todo : SUBSET Positions, read : [Positions -> Bands],
                      cur : Positions \cup {None}]
    BY WorkerAssumption DEF NoReview
  <2>2. pc' \in [Refreshers -> Labels]
    BY <1>2, <1>3 DEF WorkerInv, ReviewTypeOK, Labels
  <2>3. QED
    BY <1>1, <2>1, <2>2 DEF WorkerInv, ReviewTypeOK
<1>5. LockHeld' /\ SignsDecided' /\ Pending' = {}
  BY <1>3 DEF LockHeld, SignsDecided, Pending
<1>6. Apart' \subseteq Apart \cup {review.cur}
  BY <1>1, <1>5 DEF Apart, Pending
<1>7. FaultsPay'
  BY <1>1, <1>6, OneMore
<1>8. QED
  BY <1>4, <1>5, <1>7 DEF WorkerInv

LEMMA CrashKeeps ==
    ASSUME WorkerInv, Crash
    PROVE  WorkerInv'
<1>1. /\ faults' = faults + 1 /\ lock' = None /\ review' = NoReview
      /\ pc' = [r \in Refreshers |-> "idle"]
      /\ UNCHANGED <<risk, lastRisk, decided, repeats>>
  BY DEF Crash
<1>2. NoReview \in [todo : SUBSET Positions, read : [Positions -> Bands],
                    cur : Positions \cup {None}]
  BY WorkerAssumption DEF NoReview
<1>3. ReviewTypeOK'
  BY <1>1, <1>2 DEF WorkerInv, ReviewTypeOK, Labels
<1>4. LockHeld' /\ SignsDecided' /\ Pending' = {}
  BY <1>1 DEF LockHeld, SignsDecided, Refreshing, Pending
<1>5. Apart' \subseteq Apart \cup {review.cur}
  BY <1>1, <1>4 DEF Apart, Pending
<1>6. FaultsPay'
  BY <1>1, <1>5, OneMore
<1>7. QED
  BY <1>3, <1>4, <1>6 DEF WorkerInv

(* The rest of the round moves the worker only, which is not refreshing.   *)
LEMMA RoundStepKeeps ==
    ASSUME WorkerInv, RoundStep
    PROVE  WorkerInv'
<1>1. /\ pc[Worker] \in {"wallet", "scout", "market", "health", "caught"}
      /\ UNCHANGED <<risk, lock, review, lastRisk, decided, repeats>>
      /\ faults' = faults \/ faults' = faults + 1
      /\ \E label \in {"idle", "scout", "market", "health", "caught", "dead"} :
            pc' = [pc EXCEPT ![Worker] = label]
  <2>1. CASE RoundFails \/ StoreHealth \/ RefuseHealth
    BY <2>1 DEF RoundFails, StoreHealth, RefuseHealth, At, Goto, Caught, RoundUnchanged
  <2>2. CASE KeepWallet \/ RefreshWallet \/ WalletFails \/ SkipScout \/ ScoutSwitchedOff
             \/ TakeTurn \/ AskMarket
    BY <2>2 DEF KeepWallet, RefreshWallet, WalletFails, SkipScout, ScoutSwitchedOff, TakeTurn,
                AskMarket, At, Goto, EndRound, Caught, RoundUnchanged
  <2>3. QED
    BY <2>1, <2>2 DEF RoundStep
<1>2. pc \in [Refreshers -> Labels] /\ Worker \in Refreshers
  BY DEF WorkerInv, ReviewTypeOK, Refreshers
<1>3. pc' \in [Refreshers -> Labels]
  BY <1>1, <1>2 DEF Labels
<1>4. \A r \in Refreshers : pc'[r] = pc[r] \/ (pc[r] # "sign" /\ ~Refreshing(r)')
  BY <1>1, <1>2 DEF Refreshing
<1>5. QED
  BY <1>1, <1>3, <1>4, SameReview DEF WorkerInv, ReviewTypeOK

LEMMA WorkerIsInductive == WorkerInv /\ [Next]_vars => WorkerInv'
<1> SUFFICES ASSUME WorkerInv, [Next]_vars PROVE WorkerInv'
  OBVIOUS
<1>1. ASSUME UNCHANGED <<risk, serviceVars, faults>> PROVE WorkerInv'
  BY <1>1, SameReview DEF serviceVars, WorkerInv, ReviewTypeOK
<1>2. CASE (\E thing \in Things : TimePasses(thing)) \/ (\E switch \in Switches : Toggle(switch))
           \/ UNCHANGED vars
  BY <1>1, <1>2 DEF TimePasses, Toggle, vars
<1>3. ASSUME NEW p \in Positions, NEW band \in Bands, RiskMoves(p, band) PROVE WorkerInv'
  BY <1>3, RiskMovesKeeps
<1>4. ASSUME NEW r \in Refreshers, BeginRefresh(r) \/ RefreshStep(r) PROVE WorkerInv'
  <2>1. ASSUME NEW p \in Positions, SkipPosition(r, p) \/ AddDecision(r, p) \/ RefuseDecision(r, p)
        PROVE  WorkerInv'
    BY <2>1, SkipPositionKeeps, AddDecisionKeeps, RefuseDecisionKeeps
  <2>2. QED
    BY <1>4, <2>1, BeginRefreshKeeps, ReadChainsKeeps, SetSignatureKeeps, LoseSignatureKeeps,
       EndRefreshKeeps, RefreshFailsKeeps DEF RefreshStep
<1>5. QED
  BY <1>2, <1>3, <1>4, CrashKeeps, RoundStepKeeps DEF Next

(* One change of risk is one decision: whatever threads refresh, however   *)
(* risks move and switches are thrown, a decision with the signature of    *)
(* the one before it takes a fault of its own                              *)
(* (_record_position_risk_decisions).                                      *)
THEOREM RepeatsAreFaults == Spec => []RepeatsNeedFaults
BY InitWorker, WorkerIsInductive, PayIs, PTL DEF Spec
================================================================================
