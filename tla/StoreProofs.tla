-------------------------------- MODULE StoreProofs -------------------------------
(***************************************************************************)
(* Rows that several threads read and write back whole: labels and what    *)
(* the operator wrote (OperatorRows), and the samples of the performance   *)
(* log (PerformanceLog), for any number of NFTs, threads and days.         *)
(***************************************************************************)
EXTENDS OperatorRows, PerformanceLog, FiniteSetTheorems, TLAPS

(***************************************************************************)
(* Extrema of finite sets.  A smallest non-empty subset without one would  *)
(* have one when an element is taken away.                                 *)
(***************************************************************************)
LEMMA MaxExists ==
    ASSUME NEW S \in SUBSET Int, IsFiniteSet(S), S # {}
    PROVE  Max(S) \in S /\ \A y \in S : Max(S) >= y
<1> DEFINE HasMax(U) == \E x \in U : \A y \in U : x >= y
           Bad == {U \in SUBSET S : U # {} /\ ~HasMax(U)}
<1>1. Bad = {}
  <2> SUFFICES ASSUME Bad # {} PROVE FALSE
    OBVIOUS
  <2>1. IsWellFoundedOn(StrictSubsetOrdering(S), FiniteSubsetsOf(S))
    BY FS_StrictSubsetOrderingWellFounded
  <2>2. Bad \subseteq FiniteSubsetsOf(S)
    BY FS_FiniteSubsetsOfFinite
  <2>3. PICK U \in Bad : \A V \in Bad : <<V, U>> \notin StrictSubsetOrdering(S)
    <3> HIDE DEF Bad
    <3>1. QED
      BY <2>1, <2>2, WFMin
  <2>4. PICK x \in U : TRUE
    OBVIOUS
  <2>5. U \ {x} \notin Bad
    BY <2>3, <2>4 DEF StrictSubsetOrdering
  <2>6. CASE U \ {x} = {}
    BY <2>6 DEF HasMax
  <2>7. CASE U \ {x} # {}
    <3>1. PICK z \in U \ {x} : \A y \in U \ {x} : z >= y
      BY <2>5, <2>7
    <3>2. x \in Int /\ z \in Int /\ U \subseteq Int
      BY <3>1
    <3>3. HasMax(U)
      <4>1. CASE z >= x
        BY <3>1, <3>2, <4>1
      <4>2. CASE x >= z
        <5>1. \A y \in U : x >= y
          BY <3>1, <3>2, <4>2
        <5>2. QED
          BY <5>1
      <4>3. QED
        BY <3>2, <4>1, <4>2
    <3>4. QED
      BY <3>3
  <2>8. QED
    BY <2>6, <2>7
<1>2. HasMax(S)
  BY <1>1
<1>3. QED
  BY <1>2 DEF Max

LEMMA ImageFinite ==
    ASSUME NEW S, NEW T, NEW f \in [S -> T], IsFiniteSet(S)
    PROVE  IsFiniteSet({f[x] : x \in S})
<1>1. f \in Surjection(S, {f[x] : x \in S})
  BY DEF Surjection
<1>2. QED
  BY <1>1, FS_Surjection

LEMMA MinExists ==
    ASSUME NEW S \in SUBSET Int, IsFiniteSet(S), S # {}
    PROVE  Min(S) \in S /\ \A y \in S : Min(S) <= y
<1> DEFINE f == [x \in S |-> -x]
           T == {f[x] : x \in S}
<1>1. f \in [S -> Int]
  OBVIOUS
<1>2. IsFiniteSet(T) /\ T \in SUBSET Int /\ T # {}
  <2>1. IsFiniteSet(T)
    <3> HIDE DEF f
    <3>1. QED
      BY <1>1, ImageFinite
  <2>2. f[CHOOSE x \in S : TRUE] \in T
    OBVIOUS
  <2>3. T \in SUBSET Int
    BY <1>1
  <2>4. QED
    BY <2>1, <2>2, <2>3
<1>3. Max(T) \in T /\ \A y \in T : Max(T) >= y
  <2> HIDE DEF T
  <2>1. QED
    BY <1>2, MaxExists
<1>4. PICK x \in S : Max(T) = -x
  BY <1>3
<1>5. x \in Int /\ \A y \in S : x <= y
  <2>1. \A y \in S : f[y] \in T /\ f[y] = -y
    OBVIOUS
  <2>2. \A y \in S : -x >= -y
    BY <1>3, <1>4, <2>1
  <2>3. QED
    BY <2>2
<1>6. QED
  BY <1>5 DEF Min

(***************************************************************************)
(* OperatorRows: types, without a bound on the numbers given.              *)
(***************************************************************************)
Names == Nat \cup {Own}
WideRow == [known : BOOLEAN, name : Names, thesis : BOOLEAN,
            sleeve : {"auto", "own"}, campaign : {"none", "linked", "own"}]
WideScan == [pc : {"idle", "label", "put", "upsert"}, nft : Nfts \cup {None}, copy : WideRow,
             name : Names, mapping : [Nfts -> Nat]]

HasLocals(r) ==
    (r.pc # "idle" => r.nft \in Nfts) /\ (r.pc = "put" => r.name \in Nat)
RowsTyped ==
    /\ row \in [Nfts -> WideRow] /\ labels \in [Nfts -> Nat]
    /\ scan \in [Scanners -> WideScan]
    /\ \A s \in Scanners : HasLocals(scan[s])
    /\ edits \in Nat /\ raced \in BOOLEAN /\ stale \in BOOLEAN

LEMMA IdleTyped ==
    /\ NoRow \in WideRow /\ NoLabels \in [Nfts -> Nat]
    /\ Idle \in WideScan /\ Idle.pc = "idle" /\ Idle.mapping = NoLabels
<1>1. NoName \in Names /\ 0 \in Nat
  BY DEF Names, NoName
<1>2. NoRow \in WideRow
  BY <1>1 DEF NoRow, WideRow
<1>3. NoLabels \in [Nfts -> Nat]
  BY DEF NoLabels
<1>4. QED
  BY <1>1, <1>2, <1>3 DEF Idle, WideScan

LEMMA RowsInit == Init => RowsTyped
<1>1. NoRow \in WideRow /\ NoLabels \in [Nfts -> Nat]
  BY IdleTyped
<1>2. Idle \in WideScan /\ Idle.pc = "idle"
  BY IdleTyped
<1>3. Init => raced \in BOOLEAN /\ stale \in BOOLEAN
  BY Zenon DEF Init
<1>4. QED
  BY <1>1, <1>2, <1>3 DEF Init, RowsTyped, HasLocals

(* A number given is past every number in use and every reserved one.      *)
LEMMA NextNumberIsNew ==
    ASSUME NEW n \in Nfts, NEW mapping \in [Nfts -> Nat]
    PROVE  /\ NextNumber(n, mapping) \in Nat \ {0}
           /\ \A m \in Nfts : mapping[m] < NextNumber(n, mapping)
           /\ n \in Main => \A m \in Fixed : FixedNo[m] < NextNumber(n, mapping)
<1> DEFINE used == {mapping[m] : m \in Nfts}
           reserved == {FixedNo[m] : m \in Fixed}
           taken == used \cup IF n \in Main THEN reserved ELSE {}
<1>1. IsFiniteSet(used)
  BY TableAssumption, ImageFinite
<1>2. IsFiniteSet(reserved)
  <2>1. IsFiniteSet(Fixed)
    <3>1. Fixed \in SUBSET Nfts
      BY FixedAssumption
    <3>2. QED
      BY <3>1, TableAssumption, FS_Subset
  <2>2. FixedNo \in [Fixed -> Nat]
    BY FixedAssumption
  <2>3. QED
    BY <2>1, <2>2, ImageFinite
<1>3. IsFiniteSet(taken)
  <2>1. IsFiniteSet(used \cup reserved) /\ IsFiniteSet(used \cup {})
    BY <1>1, <1>2, FS_Union, FS_EmptySet
  <2>2. QED
    BY <2>1
<1>4. taken \in SUBSET Nat /\ mapping[n] \in taken
  <2>1. used \in SUBSET Nat /\ mapping[n] \in used
    OBVIOUS
  <2>2. reserved \in SUBSET Nat
    BY FixedAssumption
  <2>3. QED
    BY <2>1, <2>2
<1>5. NextNumber(n, mapping) = Max(taken) + 1
  BY DEF NextNumber
<1>6. /\ \A m \in Nfts : mapping[m] \in taken
      /\ n \in Main => \A m \in Fixed : FixedNo[m] \in taken
  OBVIOUS
<1> HIDE DEF taken
<1>7. Max(taken) \in taken /\ \A y \in taken : Max(taken) >= y
  <2>1. taken \in SUBSET Int /\ taken # {}
    BY <1>4
  <2>2. QED
    BY <1>3, <2>1, MaxExists
<1>8. Max(taken) \in Nat /\ \A y \in taken : y \in Nat /\ y < Max(taken) + 1
  <2>1. Max(taken) \in Nat /\ \A y \in taken : y \in Nat
    BY <1>4, <1>7
  <2>2. QED
    BY <1>7, <2>1
<1>9. QED
  BY <1>5, <1>6, <1>8

LEMMA LabelOfTyped ==
    ASSUME NEW n \in Nfts, NEW mapping \in [Nfts -> Nat]
    PROVE  LabelOf(n, mapping) \in Nat \ {0}
BY FixedAssumption, NextNumberIsNew DEF LabelOf

LEMMA RowsStep == RowsTyped /\ [Next]_vars => RowsTyped'
<1> SUFFICES ASSUME RowsTyped, [Next]_vars PROVE RowsTyped'
  OBVIOUS
<1>1. ASSUME NEW n \in Nfts, NEW new \in WideRow, Edit(n, new) PROVE RowsTyped'
  BY <1>1 DEF Edit, RowsTyped
<1>2. ASSUME NEW n \in Nfts, Rename(n) \/ SetStrategy(n) \/ SetCampaign(n) \/ LinkCampaign(n)
      PROVE  RowsTyped'
  <2>1. row[n] \in WideRow
    BY DEF RowsTyped
  <2>2. CASE Rename(n)
    <3>1. [row[n] EXCEPT !.name = Own] \in WideRow
      BY <2>1 DEF WideRow, Names
    <3>2. QED
      BY <1>1, <2>2, <3>1 DEF Rename
  <2>3. CASE SetStrategy(n)
    <3>1. PICK thesis \in BOOLEAN :
              Edit(n, [row[n] EXCEPT !.sleeve = "own", !.thesis = @ \/ thesis])
      BY <2>3 DEF SetStrategy
    <3>2. (row[n].thesis \/ thesis) \in BOOLEAN
      BY Zenon
    <3>3. [row[n] EXCEPT !.sleeve = "own", !.thesis = @ \/ thesis] \in WideRow
      BY <2>1, <3>2 DEF WideRow
    <3>4. QED
      BY <1>1, <3>1, <3>3
  <2>4. CASE SetCampaign(n)
    <3>1. [row[n] EXCEPT !.campaign = "own"] \in WideRow
      BY <2>1 DEF WideRow
    <3>2. QED
      BY <1>1, <2>4, <3>1 DEF SetCampaign
  <2>5. CASE LinkCampaign(n)
    <3>1. [row[n] EXCEPT !.campaign = "linked"] \in WideRow
      BY <2>1 DEF WideRow
    <3>2. QED
      BY <2>5, <3>1 DEF LinkCampaign, RowsTyped
  <2>6. QED
    BY <1>2, <2>2, <2>3, <2>4, <2>5
<1>3. ASSUME NEW s \in Scanners, ScanNext(s) PROVE RowsTyped'
  <2>1. /\ scan[s] \in WideScan /\ scan[s].mapping \in [Nfts -> Nat] /\ scan[s].name \in Names
        /\ scan[s].copy \in WideRow /\ HasLocals(scan[s])
    BY DEF RowsTyped, WideScan
  <2>2. ASSUME NEW new \in WideScan, scan' = [scan EXCEPT ![s] = new],
               HasLocals(new)
        PROVE  /\ scan' \in [Scanners -> WideScan]
               /\ \A r \in Scanners : HasLocals(scan'[r])
    BY <2>2 DEF RowsTyped
  <2> USE DEF HasLocals
  <2>3. CASE \E n \in Nfts : ReadRow(s, n)
    <3> PICK n \in Nfts : ReadRow(s, n)
      BY <2>3
    <3> DEFINE new == [scan[s] EXCEPT !.pc = IF Renamed(n, row[n].name) THEN "label" ELSE "upsert",
                                      !.nft = n, !.copy = row[n], !.name = row[n].name]
    <3>1. row[n] \in WideRow /\ row[n].name \in Names
      BY DEF RowsTyped, WideRow
    <3>2. new \in WideScan /\ HasLocals(new)
      BY <2>1, <3>1 DEF WideScan
    <3>3. scan' = [scan EXCEPT ![s] = new]
      BY DEF ReadRow
    <3> HIDE DEF new
    <3>4. QED
      BY <2>2, <3>2, <3>3 DEF ReadRow, RowsTyped
  <2>4. CASE ReadLabels(s)
    <3> DEFINE name == LabelOf(scan[s].nft, labels)
               new == [scan[s] EXCEPT !.pc = IF labels[scan[s].nft] = name THEN "upsert" ELSE "put",
                                      !.name = name, !.mapping = labels]
    <3>1. labels \in [Nfts -> Nat] /\ scan' = [scan EXCEPT ![s] = new] /\ scan[s].nft \in Nfts
      BY <2>1, <2>4 DEF ReadLabels, RowsTyped
    <3>2. name \in Nat /\ name \in Names
      BY <3>1, LabelOfTyped DEF Names
    <3>3. new \in WideScan /\ HasLocals(new)
      <4> HIDE DEF name
      <4>1. QED
        BY <2>1, <3>1, <3>2 DEF WideScan
    <3> HIDE DEF new
    <3>4. QED
      BY <2>2, <2>4, <3>1, <3>3 DEF ReadLabels, RowsTyped
  <2>5. CASE PutLabels(s)
    <3> DEFINE new == [scan[s] EXCEPT !.pc = "upsert", !.mapping = NoLabels]
    <3>1. /\ scan[s].nft \in Nfts /\ scan' = [scan EXCEPT ![s] = new]
          /\ labels' = [scan[s].mapping EXCEPT ![scan[s].nft] = scan[s].name]
      BY <2>1, <2>5 DEF PutLabels, RowsTyped
    <3>2. new \in WideScan /\ HasLocals(new)
      BY <2>1, <3>1, IdleTyped DEF WideScan
    <3>3. labels' \in [Nfts -> Nat]
      BY <2>1, <2>5, <3>1 DEF PutLabels
    <3>4. raced' \in BOOLEAN
      BY <2>5, Zenon DEF PutLabels
    <3> HIDE DEF new
    <3>5. QED
      BY <2>2, <2>5, <3>1, <3>2, <3>3, <3>4 DEF PutLabels, RowsTyped
  <2>6. CASE Upsert(s)
    <3>1. Written(scan[s].copy, scan[s].name) \in WideRow
      BY <2>1 DEF Written, WideRow
    <3>2. row' \in [Nfts -> WideRow]
      BY <2>6, <3>1 DEF Upsert, RowsTyped
    <3>3. stale' \in BOOLEAN
      BY <2>6, Zenon DEF Upsert
    <3>4. scan' = [scan EXCEPT ![s] = Idle]
      BY <2>6 DEF Upsert
    <3>5. QED
      BY <2>2, <2>6, <3>2, <3>3, <3>4, IdleTyped DEF Upsert, RowsTyped
  <2>7. CASE Abandon(s)
    BY <2>2, <2>7, IdleTyped DEF Abandon, RowsTyped
  <2>8. QED
    BY <1>3, <2>3, <2>4, <2>5, <2>6, <2>7 DEF ScanNext
<1>4. CASE UNCHANGED vars
  BY <1>4 DEF vars, RowsTyped, HasLocals
<1>5. QED
  BY <1>2, <1>3, <1>4 DEF Next

(***************************************************************************)
(* OperatorRows: the labels.  Every mapping that is stored or about to be  *)
(* stored is orderly, raced or not; as long as none was written over       *)
(* another, mappings only grow, and rows show what they say.               *)
(***************************************************************************)
Orderly(mapping) ==
    /\ \A n \in Fixed : mapping[n] \in {0, FixedNo[n]}
    /\ \A n \in Main \ Fixed : mapping[n] > 0 => \A m \in Fixed : FixedNo[m] # mapping[n]
    /\ \A m, n \in Main : m # n /\ mapping[n] > 0 => mapping[m] # mapping[n]
Shows(n, name) == name > 0 => labels[n] = name
ScanShows(s) ==
    /\ scan[s].pc = "put" =>
          /\ Orderly(scan[s].mapping) /\ scan[s].mapping[scan[s].nft] # scan[s].name
          /\ scan[s].name = LabelOf(scan[s].nft, scan[s].mapping)
    /\ scan[s].pc = "upsert" => scan[s].name # 0 /\ (~raced => Shows(scan[s].nft, scan[s].name))
    /\ scan[s].pc # "idle" /\ scan[s].copy.name = Own /\ scan[s].nft \notin Fixed =>
          scan[s].pc = "upsert" /\ scan[s].name = Own

LabelInv ==
    /\ Orderly(labels)
    /\ \A s \in Scanners : ScanShows(s)
    /\ ~raced => \A n \in Nfts : Shows(n, row[n].name)

LEMMA LabelInit == Init => LabelInv
BY FixedAssumption DEF Init, LabelInv, Orderly, ScanShows, Shows, NoLabels, NoRow, NoName, Idle

(* A number is given to an NFT that had none, and stays apart.             *)
LEMMA GivenIsOrderly ==
    ASSUME NEW n \in Nfts, NEW mapping \in [Nfts -> Nat], Orderly(mapping),
           mapping[n] # LabelOf(n, mapping)
    PROVE  /\ mapping[n] = 0
           /\ Orderly([mapping EXCEPT ![n] = LabelOf(n, mapping)])
<1> DEFINE name == LabelOf(n, mapping)
           given == [mapping EXCEPT ![n] = name]
<1>1. mapping[n] = 0
  BY DEF LabelOf, Orderly
<1>2. name \in Nat \ {0} /\ \A m \in Nfts : given[m] = IF m = n THEN name ELSE mapping[m]
  BY LabelOfTyped
<1>3. CASE n \in Fixed
  <2>1. name = FixedNo[n] /\ n \in Main
    BY <1>3, FixedAssumption DEF LabelOf
  <2>2. \A m \in Main : m # n => mapping[m] # name
    BY <1>2, <1>3, <2>1, FixedAssumption DEF Orderly
  <2> HIDE DEF given, name
  <2>3. Orderly(given)
    BY <1>2, <1>3, <2>1, <2>2, FixedAssumption DEF Orderly
  <2>4. QED
    BY <1>1, <2>3 DEF given, name
<1>4. CASE n \notin Fixed
  <2>1. name = NextNumber(n, mapping)
    BY <1>1, <1>4 DEF LabelOf
  <2>2. /\ \A m \in Nfts : mapping[m] < name
        /\ n \in Main => \A m \in Fixed : FixedNo[m] < name
    BY <2>1, NextNumberIsNew
  <2>3. /\ \A m \in Nfts : mapping[m] # name
        /\ n \in Main => \A m \in Fixed : FixedNo[m] # name
    BY <1>2, <2>2, FixedAssumption
  <2> HIDE DEF given, name
  <2>4. Orderly(given)
    BY <1>2, <1>4, <2>3, FixedAssumption DEF Orderly
  <2>5. QED
    BY <1>1, <2>4 DEF given, name
<1>5. QED
  BY <1>3, <1>4

(* A scan step that leaves rows and labels alone.                          *)
LEMMA LabelScanFrame ==
    ASSUME RowsTyped, LabelInv, NEW s \in Scanners, UNCHANGED <<row, labels, raced>>,
           \A r \in Scanners : r # s => scan'[r] = scan[r], ScanShows(s)'
    PROVE  LabelInv'
<1>1. \A r \in Scanners : r # s => ScanShows(r)'
  BY DEF LabelInv, ScanShows, Shows
<1>2. QED
  BY <1>1 DEF LabelInv, Shows

LEMMA LabelScanStep ==
    ASSUME RowsTyped, LabelInv, NEW s \in Scanners, ScanNext(s)
    PROVE  LabelInv'
<1>1. /\ scan[s] \in WideScan /\ HasLocals(scan[s]) /\ labels \in [Nfts -> Nat]
      /\ scan[s].mapping \in [Nfts -> Nat] /\ ScanShows(s)
  BY DEF RowsTyped, WideScan, LabelInv
<1>2. \A new : scan' = [scan EXCEPT ![s] = new] =>
                 scan'[s] = new /\ \A r \in Scanners : r # s => scan'[r] = scan[r]
  BY DEF RowsTyped
<1>3. ASSUME NEW n \in Nfts, ReadRow(s, n) PROVE LabelInv'
  <2> DEFINE new == [scan[s] EXCEPT !.pc = IF Renamed(n, row[n].name) THEN "label" ELSE "upsert",
                                    !.nft = n, !.copy = row[n], !.name = row[n].name]
  <2>1. scan' = [scan EXCEPT ![s] = new] /\ UNCHANGED <<row, labels, raced>>
    BY <1>3 DEF ReadRow
  <2>2. /\ new.pc = IF Renamed(n, row[n].name) THEN "label" ELSE "upsert"
        /\ new.nft = n /\ new.copy = row[n] /\ new.name = row[n].name
    BY <1>1 DEF WideScan
  <2>3. row[n].name \in Names
    BY DEF RowsTyped, WideRow
  <2> HIDE DEF new
  <2>4. scan'[s] = new /\ \A r \in Scanners : r # s => scan'[r] = scan[r]
    BY <1>2, <2>1
  <2>5. ScanShows(s)'
    BY <2>1, <2>2, <2>3, <2>4 DEF ScanShows, Shows, Renamed, Own, Names
  <2>6. QED
    BY <2>1, <2>4, <2>5, LabelScanFrame
<1>4. CASE ReadLabels(s)
  <2> DEFINE name == LabelOf(scan[s].nft, labels)
             new == [scan[s] EXCEPT !.pc = IF labels[scan[s].nft] = name THEN "upsert" ELSE "put",
                                    !.name = name, !.mapping = labels]
  <2>1. /\ scan' = [scan EXCEPT ![s] = new] /\ UNCHANGED <<row, labels, raced>>
        /\ scan[s].pc = "label"
    BY <1>4 DEF ReadLabels
  <2>2. /\ new.pc = IF labels[scan[s].nft] = name THEN "upsert" ELSE "put"
        /\ new.nft = scan[s].nft /\ new.copy = scan[s].copy /\ new.name = name
        /\ new.mapping = labels
    BY <1>1 DEF WideScan
  <2> HIDE DEF new
  <2>3. scan'[s] = new /\ \A r \in Scanners : r # s => scan'[r] = scan[r]
    BY <1>2, <2>1
  <2>4. ScanShows(s)'
    <3>1. Orderly(labels) /\ (scan[s].copy.name = Own => scan[s].nft \in Fixed)
      BY <1>1, <2>1 DEF LabelInv, ScanShows
    <3>2. name = LabelOf(scan[s].nft, labels) /\ name # 0
      BY <1>1, <2>1, LabelOfTyped DEF HasLocals
    <3> HIDE DEF name
    <3>3. scan'[s].pc = "put" => labels[scan[s].nft] # name
      BY <2>2, <2>3
    <3>4. scan'[s].pc = "upsert" => labels[scan[s].nft] = name
      BY <2>2, <2>3
    <3>5. /\ scan'[s].nft = scan[s].nft /\ scan'[s].copy = scan[s].copy /\ scan'[s].name = name
          /\ scan'[s].mapping = labels /\ labels' = labels
      BY <2>1, <2>2, <2>3
    <3>6. QED
      BY <3>1, <3>2, <3>3, <3>4, <3>5 DEF ScanShows, Shows
  <2>5. QED
    BY <2>1, <2>3, <2>4, LabelScanFrame
<1>5. CASE PutLabels(s)
  <2> DEFINE n == scan[s].nft
             mapping == scan[s].mapping
             name == scan[s].name
             new == [scan[s] EXCEPT !.pc = "upsert", !.mapping = NoLabels]
  <2>1. /\ labels' = [mapping EXCEPT ![n] = name] /\ UNCHANGED row
        /\ scan' = [scan EXCEPT ![s] = new]
        /\ n \in Nfts /\ Orderly(mapping) /\ name = LabelOf(n, mapping) /\ mapping[n] # name
    BY <1>1, <1>5 DEF PutLabels, RowsTyped, ScanShows, HasLocals
  <2>2. ~raced' => ~raced /\ labels = mapping
    BY <1>5, Zenon DEF PutLabels
  <2>3. new.pc = "upsert" /\ new.nft = n /\ new.name = name /\ new.copy = scan[s].copy
    BY <1>1 DEF WideScan
  <2>4. scan'[s] = new /\ \A r \in Scanners : r # s => scan'[r] = scan[r]
    <3> HIDE DEF new
    <3>1. QED
      BY <1>2, <2>1
  <2>5. mapping[n] = 0 /\ Orderly(labels')
    BY <1>1, <2>1, GivenIsOrderly
  <2>6. \A m \in Nfts : labels'[m] = IF m = n THEN name ELSE mapping[m]
    BY <1>1, <2>1
  <2> HIDE DEF new, n, mapping, name
  <2>7. ASSUME ~raced', NEW m \in Nfts, NEW shown \in Names, Shows(m, shown)
        PROVE  Shows(m, shown)'
    BY <2>2, <2>5, <2>6, <2>7 DEF Shows
  <2>8. Orderly(labels)'
    BY <2>5 DEF Orderly
  <2>9. ScanShows(s)'
    <3>1. scan[s].copy.name = Own => n \in Fixed
      BY <1>1, <1>5 DEF ScanShows, PutLabels, n
    <3>2. labels'[n] = name /\ name # 0
      BY <1>1, <2>1, <2>6, LabelOfTyped DEF mapping
    <3>3. scan'[s].pc = "upsert" /\ scan'[s].nft = n /\ scan'[s].name = name
          /\ scan'[s].copy.name = scan[s].copy.name
      BY <2>3, <2>4
    <3>4. QED
      BY <3>1, <3>2, <3>3 DEF ScanShows, Shows
  <2>10. \A r \in Scanners : r # s => ScanShows(r)'
    <3> SUFFICES ASSUME NEW r \in Scanners, r # s PROVE ScanShows(r)'
      OBVIOUS
    <3>1. scan'[r] = scan[r] /\ ScanShows(r) /\ scan[r].name \in Names
          /\ (scan[r].pc # "idle" => scan[r].nft \in Nfts)
      BY <2>4 DEF LabelInv, RowsTyped, WideScan, HasLocals
    <3>2. scan[r].pc = "upsert" /\ ~raced' => Shows(scan[r].nft, scan[r].name)'
      BY <2>2, <2>7, <3>1 DEF ScanShows, Shows
    <3>3. QED
      BY <3>1, <3>2 DEF ScanShows, LabelOf, NextNumber, Orderly, Shows
  <2>11. ~raced' => \A m \in Nfts : Shows(m, row[m].name)'
    <3> SUFFICES ASSUME ~raced', NEW m \in Nfts PROVE Shows(m, row[m].name)'
      OBVIOUS
    <3>1. row[m].name \in Names /\ Shows(m, row[m].name)
      BY <2>2 DEF LabelInv, RowsTyped, WideRow
    <3>2. QED
      BY <2>1, <2>7, <3>1 DEF Shows
  <2>12. QED
    BY <2>8, <2>9, <2>10, <2>11 DEF LabelInv
<1>6. CASE Upsert(s)
  <2> DEFINE n == scan[s].nft
  <2>1. /\ row' = [row EXCEPT ![n] = Written(scan[s].copy, scan[s].name)]
        /\ scan' = [scan EXCEPT ![s] = Idle] /\ UNCHANGED <<labels, raced>> /\ n \in Nfts
        /\ scan[s].pc = "upsert"
    BY <1>1, <1>6 DEF Upsert, HasLocals
  <2>2. scan'[s] = Idle /\ \A r \in Scanners : r # s => scan'[r] = scan[r]
    BY <1>2, <2>1
  <2>3. row'[n].name = scan[s].name /\ \A m \in Nfts : m # n => row'[m] = row[m]
    BY <2>1 DEF Written, RowsTyped
  <2>4. ~raced' => \A m \in Nfts : Shows(m, row[m].name)'
    BY <1>1, <2>1, <2>3 DEF LabelInv, Shows, ScanShows
  <2>5. \A r \in Scanners : ScanShows(r)'
    BY <2>1, <2>2, IdleTyped DEF LabelInv, Shows, ScanShows
  <2>6. QED
    BY <2>1, <2>4, <2>5 DEF LabelInv
<1>7. CASE Abandon(s)
  <2>1. scan' = [scan EXCEPT ![s] = Idle] /\ UNCHANGED <<row, labels, raced>>
    BY <1>7 DEF Abandon
  <2>2. scan'[s] = Idle /\ \A r \in Scanners : r # s => scan'[r] = scan[r]
    BY <1>2, <2>1
  <2>3. ScanShows(s)'
    BY <2>2, IdleTyped DEF ScanShows
  <2>4. QED
    BY <2>1, <2>2, <2>3, LabelScanFrame
<1>8. QED
  BY <1>3, <1>4, <1>5, <1>6, <1>7 DEF ScanNext

(* The operator and the registry give no number.                           *)
OperatorNext(n) == Rename(n) \/ SetStrategy(n) \/ SetCampaign(n) \/ LinkCampaign(n)

LEMMA OperatorStep ==
    ASSUME RowsTyped, NEW n \in Nfts, OperatorNext(n)
    PROVE  /\ UNCHANGED <<labels, scan, raced, stale>>
           /\ \A m \in Nfts : m # n => row'[m] = row[m]
           /\ row'[n].name \in {row[n].name, Own}
           /\ edits' = edits + 1 \/
                 (/\ edits' = edits
                  /\ row'[n] = [row[n] EXCEPT !.campaign = "linked"])
<1>1. row \in [Nfts -> WideRow] /\ row[n] \in WideRow
  BY DEF RowsTyped
<1>2. CASE Rename(n)
  BY <1>1, <1>2 DEF Rename, Edit, WideRow
<1>3. CASE SetStrategy(n)
  BY <1>1, <1>3 DEF SetStrategy, Edit, WideRow
<1>4. CASE SetCampaign(n)
  BY <1>1, <1>4 DEF SetCampaign, Edit, WideRow
<1>5. CASE LinkCampaign(n)
  BY <1>1, <1>5 DEF LinkCampaign, WideRow
<1>6. QED
  BY <1>2, <1>3, <1>4, <1>5 DEF OperatorNext

LEMMA LabelStep == RowsTyped /\ LabelInv /\ [Next]_vars => LabelInv'
<1> SUFFICES ASSUME RowsTyped, LabelInv, [Next]_vars PROVE LabelInv'
  OBVIOUS
<1>1. ASSUME NEW n \in Nfts, OperatorNext(n) PROVE LabelInv'
  <2>1. UNCHANGED <<labels, scan, raced>>
    BY <1>1, OperatorStep
  <2>2. ASSUME ~raced, NEW m \in Nfts PROVE Shows(m, row[m].name)'
    <3>1. row'[m].name \in {row[m].name, Own}
      BY <1>1, OperatorStep
    <3>2. QED
      BY <2>1, <2>2, <3>1 DEF LabelInv, Shows, Own
  <2>3. QED
    BY <2>1, <2>2 DEF LabelInv, ScanShows, Shows
<1>2. ASSUME NEW s \in Scanners, ScanNext(s) PROVE LabelInv'
  BY <1>2, LabelScanStep
<1>3. CASE UNCHANGED vars
  BY <1>3 DEF vars, LabelInv, ScanShows, Shows
<1>4. QED
  BY <1>1, <1>2, <1>3 DEF Next, OperatorNext

LEMMA InvKeepsDistinct == RowsTyped /\ LabelInv => LabelsAreDistinct
<1> SUFFICES ASSUME RowsTyped, LabelInv, ~raced,
                    NEW m \in Main, NEW n \in Main, m # n, row[n].name > 0
             PROVE  /\ row[m].name # row[n].name
                    /\ m \in Fixed => FixedNo[m] # row[n].name
  BY DEF LabelsAreDistinct
<1>1. m \in Nfts /\ n \in Nfts /\ Fixed \subseteq Main
  BY FixedAssumption
<1>2. labels[n] = row[n].name /\ Shows(m, row[m].name) /\ Orderly(labels)
  BY <1>1 DEF LabelInv, Shows
<1>3. row[m].name # row[n].name
  BY <1>1, <1>2 DEF Shows, Orderly
<1>4. ASSUME m \in Fixed PROVE FixedNo[m] # row[n].name
  <2>1. CASE n \in Fixed
    BY <1>2, <1>4, <2>1, FixedAssumption DEF Orderly
  <2>2. CASE n \notin Fixed
    BY <1>2, <1>4, <2>2 DEF Orderly
  <2>3. QED
    BY <2>1, <2>2
<1>5. QED
  BY <1>3, <1>4

LEMMA InvKeepsStable ==
    ASSUME RowsTyped, LabelInv, [Next]_vars, NEW n \in Nfts, ~raced, row[n].name > 0
    PROVE  row'[n].name \in {row[n].name, Own}
<1>1. labels[n] = row[n].name /\ row[n].name \in Names
  BY DEF LabelInv, Shows, RowsTyped, WideRow
<1>2. ASSUME NEW m \in Nfts, OperatorNext(m) PROVE row'[n].name \in {row[n].name, Own}
  BY <1>2, OperatorStep
<1>3. ASSUME NEW s \in Scanners, Upsert(s) PROVE row'[n].name \in {row[n].name, Own}
  <2>1. CASE scan[s].nft # n
    BY <1>3, <2>1 DEF Upsert, RowsTyped
  <2>2. CASE scan[s].nft = n
    <3>1. row'[n].name = scan[s].name
      BY <1>3, <2>2 DEF Upsert, Written, RowsTyped
    <3>2. Shows(n, scan[s].name)
      BY <1>3, <2>2 DEF Upsert, LabelInv, ScanShows
    <3>3. scan[s].name \in Nat \cup {Own}
      BY DEF RowsTyped, WideScan, Names
    <3>4. scan[s].pc = "upsert"
      BY <1>3 DEF Upsert
    <3>5. scan[s].name # 0
      BY <3>4 DEF LabelInv, ScanShows
    <3>6. QED
      BY <1>1, <3>1, <3>2, <3>3, <3>5 DEF Shows
  <2>3. QED
    BY <2>1, <2>2
<1>4. CASE UNCHANGED row
  BY <1>4
<1>5. QED
  BY <1>2, <1>3, <1>4 DEF Next, OperatorNext, ScanNext, ReadRow, ReadLabels, PutLabels, Abandon, vars

(* What one step may do to what the operator wrote, seen at one row.       *)
Survives(old, new, fixed) ==
    /\ old.thesis => new.thesis
    /\ old.name = Own => new.name = Own \/ fixed
    /\ old.campaign # "none" => new.campaign # "none"
    /\ old.sleeve = "own" /\ (old.thesis \/ old.campaign # "none") => new.sleeve = "own"

LEMMA InvKeepsEdits ==
    ASSUME RowsTyped, LabelInv, [Next]_vars, ~stale', edits' = edits, NEW n \in Nfts
    PROVE  Survives(row[n], row'[n], n \in Fixed)
<1>1. row[n] \in WideRow /\ edits \in Nat
  BY DEF RowsTyped
<1>2. CASE row'[n] = row[n]
  BY <1>2 DEF Survives
<1>3. ASSUME NEW m \in Nfts, OperatorNext(m) PROVE Survives(row[n], row'[n], n \in Fixed)
  <2>1. edits' # edits + 1
    BY <1>1
  <2>2. CASE m = n
    <3>1. row'[n] = [row[n] EXCEPT !.campaign = "linked"]
      BY <1>3, <2>1, <2>2, OperatorStep
    <3>2. QED
      BY <1>1, <3>1 DEF Survives, WideRow
  <2>3. CASE m # n
    BY <1>2, <1>3, <2>3, OperatorStep
  <2>4. QED
    BY <2>2, <2>3
<1>4. ASSUME NEW s \in Scanners, Upsert(s) PROVE Survives(row[n], row'[n], n \in Fixed)
  <2>1. CASE scan[s].nft # n
    BY <1>2, <1>4, <2>1 DEF Upsert, RowsTyped
  <2>2. CASE scan[s].nft = n
    <3>1. row[n] = scan[s].copy
      BY <1>4, <2>2, Zenon DEF Upsert
    <3>2. row'[n] = Written(scan[s].copy, scan[s].name)
      BY <1>4, <2>2 DEF Upsert, RowsTyped
    <3>3. row[n].name = Own => n \in Fixed \/ scan[s].name = Own
      BY <1>4, <2>2, <3>1 DEF Upsert, LabelInv, ScanShows
    <3>4. QED
      BY <3>1, <3>2, <3>3 DEF Survives, Written, Manual
  <2>3. QED
    BY <2>1, <2>2
<1>5. QED
  BY <1>2, <1>3, <1>4 DEF Next, OperatorNext, ScanNext, ReadRow, ReadLabels, PutLabels, Abandon, vars

LEMMA RowsInvariance == Spec => [](RowsTyped /\ LabelInv)
<1>1. Init => RowsTyped /\ LabelInv
  BY RowsInit, LabelInit
<1>2. RowsTyped /\ LabelInv /\ [Next]_vars => (RowsTyped /\ LabelInv)'
  BY RowsStep, LabelStep
<1>3. QED
  BY <1>1, <1>2, PTL DEF Spec

(* No two NFTs of the main chain show the same number, nor a reserved one, *)
(* unless two scans wrote the label mapping over each other                *)
(* (_live_display_name).                                                   *)
THEOREM NumbersApart == Spec => []LabelsAreDistinct
BY RowsInvariance, InvKeepsDistinct, PTL

(* On the same condition a number once shown stays until the operator      *)
(* chooses a name (_live_display_name).                                    *)
THEOREM NumbersStay == Spec => LabelsAreStable
<1>1. RowsTyped /\ LabelInv /\ [Next]_vars =>
        [\A n \in Nfts :
            ~raced /\ row[n].name > 0 => row'[n].name \in {row[n].name, Own}]_<<row, raced>>
  BY InvKeepsStable
<1>2. QED
  BY <1>1, RowsInvariance, PTL DEF Spec, LabelsAreStable

(* No scan takes back what the operator wrote, unless a row was written    *)
(* over one that had changed since it was read (reconcile_scan).           *)
THEOREM EditsStay == Spec => EditsSurvive
<1>1. RowsTyped /\ LabelInv /\ [Next]_vars =>
        [~stale' /\ edits' = edits => \A n \in Nfts :
            /\ row[n].thesis => row'[n].thesis
            /\ row[n].name = Own => row'[n].name = Own \/ n \in Fixed
            /\ row[n].campaign # "none" => row'[n].campaign # "none"
            /\ row[n].sleeve = "own" /\ (row[n].thesis \/ row[n].campaign # "none")
                   => row'[n].sleeve = "own"]_<<row, stale>>
  BY InvKeepsEdits DEF Survives
<1>2. QED
  BY <1>1, RowsInvariance, PTL DEF Spec, EditsSurvive

(***************************************************************************)
(* PerformanceLog: typing.  A row that was found is still there when it is *)
(* updated.                                                                *)
(***************************************************************************)
WritesRow(h) ==
    /\ cap[h].pc = "dayWrite" /\ cap[h].old > 0 => Has(days, DayKey(h))
    /\ cap[h].pc = "hourWrite" /\ cap[h].old > 0 => Has(hours, HourKey(h))
LogTyped == LogTypeOK /\ \A h \in Requests : WritesRow(h)

LEMMA NoCaptureTyped ==
    /\ NoCapture \in Capture /\ NoCapture.pc = "idle"
    /\ NoCapture.snap = NoSnapshot /\ NoCapture.at = 0 /\ ~NoSnapshot.exact
    /\ NoSnapshot \in Snapshot /\ 0 \in Times
BY TicksAssumption DEF NoCapture, Capture, Times, Worth, Snapshot, Empty, NoSnapshot

LEMMA DaysOfTimes == \A t \in Times : DayOf(t) \in Days
BY DEF Days

LEMMA LogTypeInit == LogInit => LogTyped
<1> SUFFICES ASSUME LogInit PROVE LogTyped
  OBVIOUS
<1>1. now \in Times /\ begun \in 0..MaxCaptures
  BY TicksAssumption, BoundsAssumption DEF LogInit, Times
<1>2. chain \in Worth /\ store \in Worth
  BY DEF LogInit, Worth
<1>3. history \in [gain : Int, flow : Int, moves : 0..MaxMoves]
  BY BoundsAssumption DEF LogInit
<1>4. cap \in [Requests -> Capture] /\ \A h \in Requests : cap[h].pc = "idle"
  BY NoCaptureTyped DEF LogInit
<1>5. QED
  BY <1>1, <1>2, <1>3, <1>4 DEF LogInit, LogTyped, LogTypeOK, WritesRow

LEMMA RowIsSomething == \A r \in SampleRow : r # NoSample
<1> SUFFICES ASSUME NEW r \in SampleRow PROVE r # NoSample
  OBVIOUS
<1>1. "opening" \in DOMAIN r
  BY DEF SampleRow
<1>2. "opening" \notin DOMAIN NoSample
  BY DEF NoSample
<1>3. QED
  BY <1>1, <1>2

(* A row written is a row, with the opening it had.                        *)
LEMMA UpsertedRow ==
    ASSUME NEW Keys, NEW table \in [Keys -> SampleRow \cup {NoSample}], NEW key \in Keys,
           NEW snap \in Snapshot, NEW old \in Nat, old > 0 => Has(table, key),
           ~Conflict(table, key, old)
    PROVE  LET written == Sampled(table, key, snap, old) IN
           /\ written \in [Keys -> SampleRow \cup {NoSample}]
           /\ \A k \in Keys : k # key => written[k] = table[k]
           /\ Has(written, key) /\ written[key].closing = snap
           /\ written[key].samples = old + 1
           /\ Has(table, key) => written[key].opening = table[key].opening
           /\ ~Has(table, key) => written[key].opening = snap
<1> DEFINE written == Sampled(table, key, snap, old)
<1>1. CASE old > 0
  <2> DEFINE new == [table[key] EXCEPT !.closing = snap, !.samples = old + 1]
  <2>1. table[key] \in SampleRow /\ Has(table, key)
    BY <1>1 DEF Has
  <2>2. /\ new \in SampleRow /\ new.closing = snap /\ new.samples = old + 1
        /\ new.opening = table[key].opening
    <3>1. old + 1 \in Nat \ {0}
      OBVIOUS
    <3>2. \A r \in SampleRow, n \in Nat \ {0} :
             LET updated == [r EXCEPT !.closing = snap, !.samples = n] IN
             /\ updated \in SampleRow /\ updated.closing = snap /\ updated.samples = n
             /\ updated.opening = r.opening
      BY DEF SampleRow
    <3>3. QED
      BY <2>1, <3>1, <3>2
  <2>3. new # NoSample
    BY <2>2, RowIsSomething
  <2>4. written = [table EXCEPT ![key] = new]
    BY <1>1 DEF Sampled
  <2> HIDE DEF new
  <2>5. QED
    BY <2>1, <2>2, <2>3, <2>4 DEF Has
<1>2. CASE old = 0
  <2> DEFINE new == [opening |-> snap, closing |-> snap, samples |-> 1]
  <2>1. ~Has(table, key)
    BY <1>2 DEF Conflict
  <2>2. /\ new \in SampleRow /\ new.closing = snap /\ new.samples = old + 1
        /\ new.opening = snap
    BY <1>2 DEF SampleRow
  <2>3. new # NoSample
    BY DEF NoSample
  <2>4. written = [table EXCEPT ![key] = new]
    BY <1>2 DEF Sampled
  <2> HIDE DEF new
  <2>5. QED
    BY <2>1, <2>2, <2>3, <2>4 DEF Has
<1>3. QED
  BY <1>1, <1>2

(* What is outside the captures leaves rows and captures alone.            *)
OutsideNext ==
    \/ Tick \/ EarnFees \/ PriceMoves \/ Collect \/ Invest \/ CashMoves
    \/ RefreshPositions \/ RefreshWallet \/ ReviewFlow

LEMMA MovesTyped ==
    ASSUME LogTypeOK, NEW worth, NEW gain \in Int, NEW flow \in Int, Moves(worth, gain, flow)
    PROVE  /\ chain' \in Worth /\ history' \in [gain : Int, flow : Int, moves : 0..MaxMoves]
           /\ owed' \in [Days -> Int]
           /\ history'.gain = history.gain + gain /\ history'.flow = history.flow + flow
<1>1. worth \in Worth
  <2>1. worth \in [liquid : Nat, lp : Nat, unclaimed : Nat]
    BY DEF Moves
  <2>2. QED
    BY <2>1 DEF Worth
<1>2. history.moves + 1 \in 0..MaxMoves /\ history.gain \in Int /\ history.flow \in Int
  BY BoundsAssumption DEF Moves, LogTypeOK
<1>3. owed' \in [Days -> Int]
  BY DaysOfTimes DEF Moves, LogTypeOK
<1>4. QED
  BY <1>1, <1>2, <1>3 DEF Moves

LEMMA BookTyped ==
    ASSUME LogTypeOK, NEW d \in Days, NEW day \in Days, BookFlow(d, day)
    PROVE  owed' \in [Days -> Int] /\ recorded' \in [Days -> Int]
BY DEF BookFlow, OneUnit, LogTypeOK

LEMMA OutsideTyped == LogTyped /\ OutsideNext => LogTyped' /\ UNCHANGED <<days, hours, cap>>
<1> SUFFICES ASSUME LogTyped, OutsideNext PROVE LogTyped' /\ UNCHANGED <<days, hours, cap>>
  OBVIOUS
<1>1. LogTypeOK
  BY DEF LogTyped
<1>2. ASSUME UNCHANGED <<days, hours, cap>>, LogTypeOK' PROVE LogTyped'
  BY <1>2 DEF LogTyped, WritesRow, DayKey, HourKey
<1>3. CASE Tick
  BY <1>1, <1>2, <1>3, TicksAssumption DEF Tick, LogUnchanged, LogTypeOK, Times
<1>4. ASSUME NEW worth, NEW gain \in Int, NEW flow \in Int, Moves(worth, gain, flow)
      PROVE  LogTyped' /\ UNCHANGED <<days, hours, cap>>
  <2>1. LogTypeOK'
    BY <1>1, <1>4, MovesTyped DEF Moves, LogUnchanged, LogTypeOK
  <2>2. QED
    BY <1>2, <1>4, <2>1 DEF Moves, LogUnchanged
<1>5. CASE EarnFees \/ PriceMoves \/ Collect \/ Invest \/ CashMoves
  BY <1>4, <1>5 DEF EarnFees, PriceMoves, Collect, Invest, CashMoves
<1>6. CASE RefreshPositions \/ RefreshWallet
  <2>1. store' \in Worth
    BY <1>1, <1>6 DEF RefreshPositions, RefreshWallet, LogTypeOK, Worth
  <2>2. UNCHANGED <<outside, recorded, days, hours, cap, begun>>
    BY <1>6 DEF RefreshPositions, RefreshWallet
  <2>3. QED
    BY <1>1, <1>2, <2>1, <2>2 DEF outside, LogTypeOK
<1>7. CASE ReviewFlow
  <2>1. PICK d \in Days : BookFlow(d, d) /\ UNCHANGED <<cap, begun>>
    BY <1>7 DEF ReviewFlow
  <2>2. owed' \in [Days -> Int] /\ recorded' \in [Days -> Int]
    BY <1>1, <2>1, BookTyped
  <2>3. QED
    BY <1>1, <1>2, <2>1, <2>2 DEF BookFlow, LogTypeOK
<1>8. QED
  BY <1>3, <1>5, <1>6, <1>7 DEF OutsideNext

(* What the mark that a capture was not alone leaves of it.                *)
Marked(old, new) ==
    /\ new.pc = old.pc /\ new.at = old.at /\ new.snap = old.snap /\ new.old = old.old

(* A capture that begins marks those under way.                            *)
LEMMA StartsTyped ==
    ASSUME LogTyped, NEW h \in Requests, Starts(h)
    PROVE  /\ cap' \in [Requests -> Capture] /\ begun' \in 0..MaxCaptures
           /\ cap'[h].pc = "truth" /\ cap'[h].at = now /\ cap'[h].snap = NoSnapshot
           /\ cap'[h].alone => \A g \in Requests \ {h} : cap[g].pc = "idle"
           /\ \A g \in Requests : g # h =>
                 /\ Marked(cap[g], cap'[g])
                 /\ cap'[g].pc # "idle" => ~cap'[g].alone
<1> DEFINE others == {g \in Requests \ {h} : cap[g].pc # "idle"}
           new == [NoCapture EXCEPT !.pc = "truth", !.at = now, !.seen.liquid = store.liquid,
                                    !.alone = others = {}]
           other(g) == [cap[g] EXCEPT !.alone = @ /\ cap[g].pc = "idle"]
<1>1. /\ cap \in [Requests -> Capture] /\ now \in Times /\ store.liquid \in Int
      /\ begun \in 0..MaxCaptures
  BY DEF LogTyped, LogTypeOK, Worth
<1>2. cap' = [g \in Requests |-> IF g = h THEN new ELSE other(g)]
  BY DEF Starts
<1>3. (others = {}) \in BOOLEAN
  OBVIOUS
<1>4. /\ new \in Capture /\ new.pc = "truth" /\ new.at = now /\ new.snap = NoSnapshot
      /\ new.alone <=> (others = {})
  <2> HIDE DEF others
  <2>1. QED
    BY <1>1, <1>3, NoCaptureTyped DEF NoCapture, Capture, Worth, Empty
<1>5. ASSUME NEW g \in Requests
      PROVE  /\ other(g) \in Capture /\ Marked(cap[g], other(g))
             /\ other(g).pc # "idle" => ~other(g).alone
  <2>1. (cap[g].alone /\ cap[g].pc = "idle") \in BOOLEAN
    BY Zenon
  <2>2. \A r \in Capture, v \in BOOLEAN :
           LET marked == [r EXCEPT !.alone = v] IN
           marked \in Capture /\ marked.alone = v /\ Marked(r, marked)
    BY DEF Capture, Marked
  <2>3. /\ other(g) \in Capture /\ other(g).alone = (cap[g].alone /\ cap[g].pc = "idle")
        /\ Marked(cap[g], other(g))
    BY <1>1, <2>1, <2>2
  <2>4. other(g).pc = cap[g].pc
    BY <2>3 DEF Marked
  <2>5. other(g).pc # "idle" => ~other(g).alone
    BY <2>3, <2>4, Zenon
  <2>6. QED
    BY <2>3, <2>5
<1>6. begun' \in 0..MaxCaptures
  <2>1. begun < MaxCaptures /\ begun' = begun + 1
    BY Zenon DEF Starts
  <2>2. QED
    BY <1>1, <2>1, BoundsAssumption
<1>7. ASSUME others = {}, NEW g \in Requests \ {h} PROVE cap[g].pc = "idle"
  <2>1. g \notin others
    BY <1>7
  <2>2. QED
    BY <2>1
<1> HIDE DEF new, other, others
<1>8. cap' \in [Requests -> Capture]
  BY <1>2, <1>4, <1>5
<1>9. cap'[h] = new /\ \A g \in Requests : g # h => cap'[g] = other(g)
  BY <1>2
<1>10. QED
  BY <1>4, <1>5, <1>6, <1>7, <1>8, <1>9

Recorded(old, new) == \A k \in DOMAIN old : Has(old, k) => Has(new, k)

(* A step of one capture that is under way.                                *)
LEMMA OneTyped ==
    ASSUME LogTyped, NEW h \in Requests, NEW new \in Capture,
           cap' = [cap EXCEPT ![h] = new], StepUnchanged,
           days' \in [Days -> SampleRow \cup {NoSample}], Recorded(days, days'),
           hours' \in [Times -> SampleRow \cup {NoSample}], Recorded(hours, hours'),
           new.pc = "dayWrite" /\ new.old > 0 => Has(days', DayOf(new.at)),
           new.pc = "hourWrite" /\ new.old > 0 => Has(hours', new.at)
    PROVE  LogTyped'
<1>1. LogTypeOK'
  BY DEF LogTyped, LogTypeOK, StepUnchanged, DataUnchanged
<1>2. ASSUME NEW g \in Requests PROVE WritesRow(g)'
  <2>1. CASE g = h
    <3>1. cap'[g] = new
      BY <2>1 DEF LogTyped, LogTypeOK
    <3>2. QED
      BY <3>1 DEF WritesRow, DayKey, HourKey
  <2>2. CASE g # h
    <3>1. cap'[g] = cap[g] /\ WritesRow(g)
      BY <2>2 DEF LogTyped, LogTypeOK
    <3>2. cap[g].at \in Times /\ DayOf(cap[g].at) \in Days
      BY DaysOfTimes DEF LogTyped, LogTypeOK, Capture
    <3>3. Has(days, DayOf(cap[g].at)) => Has(days', DayOf(cap[g].at))
      BY <3>2 DEF Recorded, LogTyped, LogTypeOK
    <3>4. Has(hours, cap[g].at) => Has(hours', cap[g].at)
      BY <3>2 DEF Recorded, LogTyped, LogTypeOK
    <3>5. QED
      BY <3>1, <3>3, <3>4 DEF WritesRow, DayKey, HourKey
  <2>3. QED
    BY <2>1, <2>2
<1>3. QED
  BY <1>1, <1>2 DEF LogTyped

(* The invariant of the profits.  The chain balances against its history,  *)
(* so an exact snapshot says what was gained and paid by its moment; and a *)
(* capture that has been alone knows the row it will write, and is later   *)
(* than every sample of it.                                                *)
Balanced == Total(chain) = 3 + history.gain + history.flow
Sound(snap) == snap.exact => snap.wealth = 3 + snap.gain + snap.flow
RowSound(kept) == Sound(kept.opening) /\ Sound(kept.closing) /\ kept.closing.at <= now
KnowsRow(c, table) ==
    /\ c.pc = "dayWrite" => c.old = table[DayOf(c.at)].samples
    /\ \A d \in Days : Has(table, d) => table[d].closing.at <= c.at
CaptureSound(c) ==
    /\ Sound(c.snap) /\ c.at <= now
    /\ c.pc \in {"day", "dayWrite"} => c.snap.at = c.at
AloneKnows(h) ==
    cap[h].pc # "idle" /\ cap[h].alone =>
        (\A g \in Requests \ {h} : cap[g].pc = "idle") /\ KnowsRow(cap[h], days)
LogInv ==
    /\ Balanced
    /\ \A h \in Requests : CaptureSound(cap[h]) /\ AloneKnows(h)
    /\ \A d \in Days : Has(days, d) => RowSound(days[d])

LEMMA LogInvInit == LogInit => LogInv
<1> SUFFICES ASSUME LogInit PROVE LogInv
  OBVIOUS
<1>1. Balanced
  BY DEF LogInit, Balanced, Total
<1>2. ASSUME NEW h \in Requests PROVE CaptureSound(cap[h]) /\ AloneKnows(h)
  <2>1. cap[h] = NoCapture /\ now = 0
    BY DEF LogInit
  <2>2. QED
    BY <2>1, NoCaptureTyped DEF CaptureSound, AloneKnows, Sound
<1>3. \A d \in Days : ~Has(days, d)
  BY DEF LogInit, Has
<1>4. QED
  BY <1>1, <1>2, <1>3 DEF LogInv

LEMMA OutsideKeepsInv == LogTyped /\ LogInv /\ OutsideNext => LogInv'
<1> SUFFICES ASSUME LogTyped, LogInv, OutsideNext PROVE LogInv'
  OBVIOUS
<1>1. UNCHANGED <<days, hours, cap>> /\ LogTyped'
  BY OutsideTyped
<1>2. /\ now \in Nat /\ now' \in Nat /\ chain \in Worth /\ history.gain \in Int
      /\ history.flow \in Int
  BY <1>1 DEF LogTyped, LogTypeOK, Times
<1>3. now <= now'
  BY <1>2 DEF OutsideNext, Tick, EarnFees, PriceMoves, Collect, Invest, CashMoves, Moves,
              RefreshPositions, RefreshWallet, outside, ReviewFlow, BookFlow
<1>4. Balanced'
  <2>1. CASE UNCHANGED <<chain, history>>
    BY <2>1 DEF LogInv, Balanced, Total
  <2>2. ASSUME NEW worth, NEW gain \in Int, NEW flow \in Int, Moves(worth, gain, flow),
               Total(worth) = Total(chain) + gain + flow
        PROVE  Balanced'
    <3>1. /\ chain' = worth /\ history'.gain = history.gain + gain
          /\ history'.flow = history.flow + flow
      BY <2>2, MovesTyped DEF LogTyped, Moves
    <3>2. Total(chain) \in Int
      BY <1>2 DEF Worth, Total
    <3>3. QED
      BY <1>2, <2>2, <3>1, <3>2 DEF LogInv, Balanced, Total
  <2>3. CASE EarnFees
    <3>1. Moves([chain EXCEPT !.unclaimed = @ + 1], 1, 0)
      BY <2>3 DEF EarnFees
    <3>2. Total([chain EXCEPT !.unclaimed = @ + 1]) = Total(chain) + 1 + 0
      BY <1>2 DEF Total, Worth
    <3>3. QED
      BY <2>2, <3>1, <3>2
  <2>4. CASE PriceMoves
    <3>1. PICK g \in {-1, 1} : Moves([chain EXCEPT !.lp = @ + g], g, 0)
      BY <2>4 DEF PriceMoves
    <3>2. Total([chain EXCEPT !.lp = @ + g]) = Total(chain) + g + 0
      BY <1>2 DEF Total, Worth
    <3>3. QED
      BY <2>2, <3>1, <3>2
  <2>5. CASE Collect
    <3>1. Moves([chain EXCEPT !.liquid = @ + chain.unclaimed, !.unclaimed = 0], 0, 0)
      BY <2>5 DEF Collect
    <3>2. Total([chain EXCEPT !.liquid = @ + chain.unclaimed, !.unclaimed = 0])
             = Total(chain) + 0 + 0
      BY <1>2 DEF Total, Worth
    <3>3. QED
      BY 0 \in Int, <2>2, <3>1, <3>2, Zenon
  <2>6. CASE Invest
    <3>1. PICK a \in {-1, 1} : Moves([chain EXCEPT !.liquid = @ - a, !.lp = @ + a], 0, 0)
      BY <2>6 DEF Invest
    <3>2. Total([chain EXCEPT !.liquid = @ - a, !.lp = @ + a]) = Total(chain) + 0 + 0
      BY <1>2 DEF Total, Worth
    <3>3. QED
      BY 0 \in Int, <2>2, <3>1, <3>2, Zenon
  <2>7. CASE CashMoves
    <3>1. PICK f \in {-1, 1} : Moves([chain EXCEPT !.liquid = @ + f], 0, f)
      BY <2>7 DEF CashMoves
    <3>2. Total([chain EXCEPT !.liquid = @ + f]) = Total(chain) + 0 + f
      BY <1>2 DEF Total, Worth
    <3>3. QED
      BY <2>2, <3>1, <3>2
  <2>8. QED
    BY <2>1, <2>3, <2>4, <2>5, <2>6, <2>7
       DEF OutsideNext, Tick, RefreshPositions, RefreshWallet, outside, ReviewFlow, BookFlow
<1>5. ASSUME NEW h \in Requests PROVE (CaptureSound(cap[h]) /\ AloneKnows(h))'
  <2>1. cap[h] \in Capture
    BY DEF LogTyped, LogTypeOK
  <2>2. CaptureSound(cap[h]) /\ AloneKnows(h)
    BY DEF LogInv
  <2>3. cap[h].at <= now'
    BY <1>2, <1>3, <2>1, <2>2 DEF CaptureSound, Capture, Times
  <2>4. QED
    BY <1>1, <2>2, <2>3 DEF CaptureSound, AloneKnows, KnowsRow, Has, Sound
<1>6. ASSUME NEW d \in Days, Has(days, d)' PROVE RowSound(days[d])'
  <2>1. Has(days, d) /\ days[d] \in SampleRow /\ RowSound(days[d])
    BY <1>1, <1>6 DEF Has, LogTyped, LogTypeOK, LogInv
  <2>2. days[d].closing.at \in Int
    BY <2>1 DEF SampleRow, Snapshot, Times
  <2>3. QED
    BY <1>1, <1>2, <1>3, <2>1, <2>2 DEF RowSound, Sound
<1>7. QED
  BY <1>4, <1>5, <1>6 DEF LogInv

(* A step of a capture under way keeps the invariant: another that is      *)
(* under way was not alone, and what this one writes only it has to know.  *)
LEMMA OneKeepsInv ==
    ASSUME LogTyped, LogInv, NEW h \in Requests, NEW new \in Capture,
           cap' = [cap EXCEPT ![h] = new], StepUnchanged, cap[h].pc # "idle",
           CaptureSound(new),
           new.pc # "idle" /\ new.alone => cap[h].alone /\ KnowsRow(new, days'),
           \A d \in Days : Has(days', d) => RowSound(days'[d])
    PROVE  LogInv'
<1>1. Balanced'
  BY DEF LogInv, Balanced, Total, StepUnchanged, DataUnchanged
<1>2. now' = now
  BY DEF StepUnchanged, DataUnchanged
<1>3. cap'[h] = new /\ \A g \in Requests : g # h => cap'[g] = cap[g]
  BY DEF LogTyped, LogTypeOK
<1>4. ASSUME NEW g \in Requests PROVE (CaptureSound(cap[g]) /\ AloneKnows(g))'
  <2>1. CASE g = h
    <3>1. CaptureSound(cap[g])'
      BY <1>2, <1>3, <2>1 DEF CaptureSound, Sound
    <3>2. AloneKnows(g)'
      <4>1. SUFFICES ASSUME new.pc # "idle", new.alone
                     PROVE  (\A k \in Requests \ {h} : cap[k].pc = "idle") /\ KnowsRow(new, days')
        BY <1>3, <2>1 DEF AloneKnows, KnowsRow
      <4>2. cap[h].alone /\ KnowsRow(new, days')
        BY <4>1, Zenon
      <4>3. \A k \in Requests \ {h} : cap[k].pc = "idle"
        BY <4>2 DEF LogInv, AloneKnows
      <4>4. QED
        BY <4>2, <4>3
    <3>3. QED
      BY <3>1, <3>2
  <2>2. CASE g # h
    <3>1. CaptureSound(cap[g]) /\ AloneKnows(g) /\ cap'[g] = cap[g]
      BY <1>3, <2>2 DEF LogInv
    <3>2. ~(cap[g].pc # "idle" /\ cap[g].alone)
      BY <2>2, <3>1 DEF AloneKnows
    <3>3. QED
      BY <1>2, <3>1, <3>2 DEF CaptureSound, AloneKnows, Sound
  <2>3. QED
    BY <2>1, <2>2
<1>5. ASSUME NEW d \in Days, Has(days, d)' PROVE RowSound(days[d])'
  BY <1>2, <1>5 DEF RowSound, Sound, Has
<1>6. QED
  BY <1>1, <1>4, <1>5 DEF LogInv

LEMMA StartKeepsInv ==
    ASSUME LogTyped, LogInv, NEW h \in Requests, Starts(h),
           UNCHANGED <<now, chain, history, days, hours>>
    PROVE  LogInv' /\ \A g \in Requests : WritesRow(g)'
<1>1. /\ cap'[h].pc = "truth" /\ cap'[h].at = now /\ cap'[h].snap = NoSnapshot
      /\ cap'[h].alone => \A g \in Requests \ {h} : cap[g].pc = "idle"
      /\ \A g \in Requests : g # h =>
             Marked(cap[g], cap'[g]) /\ (cap'[g].pc # "idle" => ~cap'[g].alone)
  BY StartsTyped
<1>2. Balanced'
  BY DEF LogInv, Balanced, Total
<1>3. ASSUME NEW d \in Days, Has(days, d) PROVE RowSound(days[d])' /\ days[d].closing.at <= now
  BY <1>3 DEF LogInv, RowSound, Sound
<1>4. (CaptureSound(cap[h]) /\ AloneKnows(h))'
  <2>1. now \in Int
    BY DEF LogTyped, LogTypeOK, Times
  <2>2. CaptureSound(cap[h])'
    BY <1>1, <2>1, NoCaptureTyped DEF CaptureSound, Sound
  <2>3. KnowsRow(cap[h], days)'
    BY <1>1, <1>3 DEF KnowsRow, Has
  <2>4. cap'[h].alone => \A g \in Requests \ {h} : cap'[g].pc = "idle"
    BY <1>1 DEF Marked
  <2>5. QED
    BY <2>2, <2>3, <2>4 DEF AloneKnows
<1>5. ASSUME NEW g \in Requests, g # h PROVE (CaptureSound(cap[g]) /\ AloneKnows(g))'
  <2>1. CaptureSound(cap[g])
    BY DEF LogInv
  <2>2. Marked(cap[g], cap'[g]) /\ (cap'[g].pc # "idle" => ~cap'[g].alone)
    BY <1>1, <1>5
  <2>3. QED
    BY <2>1, <2>2 DEF CaptureSound, AloneKnows, Marked, Sound
<1>6. ASSUME NEW g \in Requests PROVE WritesRow(g)'
  <2>1. WritesRow(g)
    BY DEF LogTyped
  <2>2. CASE g = h
    BY <1>1, <2>2 DEF WritesRow
  <2>3. CASE g # h
    BY <1>1, <2>1, <2>3 DEF WritesRow, Marked, DayKey, HourKey, Has
  <2>4. QED
    BY <2>2, <2>3
<1>7. QED
  BY <1>2, <1>3, <1>4, <1>5, <1>6 DEF LogInv, Has

LEMMA BeginKeepsInv ==
    ASSUME LogTyped, LogInv, NEW h \in Requests, BeginCapture(h) \/ PostCashFlow(h)
    PROVE  LogTyped' /\ LogInv' /\ UNCHANGED <<days, hours>>
<1>1. Starts(h) /\ UNCHANGED <<now, chain, history, store, days, hours>>
  BY DEF BeginCapture, PostCashFlow, DataUnchanged, BookFlow
<1>2. LogInv' /\ \A g \in Requests : WritesRow(g)'
  BY <1>1, StartKeepsInv
<1>3. cap' \in [Requests -> Capture] /\ begun' \in 0..MaxCaptures
  BY <1>1, StartsTyped
<1>4. owed' \in [Days -> Int] /\ recorded' \in [Days -> Int]
  <2>1. CASE BeginCapture(h)
    BY <2>1 DEF BeginCapture, DataUnchanged, LogTyped, LogTypeOK
  <2>2. CASE PostCashFlow(h)
    <3>1. LogTypeOK /\ DayOf(now) \in Days
      BY DaysOfTimes DEF LogTyped, LogTypeOK
    <3>2. QED
      BY <2>2, <3>1, BookTyped DEF PostCashFlow
  <2>3. QED
    BY <2>1, <2>2
<1>5. LogTypeOK'
  BY <1>1, <1>3, <1>4 DEF LogTyped, LogTypeOK
<1>6. QED
  BY <1>1, <1>2, <1>5 DEF LogTyped

(* What a read of a capture puts in place of it.                           *)
LEMMA ReadTyped ==
    ASSUME LogTyped, LogInv, NEW h \in Requests, NEW new \in Capture,
           cap' = [cap EXCEPT ![h] = new], StepUnchanged, UNCHANGED <<days, hours>>,
           cap[h].pc # "idle", new.at = cap[h].at, new.alone => cap[h].alone,
           Sound(new.snap),
           new.pc \in {"day", "dayWrite"} => new.snap.at = new.at,
           new.pc = "dayWrite" => new.old = days[DayOf(new.at)].samples,
           new.pc = "hourWrite" => new.old = hours[new.at].samples
    PROVE  LogTyped' /\ LogInv'
<1>1. new.at \in Times /\ DayOf(new.at) \in Days
  BY DaysOfTimes DEF Capture
<1>2. NoSample.samples = 0
  BY DEF NoSample
<1>3. LogTyped'
  <2>1. new.pc = "dayWrite" /\ new.old > 0 => Has(days, DayOf(new.at))
    BY <1>2 DEF Has
  <2>2. new.pc = "hourWrite" /\ new.old > 0 => Has(hours, new.at)
    BY <1>2 DEF Has
  <2>3. /\ days' \in [Days -> SampleRow \cup {NoSample}] /\ Recorded(days, days')
        /\ hours' \in [Times -> SampleRow \cup {NoSample}] /\ Recorded(hours, hours')
    BY DEF LogTyped, LogTypeOK, Recorded
  <2>4. QED
    BY <2>1, <2>2, <2>3, OneTyped DEF Has
<1>4. CaptureSound(cap[h]) /\ AloneKnows(h)
  BY DEF LogInv
<1>5. CaptureSound(new)
  BY <1>4 DEF CaptureSound
<1>6. new.pc # "idle" /\ new.alone => cap[h].alone /\ KnowsRow(new, days')
  <2>1. SUFFICES ASSUME new.alone PROVE cap[h].alone /\ KnowsRow(new, days')
    OBVIOUS
  <2>2. cap[h].alone
    BY <2>1, Zenon
  <2>3. KnowsRow(cap[h], days)
    BY <1>4, <2>2 DEF AloneKnows
  <2>4. QED
    BY <2>2, <2>3 DEF KnowsRow, Has
<1>7. \A d \in Days : Has(days', d) => RowSound(days'[d])
  BY DEF LogInv, Has
<1>8. LogInv'
  BY <1>5, <1>6, <1>7, OneKeepsInv
<1>9. QED
  BY <1>3, <1>8

LEMMA ReadsKeepInv ==
    ASSUME LogTyped, LogInv, NEW h \in Requests,
           ReadTruth(h) \/ ReadUnclaimed(h) \/ LookDay(h) \/ LookHour(h)
    PROVE  LogTyped' /\ LogInv' /\ UNCHANGED <<days, hours>>
<1>1. /\ cap \in [Requests -> Capture] /\ cap[h] \in Capture /\ store \in Worth
      /\ CaptureSound(cap[h]) /\ chain \in Worth
  BY DEF LogTyped, LogTypeOK, LogInv
<1>2. CASE ReadTruth(h)
  <2> DEFINE new == [cap[h] EXCEPT !.pc = "unclaimed", !.seen.lp = store.lp]
  <2>1. cap' = [cap EXCEPT ![h] = new]
    BY <1>1, <1>2 DEF ReadTruth
  <2>2. store.lp \in Int
    BY <1>1 DEF Worth
  <2>3. /\ new \in Capture /\ new.pc = "unclaimed" /\ new.at = cap[h].at
        /\ new.snap = cap[h].snap
    BY <1>1, <2>2 DEF Capture, Worth
  <2>4. new.alone => cap[h].alone
    BY <1>1 DEF Capture
  <2> HIDE DEF new
  <2>5. StepUnchanged /\ UNCHANGED <<days, hours>> /\ cap[h].pc # "idle"
    BY <1>2 DEF ReadTruth
  <2>6. Sound(new.snap)
    BY <1>1, <2>3 DEF CaptureSound
  <2>7. LogTyped' /\ LogInv'
    BY <2>1, <2>3, <2>4, <2>5, <2>6, ReadTyped
  <2>8. QED
    BY <2>5, <2>7
<1>3. CASE ReadUnclaimed(h)
  <2> DEFINE seen == [cap[h].seen EXCEPT !.unclaimed = store.unclaimed]
             snap == [at |-> cap[h].at, wealth |-> Wealth(seen, store.unclaimed),
                      exact |-> seen = chain, gain |-> history.gain, flow |-> history.flow]
             new == [cap[h] EXCEPT !.pc = "day", !.seen = Empty, !.snap = snap]
  <2>1. seen \in Worth /\ seen.unclaimed = store.unclaimed /\ store.unclaimed \in Int
    BY <1>1 DEF Capture, Worth
  <2>2. cap' = [cap EXCEPT ![h] = new]
    BY <1>1, <1>3 DEF ReadUnclaimed
  <2>3. (seen = chain) \in BOOLEAN
    OBVIOUS
  <2>4. Wealth(seen, store.unclaimed) \in Int
    BY <2>1 DEF Wealth, Worth
  <2>5. history.gain \in Int /\ history.flow \in Int /\ cap[h].at \in Times
    BY <1>1 DEF LogTyped, LogTypeOK, Capture
  <2>6. snap \in Snapshot /\ snap.at = cap[h].at
    <3> HIDE DEF seen
    <3>1. QED
      BY <2>3, <2>4, <2>5 DEF Snapshot
  <2>7. Sound(snap)
    <3>1. SUFFICES ASSUME seen = chain
                   PROVE  Wealth(seen, store.unclaimed) = 3 + history.gain + history.flow
      BY DEF Sound
    <3>2. Total(chain) = 3 + history.gain + history.flow
      BY DEF LogInv, Balanced
    <3>3. Wealth(seen, store.unclaimed) = Total(chain)
      BY <2>1, <3>1 DEF Wealth, Total
    <3>4. QED
      BY <3>2, <3>3
  <2> HIDE DEF snap, seen
  <2>8. Empty \in Worth
    BY DEF Empty, Worth
  <2>9. /\ new \in Capture /\ new.pc = "day" /\ new.at = cap[h].at /\ new.snap = snap
    BY <1>1, <2>6, <2>8 DEF Capture
  <2>10. new.alone => cap[h].alone
    BY <1>1 DEF Capture
  <2> HIDE DEF new
  <2>11. StepUnchanged /\ UNCHANGED <<days, hours>> /\ cap[h].pc # "idle"
    BY <1>3 DEF ReadUnclaimed
  <2>12. LogTyped' /\ LogInv'
    BY <2>2, <2>6, <2>7, <2>9, <2>10, <2>11, ReadTyped
  <2>13. QED
    BY <2>11, <2>12
<1>4. ASSUME NEW old \in Nat, NEW next \in {"dayWrite", "hourWrite"},
             cap' = [cap EXCEPT ![h].pc = next, ![h].old = old],
             StepUnchanged, UNCHANGED <<days, hours>>, cap[h].pc # "idle",
             next = "dayWrite" => cap[h].pc = "day" /\ old = days[DayKey(h)].samples,
             next = "hourWrite" => old = hours[HourKey(h)].samples
      PROVE  LogTyped' /\ LogInv' /\ UNCHANGED <<days, hours>>
  <2> DEFINE new == [cap[h] EXCEPT !.pc = next, !.old = old]
  <2>1. cap' = [cap EXCEPT ![h] = new]
    BY <1>1, <1>4
  <2>2. /\ new \in Capture /\ new.pc = next /\ new.at = cap[h].at /\ new.old = old
        /\ new.snap = cap[h].snap
    BY <1>1 DEF Capture
  <2>3. new.alone => cap[h].alone
    BY <1>1 DEF Capture
  <2> HIDE DEF new
  <2>4. Sound(new.snap) /\ (next = "dayWrite" => new.snap.at = new.at)
    BY <1>1, <1>4, <2>2 DEF CaptureSound
  <2>5. LogTyped' /\ LogInv'
    BY <1>4, <2>1, <2>2, <2>3, <2>4, ReadTyped DEF DayKey, HourKey
  <2>6. QED
    BY <1>4, <2>5
<1>5. \A r \in SampleRow \cup {NoSample} : r.samples \in Nat
  BY DEF SampleRow, NoSample
<1>6. CASE LookDay(h)
  <2>1. days[DayKey(h)].samples \in Nat
    BY <1>1, <1>5, DaysOfTimes DEF LogTyped, LogTypeOK, Capture, DayKey
  <2>2. QED
    BY <1>4, <1>6, <2>1 DEF LookDay, Look
<1>7. CASE LookHour(h)
  <2>1. hours[HourKey(h)].samples \in Nat
    BY <1>1, <1>5 DEF LogTyped, LogTypeOK, Capture, HourKey
  <2>2. QED
    BY <1>4, <1>7, <2>1 DEF LookHour, Look
<1>8. QED
  BY <1>2, <1>3, <1>6, <1>7

Openings(old, new) == \A k \in DOMAIN old : Has(old, k) => new[k].opening = old[k].opening

(* The row that a capture writes, and what is true of it.                  *)
LEMMA WritesInOrder ==
    ASSUME LogTyped, LogInv, NEW h \in Requests, cap[h].pc = "dayWrite",
           ~Conflict(days, DayKey(h), cap[h].old),
           days' = Sampled(days, DayKey(h), cap[h].snap, cap[h].old)
    PROVE  /\ days' \in [Days -> SampleRow \cup {NoSample}]
           /\ Recorded(days, days') /\ Openings(days, days')
           /\ \A d \in Days : d # DayKey(h) => days'[d] = days[d]
           /\ days'[DayKey(h)].closing = cap[h].snap
           /\ days'[DayKey(h)].samples = cap[h].old + 1
           /\ Has(days, DayKey(h)) => days'[DayKey(h)].opening = days[DayKey(h)].opening
           /\ ~Has(days, DayKey(h)) => days'[DayKey(h)].opening = cap[h].snap
<1>1. /\ cap[h] \in Capture /\ DayKey(h) \in Days
      /\ days \in [Days -> SampleRow \cup {NoSample}]
  BY DaysOfTimes DEF LogTyped, LogTypeOK, Capture, DayKey
<1>2. cap[h].snap \in Snapshot /\ cap[h].old \in Nat
  BY <1>1 DEF Capture
<1>3. cap[h].old > 0 => Has(days, DayKey(h))
  BY DEF LogTyped, WritesRow
<1>4. /\ days' \in [Days -> SampleRow \cup {NoSample}]
      /\ \A d \in Days : d # DayKey(h) => days'[d] = days[d]
      /\ Has(days', DayKey(h)) /\ days'[DayKey(h)].closing = cap[h].snap
      /\ days'[DayKey(h)].samples = cap[h].old + 1
      /\ Has(days, DayKey(h)) => days'[DayKey(h)].opening = days[DayKey(h)].opening
      /\ ~Has(days, DayKey(h)) => days'[DayKey(h)].opening = cap[h].snap
  BY <1>1, <1>2, <1>3, UpsertedRow
<1>5. QED
  BY <1>1, <1>4 DEF Recorded, Openings, Has

LEMMA WriteDayKeepsInv ==
    ASSUME LogTyped, LogInv, NEW h \in Requests, WriteDay(h)
    PROVE  LogTyped' /\ LogInv' /\ Openings(days, days')
<1>1. /\ cap[h] \in Capture /\ DayKey(h) \in Days /\ cap[h].at \in Times /\ now \in Int
      /\ CaptureSound(cap[h]) /\ AloneKnows(h) /\ cap[h].pc = "dayWrite"
      /\ \A d \in Days : Has(days, d) => RowSound(days[d])
      /\ days \in [Days -> SampleRow \cup {NoSample}]
  BY DaysOfTimes DEF LogTyped, LogTypeOK, LogInv, Capture, DayKey, WriteDay, Times
<1>2. /\ StepUnchanged /\ UNCHANGED hours
      /\ hours' \in [Times -> SampleRow \cup {NoSample}] /\ Recorded(hours, hours')
  BY DEF WriteDay, LogTyped, LogTypeOK, Recorded
<1>3. CASE Conflict(days, DayKey(h), cap[h].old)
  <2>1. cap' = [cap EXCEPT ![h] = NoCapture] /\ UNCHANGED days
    BY <1>3 DEF WriteDay
  <2>2. CaptureSound(NoCapture)
    BY <1>1, NoCaptureTyped DEF CaptureSound, Sound, LogTyped, LogTypeOK, Times
  <2>3. LogInv'
    BY <1>1, <1>2, <2>1, <2>2, NoCaptureTyped, OneKeepsInv DEF Has
  <2>4. LogTyped'
    BY <1>1, <1>2, <2>1, NoCaptureTyped, OneTyped DEF Recorded, Has
  <2>5. QED
    BY <2>1, <2>3, <2>4 DEF Openings
<1>4. CASE ~Conflict(days, DayKey(h), cap[h].old)
  <2> DEFINE new == [cap[h] EXCEPT !.pc = "hour", !.old = 0]
  <2>1. /\ days' = Sampled(days, DayKey(h), cap[h].snap, cap[h].old)
        /\ cap' = [cap EXCEPT ![h].pc = "hour", ![h].old = 0]
    BY <1>4 DEF WriteDay
  <2>2. cap' = [cap EXCEPT ![h] = new]
    BY <2>1 DEF LogTyped, LogTypeOK
  <2>3. /\ new \in Capture /\ new.pc = "hour" /\ new.at = cap[h].at
        /\ new.snap = cap[h].snap
    BY <1>1 DEF Capture
  <2>4. new.alone => cap[h].alone
    BY <1>1 DEF Capture
  <2> HIDE DEF new
  <2>5. /\ days' \in [Days -> SampleRow \cup {NoSample}]
        /\ Recorded(days, days') /\ Openings(days, days')
        /\ \A d \in Days : d # DayKey(h) => days'[d] = days[d]
        /\ days'[DayKey(h)].closing = cap[h].snap
        /\ Has(days, DayKey(h)) => days'[DayKey(h)].opening = days[DayKey(h)].opening
        /\ ~Has(days, DayKey(h)) => days'[DayKey(h)].opening = cap[h].snap
    BY <1>1, <1>4, <2>1, WritesInOrder
  <2>6. Sound(cap[h].snap) /\ cap[h].snap.at = cap[h].at /\ cap[h].at <= now
    BY <1>1 DEF CaptureSound
  <2>7. ASSUME NEW d \in Days, Has(days', d) PROVE RowSound(days'[d])
    <3>1. CASE d # DayKey(h)
      BY <1>1, <2>5, <2>7, <3>1 DEF Has
    <3>2. CASE d = DayKey(h)
      <4>1. Sound(days'[d].opening)
        BY <1>1, <2>5, <2>6, <3>2 DEF RowSound
      <4>2. QED
        BY <2>5, <2>6, <3>2, <4>1 DEF RowSound
    <3>3. QED
      BY <3>1, <3>2
  <2>8. CaptureSound(new)
    BY <2>3, <2>6 DEF CaptureSound
  <2>9. new.pc # "idle" /\ new.alone => cap[h].alone /\ KnowsRow(new, days')
    <3>1. SUFFICES ASSUME new.alone PROVE cap[h].alone /\ KnowsRow(new, days')
      OBVIOUS
    <3>2. cap[h].alone
      BY <2>4, <3>1, Zenon
    <3>3. \A d \in Days : Has(days, d) => days[d].closing.at <= cap[h].at
      BY <1>1, <3>2 DEF AloneKnows, KnowsRow
    <3>4. ASSUME NEW d \in Days, Has(days', d) PROVE days'[d].closing.at <= new.at
      <4>1. CASE d # DayKey(h)
        BY <2>3, <2>5, <3>3, <3>4, <4>1 DEF Has
      <4>2. CASE d = DayKey(h)
        BY <1>1, <2>3, <2>5, <2>6, <4>2 DEF Times
      <4>3. QED
        BY <4>1, <4>2
    <3>5. QED
      BY <2>3, <3>2, <3>4 DEF KnowsRow, Has
  <2>10. LogInv'
    BY <1>1, <1>2, <2>2, <2>3, <2>7, <2>8, <2>9, OneKeepsInv
  <2>11. LogTyped'
    BY <1>2, <2>2, <2>3, <2>5, OneTyped
  <2>12. QED
    BY <2>5, <2>10, <2>11
<1>5. QED
  BY <1>3, <1>4

LEMMA WriteHourKeepsInv ==
    ASSUME LogTyped, LogInv, NEW h \in Requests, WriteHour(h)
    PROVE  LogTyped' /\ LogInv' /\ Openings(hours, hours')
<1>1. /\ cap[h] \in Capture /\ HourKey(h) \in Times
      /\ cap[h].snap \in Snapshot /\ cap[h].old \in Nat /\ cap[h].pc = "hourWrite"
      /\ hours \in [Times -> SampleRow \cup {NoSample}]
      /\ cap[h].old > 0 => Has(hours, HourKey(h))
  BY DEF LogTyped, LogTypeOK, Capture, HourKey, WriteHour, WritesRow
<1>2. StepUnchanged /\ UNCHANGED days /\ cap' = [cap EXCEPT ![h] = NoCapture]
  BY DEF WriteHour
<1>3. /\ hours' \in [Times -> SampleRow \cup {NoSample}] /\ Recorded(hours, hours')
      /\ Openings(hours, hours')
  <2>1. CASE Conflict(hours, HourKey(h), cap[h].old)
    BY <1>1, <2>1 DEF WriteHour, Recorded, Openings
  <2>2. CASE ~Conflict(hours, HourKey(h), cap[h].old)
    <3>1. hours' = Sampled(hours, HourKey(h), cap[h].snap, cap[h].old)
      BY <2>2 DEF WriteHour
    <3>2. /\ hours' \in [Times -> SampleRow \cup {NoSample}]
          /\ \A t \in Times : t # HourKey(h) => hours'[t] = hours[t]
          /\ Has(hours', HourKey(h))
          /\ Has(hours, HourKey(h)) => hours'[HourKey(h)].opening = hours[HourKey(h)].opening
      BY <1>1, <2>2, <3>1, UpsertedRow
    <3>3. QED
      BY <1>1, <3>2 DEF Recorded, Openings, Has
  <2>3. QED
    BY <2>1, <2>2
<1>4. /\ days' \in [Days -> SampleRow \cup {NoSample}] /\ Recorded(days, days')
      /\ \A d \in Days : Has(days', d) => RowSound(days'[d])
  BY <1>2 DEF LogTyped, LogTypeOK, Recorded, LogInv, Has
<1>5. CaptureSound(NoCapture)
  BY NoCaptureTyped DEF CaptureSound, Sound, LogTyped, LogTypeOK, Times
<1>6. LogTyped'
  BY <1>2, <1>3, <1>4, NoCaptureTyped, OneTyped
<1>7. LogInv'
  BY <1>1, <1>2, <1>4, <1>5, NoCaptureTyped, OneKeepsInv
<1>8. QED
  BY <1>3, <1>6, <1>7

LEMMA LogStep ==
    ASSUME LogTyped, LogInv, [LogNext]_logVars
    PROVE  LogTyped' /\ LogInv' /\ Openings(days, days') /\ Openings(hours, hours')
<1>1. ASSUME UNCHANGED <<days, hours>> PROVE Openings(days, days') /\ Openings(hours, hours')
  BY <1>1 DEF Openings
<1>2. CASE UNCHANGED logVars
  <2>1. UNCHANGED <<now, chain, history, store, owed, recorded, days, hours, cap, begun>>
    BY <1>2 DEF logVars
  <2>2. LogTyped'
    BY <2>1 DEF LogTyped, LogTypeOK, WritesRow, DayKey, HourKey, Has
  <2>3. LogInv'
    BY <2>1 DEF LogInv, Balanced, CaptureSound, AloneKnows, KnowsRow, RowSound, Sound, Has, Total
  <2>4. QED
    BY <1>1, <2>1, <2>2, <2>3
<1>3. CASE OutsideNext
  BY <1>1, <1>3, OutsideTyped, OutsideKeepsInv
<1>4. ASSUME NEW h \in Requests, CaptureNext(h)
      PROVE  LogTyped' /\ LogInv' /\ Openings(days, days') /\ Openings(hours, hours')
  <2>1. CASE BeginCapture(h) \/ PostCashFlow(h)
    BY <1>1, <2>1, BeginKeepsInv
  <2>2. CASE ReadTruth(h) \/ ReadUnclaimed(h) \/ LookDay(h) \/ LookHour(h)
    BY <1>1, <2>2, ReadsKeepInv
  <2>3. CASE WriteDay(h)
    BY <2>3, WriteDayKeepsInv DEF WriteDay, Openings
  <2>4. CASE WriteHour(h)
    BY <2>4, WriteHourKeepsInv DEF WriteHour, Openings
  <2>5. QED
    BY <1>4, <2>1, <2>2, <2>3, <2>4 DEF CaptureNext
<1>5. QED
  BY <1>2, <1>3, <1>4 DEF LogNext, OutsideNext

LEMMA LogInvariance == LogSpec => [](LogTyped /\ LogInv)
<1>1. LogInit => LogTyped /\ LogInv
  BY LogTypeInit, LogInvInit
<1>2. LogTyped /\ LogInv /\ [LogNext]_logVars => (LogTyped /\ LogInv)'
  BY LogStep
<1>3. QED
  BY <1>1, <1>2, PTL DEF LogSpec

(* The opening of a day or an hour is never replaced, though two requests  *)
(* may both find that there is no row yet (upsert_performance_day).        *)
THEOREM OpeningsStay == LogSpec => OpeningStays
<1>1. LogTyped /\ LogInv /\ [LogNext]_logVars =>
        [/\ \A d \in Days : Has(days, d) => days'[d].opening = days[d].opening
         /\ \A t \in Times : Has(hours, t) => hours'[t].opening = hours[t].opening]_<<days, hours>>
  <2>1. LogTyped => DOMAIN days = Days /\ DOMAIN hours = Times
    BY DEF LogTyped, LogTypeOK
  <2>2. QED
    BY <2>1, LogStep DEF Openings
<1>2. QED
  BY <1>1, LogInvariance, PTL DEF LogSpec, OpeningStays

(* A capture that ran alone adds itself as the latest sample of its day    *)
(* (upsert_performance_day).                                               *)
LEMMA AloneStep ==
    ASSUME LogTyped, LogInv, LogNext, NEW h \in Requests,
           cap[h].pc = "dayWrite", cap[h].alone, days' # days
    PROVE  LET d == DayOf(cap[h].at)
           IN /\ days'[d].closing.at = cap[h].at
              /\ days'[d].samples = days[d].samples + 1
              /\ Has(days, d) => days[d].closing.at <= cap[h].at
<1>1. PICK g \in Requests : WriteDay(g)
  <2>1. ~OutsideNext
    BY OutsideTyped
  <2>2. PICK g \in Requests : CaptureNext(g)
    BY <2>1 DEF LogNext, OutsideNext
  <2>3. ~(BeginCapture(g) \/ PostCashFlow(g))
    BY BeginKeepsInv
  <2>4. ~(ReadTruth(g) \/ ReadUnclaimed(g) \/ LookDay(g) \/ LookHour(g))
    BY ReadsKeepInv
  <2>5. ~WriteHour(g)
    BY DEF WriteHour
  <2>6. QED
    BY <2>2, <2>3, <2>4, <2>5 DEF CaptureNext
<1>2. AloneKnows(h) /\ CaptureSound(cap[h])
  BY DEF LogInv
<1>3. (\A k \in Requests \ {h} : cap[k].pc = "idle") /\ KnowsRow(cap[h], days)
  BY <1>2 DEF AloneKnows
<1>4. WriteDay(h)
  BY <1>1, <1>3 DEF WriteDay
<1>5. /\ ~Conflict(days, DayKey(h), cap[h].old)
      /\ days' = Sampled(days, DayKey(h), cap[h].snap, cap[h].old)
  BY <1>4 DEF WriteDay
<1>6. /\ days'[DayKey(h)].closing = cap[h].snap
      /\ days'[DayKey(h)].samples = cap[h].old + 1
  BY <1>5, WritesInOrder
<1>7. cap[h].snap.at = cap[h].at
  BY <1>2 DEF CaptureSound
<1>8. DayKey(h) = DayOf(cap[h].at) /\ DayOf(cap[h].at) \in Days
  BY DaysOfTimes DEF DayKey, LogTyped, LogTypeOK, Capture
<1>9. QED
  BY <1>3, <1>6, <1>7, <1>8 DEF KnowsRow

(* Only captures that overlap can leave an older sample as the closing one *)
(* or lose a sample from the count (upsert_performance_day).               *)
THEOREM AloneIsInOrder == LogSpec => AloneInOrder
<1>1. LogTyped /\ LogInv /\ [LogNext]_logVars =>
        [\A h \in Requests :
            cap[h].pc = "dayWrite" /\ cap[h].alone /\ days' # days =>
                LET d == DayOf(cap[h].at)
                IN /\ days'[d].closing.at = cap[h].at
                   /\ days'[d].samples = days[d].samples + 1
                   /\ Has(days, d) => days[d].closing.at <= cap[h].at]_<<days, cap>>
  BY AloneStep DEF logVars
<1>2. QED
  BY <1>1, LogInvariance, PTL DEF LogSpec, AloneInOrder

LEMMA DaysFinite == IsFiniteSet(Days) /\ Days \subseteq Int
<1> DEFINE f == [t \in Times |-> DayOf(t)]
<1>1. f \in [Times -> Int]
  BY TicksAssumption DEF Times, DayOf
<1>2. IsFiniteSet(Times)
  BY TicksAssumption, FS_Interval DEF Times
<1>3. IsFiniteSet({f[t] : t \in Times})
  <2> HIDE DEF f
  <2>1. QED
    BY <1>1, <1>2, ImageFinite
<1>4. Days = {f[t] : t \in Times}
  BY DEF Days
<1>5. QED
  BY <1>1, <1>3, <1>4

(* Between two exact samples the wealth grew by what was gained and what   *)
(* flowed in.                                                              *)
LEMMA BookedProfit ==
    ASSUME NEW o \in Snapshot, NEW c \in Snapshot, Sound(o), Sound(c), NEW recordedFlow,
           Booked(o, c, recordedFlow)
    PROVE  c.wealth - o.wealth - recordedFlow = c.gain - o.gain
<1>1. o.exact /\ c.exact /\ recordedFlow = c.flow - o.flow
  BY Zenon DEF Booked, Exact
<1>2. o.wealth = 3 + o.gain + o.flow /\ c.wealth = 3 + c.gain + c.flow
  BY <1>1, Zenon DEF Sound
<1>3. /\ o.wealth \in Int /\ o.gain \in Int /\ o.flow \in Int
      /\ c.wealth \in Int /\ c.gain \in Int /\ c.flow \in Int
  BY DEF Snapshot
<1>4. recordedFlow = c.flow - o.flow
  BY <1>1
<1>5. QED
  BY <1>2, <1>3, <1>4

LEMMA InvIsReal == LogTyped /\ LogInv => ProfitIsReal
<1> SUFFICES ASSUME LogTyped, LogInv PROVE ProfitIsReal
  OBVIOUS
<1>1. ASSUME NEW d \in RecordedDays
      PROVE  /\ days[d].opening \in Snapshot /\ days[d].closing \in Snapshot
             /\ Sound(days[d].opening) /\ Sound(days[d].closing)
  <2>1. d \in Days /\ Has(days, d) /\ RowSound(days[d]) /\ days[d] \in SampleRow
    BY DEF RecordedDays, LogTyped, LogTypeOK, LogInv, Has
  <2>2. QED
    BY <2>1 DEF RowSound, SampleRow
<1>2. ASSUME NEW d \in RecordedDays, Booked(days[d].opening, days[d].closing, recorded[d])
      PROVE  DayProfit(d) = days[d].closing.gain - days[d].opening.gain
  BY <1>1, <1>2, BookedProfit DEF DayProfit
<1>3. ASSUME RecordedDays # {},
             Booked(days[FirstDay].opening, days[LatestDay].closing, FlowOver(RecordedDays))
      PROVE  RunningProfit = days[LatestDay].closing.gain - days[FirstDay].opening.gain
  <2>1. IsFiniteSet(RecordedDays) /\ RecordedDays \in SUBSET Int
    BY DaysFinite, FS_Subset DEF RecordedDays
  <2>2. FirstDay \in RecordedDays /\ LatestDay \in RecordedDays
    BY <1>3, <2>1, MaxExists, MinExists DEF FirstDay, LatestDay
  <2>3. QED
    BY <1>1, <1>3, <2>2, BookedProfit DEF RunningProfit
<1>4. QED
  BY <1>2, <1>3 DEF ProfitIsReal

(* A profit reported is what the portfolio gained between two exact        *)
(* samples when the flows between them are recorded: of one day            *)
(* (_summarise_day) and of the whole log (performance_log).                *)
THEOREM ProfitsAreReal == LogSpec => []ProfitIsReal
BY LogInvariance, InvIsReal, PTL
===================================================================================
