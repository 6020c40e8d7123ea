-------------------------- MODULE LiveDiscoveryProofs --------------------------
(***************************************************************************)
(* The checkpoint passes no NFT that nobody looked at, for any number of   *)
(* refreshing and importing threads and any depths of their scans.         *)
(***************************************************************************)
EXTENDS LiveDiscovery, TLAPS

(* What a scan in flight knows: blocks it may speak of, and, while nothing *)
(* was refused to it, every NFT of the blocks it has been through.         *)
ScanKnows(s) ==
    /\ scan[s].pc \notin {"idle", "height"} =>
          scan[s].start \in Blocks /\ scan[s].latest <= height
    /\ scan[s].pc = "rows" /\ scan[s].complete =>
          LogIds(scan[s].start, scan[s].latest) \subseteq scan[s].ids
    /\ scan[s].pc = "checkpoint" /\ scan[s].complete =>
          LogIds(scan[s].start, scan[s].latest) \subseteq known

ScansKnow == \A s \in Scanners : ScanKnows(s)

HeightsOK ==
    /\ checkpoint # None => checkpoint <= height
    /\ \A n \in Minted : minted[n] \in 1..height

DiscoveryInv == TypeOK /\ ScansKnow /\ HeightsOK /\ PassedMeansKnown

(* A step back from a block never leaves the chain.                        *)
LEMMA BackIsBlock ==
    ASSUME NEW block \in Blocks, NEW depth \in Nat
    PROVE  Back(block, depth) \in Blocks
<1> DEFINE m == IF block - depth > 0 THEN block - depth ELSE 0
<1>1. m \in {0, block - depth} /\ \A y \in {0, block - depth} : m >= y
  BY BlocksAssumption DEF Blocks
<1>2. \A x \in {0, block - depth} :
         (\A y \in {0, block - depth} : x >= y) => x = m
  BY BlocksAssumption DEF Blocks
<1>3. Back(block, depth) = m
  BY <1>1, <1>2 DEF Back, Max
<1>4. QED
  BY <1>3, BlocksAssumption DEF Blocks

LEMMA InitDiscovery == Init => DiscoveryInv
<1> SUFFICES ASSUME Init PROVE DiscoveryInv
  OBVIOUS
<1>1. TypeOK
  <2>1. 0 \in Blocks
    BY BlocksAssumption DEF Blocks
  <2>2. Idle \in Scan
    BY <2>1 DEF Idle, Scan
  <2>3. QED
    BY <2>1, <2>2 DEF Init, TypeOK
<1>2. ScansKnow /\ HeightsOK /\ PassedMeansKnown
  BY DEF Init, ScansKnow, ScanKnows, Idle, HeightsOK, Minted, PassedMeansKnown
<1>3. QED
  BY <1>1, <1>2 DEF DiscoveryInv

(* New NFTs come in a block that no scan and no checkpoint has reached.    *)
LEMMA ProduceKeeps ==
    ASSUME DiscoveryInv, NEW mints \in SUBSET Nfts, Produce(mints)
    PROVE  DiscoveryInv'
<1> USE DEF DiscoveryInv
<1>1. height \in Nat /\ height' = height + 1 /\ height' \in Blocks
  BY BlocksAssumption DEF Produce, TypeOK, Blocks
<1>2. TypeOK'
  BY <1>1 DEF Produce, TypeOK
<1>3. \A n \in Nfts : IF n \in mints THEN minted'[n] = height + 1 /\ minted[n] = None
                      ELSE minted'[n] = minted[n]
  BY DEF Produce, TypeOK, Minted
<1>4. \A n \in Minted' : n \in Minted \/ minted'[n] = height + 1
  BY <1>3 DEF Minted
<1>5. \A from, to \in Blocks : to <= height => LogIds(from, to)' = LogIds(from, to)
  <2>1. ASSUME NEW from \in Blocks, NEW to \in Blocks, to <= height
        PROVE  LogIds(from, to)' = LogIds(from, to)
    <3>1. height + 1 \notin from..to
      BY <1>1, <2>1 DEF Blocks
    <3>2. \A n \in Nfts : n \in mints => n \notin Minted
      BY <1>3 DEF Minted
    <3>3. QED
      BY <1>3, <3>1, <3>2, BlocksAssumption DEF LogIds, Minted, Blocks
  <2>2. QED
    BY <2>1
<1>6. ScansKnow'
  <2>1. ASSUME NEW s \in Scanners PROVE ScanKnows(s)'
    <3>1. scan' = scan /\ known' = known /\ scan[s] \in Scan /\ ScanKnows(s)
      BY DEF Produce, TypeOK, ScansKnow
    <3>2. scan[s].pc \notin {"idle", "height"} =>
             LogIds(scan[s].start, scan[s].latest)' = LogIds(scan[s].start, scan[s].latest)
      BY <1>5, <3>1 DEF ScanKnows, Scan
    <3>3. scan[s].latest <= height => scan[s].latest <= height'
      BY <1>1, <3>1 DEF Scan, Blocks
    <3>4. QED
      BY <3>1, <3>2, <3>3 DEF ScanKnows
  <2>2. QED
    BY <2>1 DEF ScansKnow
<1>7. HeightsOK'
  BY <1>1, <1>3, <1>4, BlocksAssumption DEF HeightsOK, Produce, TypeOK, Minted, Blocks
<1>8. PassedMeansKnown'
  BY <1>1, <1>3, <1>4, BlocksAssumption
     DEF HeightsOK, PassedMeansKnown, Produce, TypeOK, Minted, Blocks
<1>9. QED
  BY <1>2, <1>6, <1>7, <1>8

(* Nothing but the scans' own values changes: what is left to show is that *)
(* the scanner that moved knows what it should.                            *)
LEMMA ScanStepKeeps ==
    ASSUME DiscoveryInv, NEW s \in Scanners, NEW new \in Scan,
           scan' = [scan EXCEPT ![s] = new], ScanKnows(s)',
           UNCHANGED <<height, minted, known, checkpoint, indexed, skipped>>,
           lock' \in Refreshers \cup {None}
    PROVE  DiscoveryInv'
<1>1. TypeOK'
  BY DEF DiscoveryInv, TypeOK
<1>2. ScansKnow'
  <2>1. ASSUME NEW r \in Scanners, r # s PROVE ScanKnows(r)'
    <3>1. scan'[r] = scan[r] /\ ScanKnows(r)
      BY <2>1 DEF DiscoveryInv, TypeOK, ScansKnow
    <3>2. QED
      BY <3>1 DEF ScanKnows, LogIds, Minted
  <2>2. QED
    BY <2>1 DEF ScansKnow
<1>3. HeightsOK' /\ PassedMeansKnown'
  BY DEF DiscoveryInv, HeightsOK, PassedMeansKnown, Minted
<1>4. QED
  BY <1>1, <1>2, <1>3 DEF DiscoveryInv

LEMMA BeginRefreshKeeps ==
    ASSUME DiscoveryInv, NEW s \in Scanners, BeginRefresh(s)
    PROVE  DiscoveryInv'
<1> DEFINE new == [Idle EXCEPT !.pc = "height", !.start = ResumeFrom, !.ids = known]
<1>1. ResumeFrom \in Blocks \cup {None}
  BY BackIsBlock, BlocksAssumption DEF ResumeFrom, DiscoveryInv, TypeOK
<1>2. 0 \in Blocks
  BY BlocksAssumption DEF Blocks
<1>3. new \in Scan /\ new.pc = "height"
  BY <1>1, <1>2 DEF Idle, Scan, DiscoveryInv, TypeOK
<1>4. scan' = [scan EXCEPT ![s] = new] /\ lock' \in Refreshers \cup {None}
  BY DEF BeginRefresh
<1>5. ScanKnows(s)'
  BY <1>3, <1>4 DEF ScanKnows, DiscoveryInv, TypeOK
<1>6. QED
  BY <1>3, <1>4, <1>5, ScanStepKeeps DEF BeginRefresh, Unchanged

LEMMA BeginImportKeeps ==
    ASSUME DiscoveryInv, NEW s \in Scanners, NEW named \in SUBSET Nfts, BeginImport(s, named)
    PROVE  DiscoveryInv'
<1> DEFINE new == [Idle EXCEPT !.pc = "height", !.ids = known \cup named]
<1>1. 0 \in Blocks
  BY BlocksAssumption DEF Blocks
<1>2. new \in Scan /\ new.pc = "height"
  BY <1>1 DEF Idle, Scan, DiscoveryInv, TypeOK
<1>3. scan' = [scan EXCEPT ![s] = new] /\ lock' \in Refreshers \cup {None}
  BY DEF BeginImport, DiscoveryInv, TypeOK
<1>4. ScanKnows(s)'
  BY <1>2, <1>3 DEF ScanKnows, DiscoveryInv, TypeOK
<1>5. QED
  BY <1>2, <1>3, <1>4, ScanStepKeeps DEF BeginImport, Unchanged

LEMMA ReadHeightKeeps ==
    ASSUME DiscoveryInv, NEW s \in Scanners, ReadHeight(s)
    PROVE  DiscoveryInv'
<1> DEFINE depth == IF s \in Importers THEN ImportBlocks ELSE ScanBlocks
           start == IF scan[s].start = None THEN Back(height, depth) ELSE scan[s].start
           new == [scan[s] EXCEPT !.pc = "indexes", !.latest = height, !.start = start]
<1>1. start \in Blocks
  BY BackIsBlock, BlocksAssumption DEF DiscoveryInv, TypeOK, Scan
<1>2. new \in Scan /\ new.pc = "indexes" /\ new.latest = height /\ new.start \in Blocks
  BY <1>1 DEF Scan, DiscoveryInv, TypeOK
<1>3. scan' = [scan EXCEPT ![s] = new] /\ lock' = lock /\ height' = height
  BY DEF ReadHeight, Advance, Unchanged
<1>4. scan'[s] = new
  BY <1>3 DEF DiscoveryInv, TypeOK
<1>5. ScanKnows(s)'
  <2>1. height <= height
    BY BlocksAssumption DEF DiscoveryInv, TypeOK, Blocks
  <2>2. QED
    BY <1>2, <1>3, <1>4, <2>1 DEF ScanKnows
<1>6. QED
  BY <1>2, <1>3, <1>5, ScanStepKeeps DEF ReadHeight, Advance, Unchanged, DiscoveryInv, TypeOK

LEMMA ReadIndexesKeeps ==
    ASSUME DiscoveryInv, NEW s \in Scanners, NEW listed \in SUBSET Indexable,
           ReadIndexes(s, listed)
    PROVE  DiscoveryInv'
<1> DEFINE new == [scan[s] EXCEPT !.pc = "logs", !.ids = @ \cup listed]
<1>1. scan[s] \in Scan /\ ScanKnows(s) /\ scan[s].pc = "indexes"
  BY DEF ReadIndexes, DiscoveryInv, TypeOK, ScansKnow
<1>2. new \in Scan /\ new.pc = "logs" /\ new.latest = scan[s].latest /\ new.start = scan[s].start
  BY <1>1, FailAssumption DEF Scan
<1>3. scan' = [scan EXCEPT ![s] = new] /\ lock' = lock /\ height' = height
  BY DEF ReadIndexes, Advance, Unchanged
<1>4. scan'[s] = new
  BY <1>3 DEF DiscoveryInv, TypeOK
<1>5. ScanKnows(s)'
  BY <1>1, <1>2, <1>3, <1>4 DEF ScanKnows
<1>6. QED
  BY <1>2, <1>3, <1>5, ScanStepKeeps DEF ReadIndexes, Advance, Unchanged, DiscoveryInv, TypeOK

(* The logs name every NFT of the blocks they are asked for.               *)
LEMMA ReadLogsKeeps ==
    ASSUME DiscoveryInv, NEW s \in Scanners, ReadLogs(s)
    PROVE  DiscoveryInv'
<1> DEFINE logged == LogIds(scan[s].start, scan[s].latest)
           new == [scan[s] EXCEPT !.pc = "rows", !.ids = @ \cup logged]
<1>1. scan[s] \in Scan /\ ScanKnows(s) /\ scan[s].pc = "logs"
  BY DEF ReadLogs, DiscoveryInv, TypeOK, ScansKnow
<1>2. logged \subseteq Nfts
  BY DEF LogIds, Minted
<1>3. new \in Scan /\ new.pc = "rows" /\ new.latest = scan[s].latest /\ new.start = scan[s].start
      /\ logged \subseteq new.ids
  BY <1>1, <1>2 DEF Scan
<1>4. scan' = [scan EXCEPT ![s] = new] /\ lock' = lock /\ height' = height /\ minted' = minted
  BY DEF ReadLogs, Advance, Unchanged
<1>5. scan'[s] = new
  BY <1>4 DEF DiscoveryInv, TypeOK
<1>6. ScanKnows(s)'
  BY <1>1, <1>3, <1>4, <1>5 DEF ScanKnows, LogIds, Minted
<1>7. QED
  BY <1>3, <1>4, <1>6, ScanStepKeeps DEF ReadLogs, Advance, Unchanged, DiscoveryInv, TypeOK

LEMMA RefuseLogsKeeps ==
    ASSUME DiscoveryInv, NEW s \in Scanners, RefuseLogs(s)
    PROVE  DiscoveryInv'
<1> DEFINE new == [scan[s] EXCEPT !.pc = "rows", !.complete = FALSE]
<1>1. scan[s] \in Scan /\ ScanKnows(s) /\ scan[s].pc = "logs"
  BY DEF RefuseLogs, DiscoveryInv, TypeOK, ScansKnow
<1>2. new \in Scan /\ new.pc = "rows" /\ new.latest = scan[s].latest /\ new.start = scan[s].start
      /\ ~new.complete
  BY <1>1 DEF Scan
<1>3. scan' = [scan EXCEPT ![s] = new] /\ lock' = lock /\ height' = height
  BY DEF RefuseLogs, Advance, Unchanged
<1>4. scan'[s] = new
  BY <1>3 DEF DiscoveryInv, TypeOK
<1>5. ScanKnows(s)'
  BY <1>1, <1>2, <1>3, <1>4 DEF ScanKnows
<1>6. QED
  BY <1>2, <1>3, <1>5, ScanStepKeeps DEF RefuseLogs, Advance, Unchanged, DiscoveryInv, TypeOK

(* A complete pass leaves none of its NFTs unknown: those that could not   *)
(* be read had a row before.                                               *)
LEMMA ReconcileKeeps ==
    ASSUME DiscoveryInv, NEW s \in Scanners, NEW errors \in SUBSET Nfts, Reconcile(s, errors)
    PROVE  DiscoveryInv'
<1> USE DEF DiscoveryInv
<1> DEFINE new == [scan[s] EXCEPT !.pc = "checkpoint", !.complete = @ /\ errors \subseteq known]
<1>1. scan \in [Scanners -> Scan] /\ scan[s] \in Scan /\ ScanKnows(s) /\ scan[s].pc = "rows"
  BY DEF Reconcile, TypeOK, ScansKnow
<1>2. new \in Scan /\ new.pc = "checkpoint" /\ new.latest = scan[s].latest
      /\ new.start = scan[s].start
      /\ (new.complete <=> scan[s].complete /\ errors \subseteq known)
  BY <1>1 DEF Scan
<1>3. scan' = [scan EXCEPT ![s] = new]
  BY <1>1 DEF Reconcile, Scan
<1>4. /\ known' = known \cup (scan[s].ids \ errors)
      /\ UNCHANGED <<height, minted, indexed, checkpoint, lock, skipped>>
  BY DEF Reconcile, Unchanged
<1>5. TypeOK'
  BY <1>1, <1>2, <1>3, <1>4 DEF TypeOK, Scan
<1>6. ScanKnows(s)'
  <2>1. scan'[s] = new
    BY <1>1, <1>3
  <2>2. new.complete => scan[s].ids \subseteq known'
    BY <1>2, <1>4
  <2>3. QED
    BY <1>1, <1>2, <1>4, <2>1, <2>2 DEF ScanKnows, LogIds, Minted
<1>7. ScansKnow'
  <2>1. ASSUME NEW r \in Scanners, r # s PROVE ScanKnows(r)'
    <3>1. scan'[r] = scan[r] /\ ScanKnows(r)
      BY <1>1, <1>3, <2>1 DEF ScansKnow
    <3>2. QED
      BY <1>4, <3>1 DEF ScanKnows, LogIds, Minted
  <2>2. QED
    BY <1>6, <2>1 DEF ScansKnow
<1>8. HeightsOK' /\ PassedMeansKnown'
  BY <1>4 DEF HeightsOK, PassedMeansKnown, Minted
<1>9. QED
  BY <1>5, <1>7, <1>8

(* The scanner becomes idle and its lock, if it held it, free.             *)
LEMMA ReleaseIs ==
    ASSUME TypeOK, NEW s \in Scanners, Release(s)
    PROVE  /\ scan' = [scan EXCEPT ![s] = Idle] /\ Idle \in Scan /\ Idle.pc = "idle"
           /\ lock' \in Refreshers \cup {None}
<1>1. 0 \in Blocks
  BY BlocksAssumption DEF Blocks
<1>2. QED
  BY <1>1 DEF Release, Idle, Scan, TypeOK

(* The blocks up to the new checkpoint are those up to the old one and     *)
(* those of a complete pass that left no gap to it.                        *)
LEMMA SetCheckpointKeeps ==
    ASSUME DiscoveryInv, NEW s \in Scanners, SetCheckpoint(s)
    PROVE  DiscoveryInv'
<1> USE DEF DiscoveryInv
<1>1. scan[s] \in Scan /\ ScanKnows(s) /\ scan[s].pc = "checkpoint"
  BY DEF SetCheckpoint, TypeOK, ScansKnow
<1>2. /\ checkpoint' = scan[s].latest /\ Passed(s) /\ Release(s)
      /\ UNCHANGED <<height, minted, known, indexed>>
  BY DEF SetCheckpoint, Unchanged
<1>3. /\ scan' = [scan EXCEPT ![s] = Idle] /\ Idle \in Scan /\ Idle.pc = "idle"
      /\ lock' \in Refreshers \cup {None}
  BY <1>2, ReleaseIs
<1>4. scan[s].start \in Blocks /\ scan[s].latest \in Blocks /\ scan[s].latest <= height
  BY <1>1 DEF ScanKnows, Scan
<1>5. TypeOK'
  BY <1>2, <1>3, <1>4 DEF TypeOK, Passed
<1>6. ScansKnow'
  <2>1. ASSUME NEW r \in Scanners PROVE ScanKnows(r)'
    <3>1. scan'[r] = IF r = s THEN Idle ELSE scan[r]
      BY <1>3 DEF TypeOK
    <3>2. QED
      BY <1>2, <1>3, <3>1 DEF ScansKnow, ScanKnows, LogIds, Minted
  <2>2. QED
    BY <2>1 DEF ScansKnow
<1>7. HeightsOK'
  BY <1>2, <1>4 DEF HeightsOK, Minted
<1>8. PassedMeansKnown'
  <2>1. SUFFICES ASSUME ~skipped', NEW n \in Minted, minted[n] <= checkpoint'
                 PROVE  n \in known
    BY <1>2 DEF PassedMeansKnown, Minted
  <2>2. /\ ~skipped /\ scan[s].complete
        /\ ~(scan[s].start > 1 + (IF checkpoint = None THEN 0 ELSE checkpoint))
    BY <1>2, <2>1 DEF Passed
  <2>3. minted[n] \in 1..height /\ minted[n] <= scan[s].latest
    BY <1>2, <2>1 DEF HeightsOK
  <2>4. CASE scan[s].start <= minted[n]
    <3>1. minted[n] \in scan[s].start..scan[s].latest
      BY <1>4, <2>3, <2>4, BlocksAssumption DEF Blocks, TypeOK
    <3>2. QED
      BY <1>1, <2>2, <3>1 DEF ScanKnows, LogIds
  <2>5. CASE ~(scan[s].start <= minted[n])
    <3>1. checkpoint # None /\ minted[n] <= checkpoint
      BY <1>4, <2>2, <2>3, <2>5, BlocksAssumption DEF Blocks, TypeOK
    <3>2. QED
      BY <2>2, <3>1 DEF PassedMeansKnown
  <2>6. QED
    BY <2>4, <2>5
<1>9. QED
  BY <1>5, <1>6, <1>7, <1>8

LEMMA FailScanKeeps ==
    ASSUME DiscoveryInv, NEW s \in Scanners, FailScan(s)
    PROVE  DiscoveryInv'
<1>1. /\ scan' = [scan EXCEPT ![s] = Idle] /\ Idle \in Scan /\ Idle.pc = "idle"
      /\ lock' \in Refreshers \cup {None}
  BY ReleaseIs DEF FailScan, DiscoveryInv
<1>2. ScanKnows(s)'
  BY <1>1 DEF ScanKnows, DiscoveryInv, TypeOK
<1>3. QED
  BY <1>1, <1>2, ScanStepKeeps DEF FailScan, Unchanged

LEMMA StutterKeeps ==
    ASSUME DiscoveryInv, UNCHANGED vars
    PROVE  DiscoveryInv'
BY DEF vars, DiscoveryInv, TypeOK, ScansKnow, ScanKnows, LogIds, Minted, HeightsOK, PassedMeansKnown

LEMMA DiscoveryIsInductive == DiscoveryInv /\ [Next]_vars => DiscoveryInv'
<1> SUFFICES ASSUME DiscoveryInv, [Next]_vars PROVE DiscoveryInv'
  OBVIOUS
<1>1. ASSUME NEW mints \in SUBSET Nfts, Produce(mints) PROVE DiscoveryInv'
  BY <1>1, ProduceKeeps
<1>2. ASSUME NEW s \in Scanners, BeginRefresh(s) PROVE DiscoveryInv'
  BY <1>2, BeginRefreshKeeps
<1>3. ASSUME NEW s \in Scanners, NEW named \in SUBSET Nfts, BeginImport(s, named)
      PROVE  DiscoveryInv'
  BY <1>3, BeginImportKeeps
<1>4. ASSUME NEW s \in Scanners, ScanNext(s) PROVE DiscoveryInv'
  <2>1. ASSUME NEW listed \in SUBSET Indexable, ReadIndexes(s, listed) PROVE DiscoveryInv'
    BY <2>1, ReadIndexesKeeps
  <2>2. ASSUME NEW errors \in SUBSET Nfts, Reconcile(s, errors) PROVE DiscoveryInv'
    BY <2>2, ReconcileKeeps
  <2>3. QED
    BY <1>4, <2>1, <2>2, ReadHeightKeeps, ReadLogsKeeps, RefuseLogsKeeps, SetCheckpointKeeps,
       FailScanKeeps DEF ScanNext
<1>5. QED
  BY <1>1, <1>2, <1>3, <1>4, StutterKeeps DEF Next

(* The checkpoint passes no NFT that is not known, unless a refused query, *)
(* an unreadable NFT or an import far ahead made it skip blocks            *)
(* (scan_chain_positions, set_setting live:checkpoint:<chain>).            *)
THEOREM CheckpointPassesKnown == Spec => []PassedMeansKnown
<1>1. DiscoveryInv => PassedMeansKnown
  BY DEF DiscoveryInv
<1>2. QED
  BY <1>1, InitDiscovery, DiscoveryIsInductive, PTL DEF Spec
================================================================================
