------------------------ MODULE PositionLifecycleProofs ------------------------
(***************************************************************************)
(* PositionLifecycle, proved for every set of NFTs, threads and receipts:  *)
(* type correctness, safety, and that it implements CloseLedger.           *)
(***************************************************************************)
EXTENDS PositionLifecycle, TLAPS

(***************************************************************************)
(* Type correctness, and what each step does to a scanner's locals.        *)
(***************************************************************************)
(* TypeOK alone is not inductive: a step indexes tables by the NFT its     *)
(* record holds, which is an NFT only between its first read and its last  *)
(* write.                                                                  *)
LocalsOK ==
    /\ \A s \in Scanners : scan[s].pc \notin {"idle", "rows"} => scan[s].cur \in Nfts
    /\ \A p \in Posts : post[p].pc \notin {"new", "done"} => post[p].nft \in Nfts

(* The locals a scanner starts from, and goes back to between rows.        *)
LEMMA IdleTyped == Idle \in Scan /\ [Idle EXCEPT !.pc = "rows"] \in Scan
  BY DEF Idle, Scan

(* An empty batch.                                                         *)
LEMMA NothingSeenTyped == NothingSeen \in [Nfts -> Observations]
  BY DEF NothingSeen, Observations

(* Moving the program counter keeps a scan record well typed.              *)
LEMMA ScanPc ==
    ASSUME NEW r \in Scan, NEW pc \in {"idle", "rows", "notes", "snapshot", "upsert", "save", "link"}
    PROVE  [r EXCEPT !.pc = pc] \in Scan
  BY DEF Scan

(* Recording one observation of one scanner.                               *)
LEMMA ObservationTyped ==
    ASSUME TypeOK, NEW s \in Scanners, NEW n \in Nfts, NEW o \in Observations,
           seen' = [seen EXCEPT ![s][n] = o]
    PROVE  seen' \in [Scanners -> [Nfts -> Observations]]
<1>1. seen[s] \in [Nfts -> Observations]  BY DEF TypeOK
<1>2. [seen[s] EXCEPT ![n] = o] \in [Nfts -> Observations]  BY <1>1
<1>3. seen' = [seen EXCEPT ![s] = [seen[s] EXCEPT ![n] = o]]  OBVIOUS
<1>. QED  BY <1>2, <1>3 DEF TypeOK

(* Taking one observation out of the batch.                                *)
LEMMA ConsumeTyped ==
    ASSUME TypeOK, NEW s \in Scanners, NEW n \in Nfts, Consume(s, n)
    PROVE  seen' \in [Scanners -> [Nfts -> Observations]]
  BY ObservationTyped DEF Consume, Observations

(* Starting a scan of any batch.                                           *)
LEMMA BeginScanTyped ==
    ASSUME TypeOK, NEW s \in Scanners, NEW batch, BeginScan(s, batch)
    PROVE  /\ scan' \in [Scanners -> Scan]
           /\ seen' \in [Scanners -> [Nfts -> Observations]]
<1>. DEFINE t == [n \in Nfts |-> IF n \in batch THEN "todo" ELSE "none"]
            r == [scan[s] EXCEPT !.pc = "rows"]
<1>1. t \in [Nfts -> Observations]  BY DEF Observations
<1>2. r \in Scan  BY ScanPc DEF TypeOK
<1>3. seen' = [seen EXCEPT ![s] = t] /\ scan' = [scan EXCEPT ![s] = r]  BY DEF BeginScan
<1>. HIDE DEF t, r
<1>. QED  BY <1>1, <1>2, <1>3 DEF TypeOK

(* Going on to the next row.                                               *)
LEMMA EndRowTyped ==
    ASSUME TypeOK, NEW s \in Scanners, EndRow(s)
    PROVE  /\ scan' \in [Scanners -> Scan]
           /\ seen' \in [Scanners -> [Nfts -> Observations]]
<1>1. [Idle EXCEPT !.pc = "rows"] \in Scan  BY IdleTyped
<1>. QED  BY <1>1 DEF EndRow, TypeOK

(* Ending a pass, finished or failed.                                      *)
LEMMA EndScanTyped ==
    ASSUME TypeOK, NEW s \in Scanners, EndScan(s)
    PROVE  TypeOK'
<1>1. scan' = [scan EXCEPT ![s] = Idle] /\ seen' = [seen EXCEPT ![s] = NothingSeen]
    BY DEF EndScan
<1>2. scan' \in [Scanners -> Scan]  BY <1>1, IdleTyped DEF TypeOK
<1>3. seen' \in [Scanners -> [Nfts -> Observations]]  BY <1>1, NothingSeenTyped DEF TypeOK
<1>. QED  BY <1>2, <1>3 DEF EndScan, ScanUnchanged, TypeOK

(* Every step of a scanner keeps every variable in its type.               *)
LEMMA ScanTyped ==
    ASSUME TypeOK, LocalsOK, NEW s \in Scanners, ScanStep(s) \/ BeginRefresh(s) \/ BeginImport(s)
    PROVE  TypeOK'
<1>1. CASE BeginRefresh(s)
  <2>1. PICK batch \in SUBSET Nfts : BeginScan(s, batch)
      BY <1>1 DEF BeginRefresh, Discoverable, LiveTokenIds
  <2>2. scan' \in [Scanners -> Scan] /\ seen' \in [Scanners -> [Nfts -> Observations]]
      BY <2>1, BeginScanTyped
  <2>. QED  BY <1>1, <2>2 DEF BeginRefresh, ScanUnchanged, TypeOK
<1>2. CASE BeginImport(s)
  <2>1. PICK batch \in SUBSET Nfts : BeginScan(s, batch)
      BY <1>2 DEF BeginImport, Discoverable, LiveTokenIds
  <2>2. scan' \in [Scanners -> Scan] /\ seen' \in [Scanners -> [Nfts -> Observations]]
      BY <2>1, BeginScanTyped
  <2>. QED  BY <1>2, <2>2 DEF BeginImport, ScanUnchanged, TypeOK
<1>3. ASSUME NEW n \in Nfts, Observe(s, n) \/ ObserveError(s, n)  PROVE TypeOK'
  <2>1. PICK o \in Observations : ObserveAs(s, n, o)
      BY <1>3 DEF Observe, ObserveError, Reading, Observations
  <2>2. seen' \in [Scanners -> [Nfts -> Observations]]
      BY <2>1, ObservationTyped DEF ObserveAs
  <2>. QED  BY <2>1, <2>2 DEF ObserveAs, ScanUnchanged, TypeOK
<1>4. ASSUME NEW n \in Nfts, SkipErrorRow(s, n)  PROVE TypeOK'
  <2>1. seen' \in [Scanners -> [Nfts -> Observations]]
      BY <1>4, ConsumeTyped DEF SkipErrorRow
  <2>. QED  BY <1>4, <2>1 DEF SkipErrorRow, ScanUnchanged, TypeOK
<1>5. ASSUME NEW n \in Nfts, CloseNotOwned(s, n)  PROVE TypeOK'
  <2>. DEFINE r == [scan[s] EXCEPT !.pc = "notes", !.cur = n]
              q == [row[n] EXCEPT !.status = "CLOSED"]
  <2>0. scan[s] \in Scan /\ row[n] \in Row  BY DEF TypeOK
  <2>1. r \in Scan /\ q \in Row
    <3>1. r \in Scan  BY <2>0 DEF Scan
    <3>2. q \in Row  BY <2>0 DEF Row
    <3>. QED  BY <3>1, <3>2
  <2>2. scan' \in [Scanners -> Scan] /\ row' \in [Nfts -> Row]
    <3>1. CASE Known(n)
      <4>1. scan' = [scan EXCEPT ![s] = r] /\ row' = [row EXCEPT ![n] = q]
          BY <1>5, <3>1 DEF CloseNotOwned
      <4>. HIDE DEF r, q
      <4>. QED  BY <2>1, <4>1 DEF TypeOK
    <3>2. CASE ~Known(n)
        BY <1>5, <3>2 DEF CloseNotOwned, TypeOK
    <3>. QED  BY <3>1, <3>2
  <2>3. seen' \in [Scanners -> [Nfts -> Observations]]
      BY <1>5, ConsumeTyped DEF CloseNotOwned
  <2>. QED  BY <1>5, <2>2, <2>3 DEF CloseNotOwned, ScanUnchanged, TypeOK
<1>6. ASSUME NEW n \in Nfts, ReadRow(s, n)  PROVE TypeOK'
  <2>. DEFINE a == (seen[s][n] = "active")
              r == [scan[s] EXCEPT !.pc = "snapshot", !.cur = n, !.active = a, !.gas = row[n].gas]
  <2>1. row[n].gas \in Nat /\ a \in BOOLEAN  BY DEF TypeOK, Row
  <2>2. scan' = [scan EXCEPT ![s] = r]  BY <1>6 DEF ReadRow
  <2>3. scan[s] \in Scan  BY DEF TypeOK
  <2>4. r \in Scan
    <3>. HIDE DEF a
    <3>. QED  BY <2>1, <2>3 DEF Scan
  <2>5. scan' \in [Scanners -> Scan]
    <3>. HIDE DEF r
    <3>. QED  BY <2>2, <2>4 DEF TypeOK
  <2>6. seen' \in [Scanners -> [Nfts -> Observations]]
      BY <1>6, ConsumeTyped DEF ReadRow
  <2>. QED  BY <1>6, <2>5, <2>6 DEF ReadRow, ScanUnchanged, TypeOK
<1>7. CASE MarkNotOwned(s)
  <2>1. scan' \in [Scanners -> Scan] /\ seen' \in [Scanners -> [Nfts -> Observations]]
      BY <1>7, EndRowTyped DEF MarkNotOwned
  <2>2. row' \in [Nfts -> Row]
      BY <1>7 DEF MarkNotOwned, TypeOK, Row
  <2>. QED  BY <1>7, <2>1, <2>2 DEF MarkNotOwned, ScanUnchanged, TypeOK
<1>8. ASSUME NEW complete \in BOOLEAN, ReadPreviousSnapshot(s, complete)  PROVE TypeOK'
  <2>. DEFINE n == scan[s].cur
              b == snap[n].basis \/ complete
              r == [scan[s] EXCEPT !.pc = "upsert", !.final = snap[n].final, !.basis = b]
  <2>1. n \in Nfts  BY <1>8 DEF ReadPreviousSnapshot, LocalsOK
  <2>2. snap[n].final \in BOOLEAN /\ b \in BOOLEAN  BY <2>1 DEF TypeOK, Snapshot
  <2>3. scan' = [scan EXCEPT ![s] = r]  BY <1>8 DEF ReadPreviousSnapshot
  <2>4. scan[s] \in Scan  BY DEF TypeOK
  <2>5. r \in Scan
    <3>. HIDE DEF b, n
    <3>. QED  BY <2>2, <2>4 DEF Scan
  <2>6. scan' \in [Scanners -> Scan]
    <3>. HIDE DEF r
    <3>. QED  BY <2>3, <2>5 DEF TypeOK
  <2>. QED  BY <1>8, <2>6 DEF ReadPreviousSnapshot, ScanUnchanged, TypeOK
<1>9. CASE UpsertRow(s)
  <2>. DEFINE r == [status |-> IF scan[s].active THEN "OPEN" ELSE "CLOSED",
                    stage |-> LiveStage(scan[s].active, scan[s].final), gas |-> scan[s].gas]
              q == [scan[s] EXCEPT !.pc = "save"]
  <2>1. r \in Row  BY DEF TypeOK, Scan, Row, LiveStage
  <2>2. q \in Scan  BY ScanPc DEF TypeOK
  <2>3. row' = [row EXCEPT ![scan[s].cur] = r] /\ scan' = [scan EXCEPT ![s] = q]
      BY <1>9 DEF UpsertRow
  <2>4. row' \in [Nfts -> Row] /\ scan' \in [Scanners -> Scan]
    <3>. HIDE DEF r, q
    <3>. QED  BY <2>1, <2>2, <2>3 DEF TypeOK
  <2>. QED  BY <1>9, <2>4 DEF UpsertRow, ScanUnchanged, TypeOK
<1>10. CASE SaveSnapshot(s)
  <2>. DEFINE r == [saved |-> TRUE, basis |-> scan[s].basis, final |-> scan[s].final]
              q == [scan[s] EXCEPT !.pc = "link"]
  <2>1. r \in Snapshot  BY DEF TypeOK, Scan, Snapshot
  <2>2. q \in Scan  BY ScanPc DEF TypeOK
  <2>3. snap' = [snap EXCEPT ![scan[s].cur] = r] /\ scan' = [scan EXCEPT ![s] = q]
      BY <1>10 DEF SaveSnapshot
  <2>4. snap' \in [Nfts -> Snapshot] /\ scan' \in [Scanners -> Scan]
    <3>. HIDE DEF r, q
    <3>. QED  BY <2>1, <2>2, <2>3 DEF TypeOK
  <2>. QED  BY <1>10, <2>4 DEF SaveSnapshot, ScanUnchanged, TypeOK
<1>11. CASE LinkOpening(s)
  <2>1. scan[s].cur \in Nfts  BY <1>11 DEF LinkOpening, LocalsOK
  <2>2. scan' \in [Scanners -> Scan] /\ seen' \in [Scanners -> [Nfts -> Observations]]
      BY <1>11, EndRowTyped DEF LinkOpening
  <2>. DEFINE n == scan[s].cur
              e == [events[n] EXCEPT !.opening = "linked"]
              g == IF row[n].gas < events[n].receipts + 1 THEN events[n].receipts + 1 ELSE row[n].gas
              r == [row[n] EXCEPT !.gas = g]
  <2>3. e \in Events /\ r \in Row
    <3>1. events[n] \in Events /\ row[n] \in Row  BY <2>1 DEF TypeOK
    <3>2. e \in Events  BY <3>1 DEF Events
    <3>3. g \in Nat  BY <3>1 DEF Events, Row
    <3>4. r \in Row
      <4>. HIDE DEF g
      <4>. QED  BY <3>1, <3>3 DEF Row
    <3>. QED  BY <3>2, <3>4
  <2>4. row' \in [Nfts -> Row] /\ events' \in [Nfts -> Events]
    <3>1. CASE events[n].opening = "none"
        BY <1>11, <3>1 DEF LinkOpening, TypeOK
    <3>2. CASE events[n].opening # "none"
      <4>1. row' = [row EXCEPT ![n] = r] /\ events' = [events EXCEPT ![n] = e]
          BY <1>11, <3>2 DEF LinkOpening
      <4>. HIDE DEF r, e
      <4>. QED  BY <2>3, <4>1 DEF TypeOK
    <3>. QED  BY <3>1, <3>2
  <2>. QED  BY <1>11, <2>2, <2>4 DEF LinkOpening, TypeOK
<1>12. CASE OpeningUnknown(s)
  <2>1. scan' \in [Scanners -> Scan] /\ seen' \in [Scanners -> [Nfts -> Observations]]
      BY <1>12, EndRowTyped DEF OpeningUnknown
  <2>. QED  BY <1>12, <2>1 DEF OpeningUnknown, ScanUnchanged, TypeOK
<1>13. CASE FinishScan(s) \/ FailScan(s)
    BY <1>13, EndScanTyped DEF FinishScan, FailScan
<1>. QED  BY <1>1, <1>2, <1>3, <1>4, <1>5, <1>6, <1>7, <1>8, <1>9, <1>10, <1>11,
             <1>12, <1>13 DEF ScanStep

(* Moving the program counter keeps a request record well typed.           *)
LEMMA PostPc ==
    ASSUME NEW r \in Post,
           NEW pc \in {"new", "event", "gas", "read", "sum", "freeze", "attach", "done"}
    PROVE  [r EXCEPT !.pc = pc] \in Post
  BY DEF Post

(* A step of a request that only moves on.                                 *)
LEMMA PostPcTyped ==
    ASSUME TypeOK, NEW p \in Posts,
           NEW pc \in {"new", "event", "gas", "read", "sum", "freeze", "attach", "done"},
           post' = [post EXCEPT ![p].pc = pc]
    PROVE  post' \in [Posts -> Post]
<1>. DEFINE r == [post[p] EXCEPT !.pc = pc]
<1>1. r \in Post  BY PostPc DEF TypeOK
<1>2. post' = [post EXCEPT ![p] = r]  OBVIOUS
<1>. HIDE DEF r
<1>. QED  BY <1>1, <1>2 DEF TypeOK

(* The summed gas of an NFT is a natural number.                           *)
LEMMA EventGasTyped == ASSUME TypeOK, NEW n \in Nfts PROVE EventGas(n) \in Nat
<1>1. events[n] \in Events  BY DEF TypeOK
<1>. QED  BY <1>1 DEF EventGas, Events

(* The row finalize_closed_position writes.                                *)
LEMMA FrozenTyped == ASSUME NEW g \in Nat PROVE Frozen(g) \in Row
  BY DEF Frozen, Row

(* The snapshot that carries closed_final.                                 *)
LEMMA WithFinalTyped == WithFinal \in Snapshot
  BY DEF WithFinal, Snapshot

(* Counting one confirmed receipt.                                         *)
LEMMA WithReceiptTyped ==
    ASSUME NEW e \in Events, NEW kind  PROVE WithReceipt(e, kind) \in Events
<1>. DEFINE k == e.receipts + 1
            c == IF kind = "CLOSE_POSITION" THEN e.closes + 1 ELSE e.closes
<1>1. k \in Nat /\ c \in Nat  BY DEF Events
<1>2. WithReceipt(e, kind) = [e EXCEPT !.receipts = k, !.closes = c]  BY DEF WithReceipt
<1>. HIDE DEF k, c
<1>. QED  BY <1>1, <1>2 DEF Events

(* Every step of a receipt request keeps the types.                        *)
LEMMA ReceiptTyped ==
    ASSUME TypeOK, LocalsOK, NEW p \in Posts, NewPost(p) \/ PostStep(p)
    PROVE  TypeOK'
<1>1. ASSUME NEW n \in Nfts, PostOpening(p, n)  PROVE TypeOK'
  <2>. DEFINE e == [events[n] EXCEPT !.opening = "loose"]
              r == [post[p] EXCEPT !.pc = "done", !.kind = "OPEN_POSITION"]
  <2>1. events[n] \in Events /\ post[p] \in Post  BY DEF TypeOK
  <2>2. e \in Events  BY <2>1 DEF Events
  <2>3. r \in Post  BY <2>1 DEF Post
  <2>4. events' = [events EXCEPT ![n] = e] /\ post' = [post EXCEPT ![p] = r]
      BY <1>1 DEF PostOpening
  <2>5. events' \in [Nfts -> Events] /\ post' \in [Posts -> Post]
    <3>. HIDE DEF e, r
    <3>. QED  BY <2>2, <2>3, <2>4 DEF TypeOK
  <2>. QED  BY <1>1, <2>5 DEF PostOpening, PostUnchanged, TypeOK
<1>2. ASSUME NEW n \in Nfts, NEW kind \in {"COLLECT_FEES", "CLOSE_POSITION"},
             NEW confirmed \in BOOLEAN, BeginPost(p, n, kind, confirmed)
      PROVE  TypeOK'
  <2>. DEFINE r == [pc |-> "event", kind |-> kind, nft |-> n, confirmed |-> confirmed,
                    known |-> snap[n].saved, gas |-> 0]
  <2>1. snap[n] \in Snapshot  BY DEF TypeOK
  <2>2. r \in Post  BY <2>1 DEF Snapshot, Post
  <2>3. post' = [post EXCEPT ![p] = r]  BY <1>2 DEF BeginPost
  <2>4. post' \in [Posts -> Post]
    <3>. HIDE DEF r
    <3>. QED  BY <2>2, <2>3 DEF TypeOK
  <2>. QED  BY <1>2, <2>4 DEF BeginPost, PostUnchanged, TypeOK
<1>3. CASE RecordEvent(p)
  <2>. DEFINE n == post[p].nft
              e == WithReceipt(events[n], post[p].kind)
  <2>1. post' \in [Posts -> Post]
    <3>1. PICK pc \in {"gas", "done"} : post' = [post EXCEPT ![p].pc = pc]
        BY <1>3 DEF RecordEvent
    <3>. QED  BY <3>1, PostPcTyped
  <2>2. n \in Nfts  BY <1>3 DEF RecordEvent, LocalsOK
  <2>3. e \in Events
    <3>1. events[n] \in Events  BY <2>2 DEF TypeOK
    <3>. HIDE DEF n
    <3>. QED  BY <3>1, WithReceiptTyped
  <2>4. events' \in [Nfts -> Events]
    <3>1. CASE post[p].confirmed
      <4>1. events' = [events EXCEPT ![n] = e]  BY <1>3, <3>1 DEF RecordEvent
      <4>. HIDE DEF e
      <4>. QED  BY <2>3, <4>1 DEF TypeOK
    <3>2. CASE ~post[p].confirmed
        BY <1>3, <3>2 DEF RecordEvent, TypeOK
    <3>. QED  BY <3>1, <3>2
  <2>. QED  BY <1>3, <2>1, <2>4 DEF RecordEvent, PostUnchanged, TypeOK
<1>4. CASE AddGas(p)
  <2>. DEFINE n == post[p].nft
              q == [row[n] EXCEPT !.gas = @ + 1]
  <2>1. post' \in [Posts -> Post]
    <3>1. PICK pc \in {"read", "done"} : post' = [post EXCEPT ![p].pc = pc]
        BY <1>4 DEF AddGas
    <3>. QED  BY <3>1, PostPcTyped
  <2>2. n \in Nfts  BY <1>4 DEF AddGas, LocalsOK
  <2>3. q \in Row
    <3>1. row[n] \in Row  BY <2>2 DEF TypeOK
    <3>. HIDE DEF n
    <3>. QED  BY <3>1 DEF Row
  <2>4. row' = [row EXCEPT ![n] = q]  BY <1>4 DEF AddGas
  <2>5. row' \in [Nfts -> Row]
    <3>. HIDE DEF q
    <3>. QED  BY <2>3, <2>4 DEF TypeOK
  <2>. QED  BY <1>4, <2>1, <2>5 DEF AddGas, PostUnchanged, TypeOK
<1>5. CASE ReadForClose(p)
  <2>1. PICK pc \in {"sum", "done"} : post' = [post EXCEPT ![p].pc = pc]
      BY <1>5 DEF ReadForClose
  <2>2. post' \in [Posts -> Post]  BY <2>1, PostPcTyped
  <2>. QED  BY <1>5, <2>2 DEF ReadForClose, PostUnchanged, TypeOK
<1>6. CASE SumEvents(p)
  <2>. DEFINE n == post[p].nft
              pc == IF events[n].closes > 0 /\ n \in Priced THEN "freeze" ELSE "done"
              r == [post[p] EXCEPT !.pc = pc, !.gas = EventGas(n)]
  <2>1. EventGas(n) \in Nat  BY <1>6, EventGasTyped DEF SumEvents, LocalsOK
  <2>2. post[p] \in Post  BY DEF TypeOK
  <2>3. pc \in {"freeze", "done"}  OBVIOUS
  <2>4. post' = [post EXCEPT ![p] = r]  BY <1>6 DEF SumEvents
  <2>5. r \in Post
    <3>. HIDE DEF n, pc
    <3>. QED  BY <2>1, <2>2, <2>3 DEF Post
  <2>6. post' \in [Posts -> Post]
    <3>. HIDE DEF r
    <3>. QED  BY <2>4, <2>5 DEF TypeOK
  <2>. QED  BY <1>6, <2>6 DEF SumEvents, PostUnchanged, TypeOK
<1>7. CASE FreezeRow(p)
  <2>1. post' \in [Posts -> Post]  BY <1>7, PostPcTyped DEF FreezeRow
  <2>2. post[p].gas \in Nat  BY DEF TypeOK, Post
  <2>3. row' \in [Nfts -> Row]  BY <1>7, <2>2, FrozenTyped DEF FreezeRow, TypeOK
  <2>. QED  BY <1>7, <2>1, <2>3 DEF FreezeRow, PostUnchanged, TypeOK
<1>8. CASE AttachFinal(p)
  <2>1. post' \in [Posts -> Post]  BY <1>8, PostPcTyped DEF AttachFinal
  <2>2. snap' \in [Nfts -> Snapshot]  BY <1>8, WithFinalTyped DEF AttachFinal, TypeOK
  <2>. QED  BY <1>8, <2>1, <2>2 DEF AttachFinal, PostUnchanged, TypeOK
<1>. QED  BY <1>1, <1>2, <1>3, <1>4, <1>5, <1>6, <1>7, <1>8 DEF NewPost, PostStep

(* So do the chain, a crash and the startup repair.                        *)
LEMMA RestTyped ==
    ASSUME TypeOK, ChainNext \/ Crash \/ Restart \/ RepairStep
    PROVE  TypeOK'
<1>. USE CrashAssumption
<1>1. CASE ChainNext
    BY <1>1 DEF ChainNext, Mint, Drain, Refill, TransferOut, ChainUnchanged, TypeOK, ChainStates
<1>2. CASE Crash
  <2>1. scan' \in [Scanners -> Scan]  BY <1>2, IdleTyped DEF Crash
  <2>2. seen' \in [Scanners -> [Nfts -> Observations]]  BY <1>2, NothingSeenTyped DEF Crash
  <2>3. post' \in [Posts -> Post]
    <3>. DEFINE r(p) == [post[p] EXCEPT !.pc = IF post[p].pc = "new" THEN "new" ELSE "done"]
    <3>1. \A p \in Posts : r(p) \in Post  BY PostPc DEF TypeOK
    <3>2. post' = [p \in Posts |-> r(p)]  BY <1>2 DEF Crash
    <3>. HIDE DEF r
    <3>. QED  BY <3>1, <3>2
  <2>4. crashes' \in 0..MaxCrashes  BY <1>2 DEF Crash, TypeOK
  <2>. QED  BY <1>2, <2>1, <2>2, <2>3, <2>4 DEF Crash, NoRepair, TypeOK
<1>3. CASE Restart
    BY <1>3 DEF Restart, NoRepair, StoreUnchanged, TypeOK
<1>4. ASSUME NEW n \in Nfts, RepairSkip(n)  PROVE TypeOK'
    BY <1>4 DEF RepairSkip, StoreUnchanged, TypeOK
<1>5. ASSUME NEW n \in Nfts, RepairFreeze(n)  PROVE TypeOK'
  <2>1. row' \in [Nfts -> Row]
      BY <1>5, EventGasTyped, FrozenTyped DEF RepairFreeze, TypeOK
  <2>. QED  BY <1>5, <2>1 DEF RepairFreeze, StoreUnchanged, TypeOK
<1>6. CASE RepairAttach
  <2>1. snap' \in [Nfts -> Snapshot]  BY <1>6, WithFinalTyped DEF RepairAttach, TypeOK
  <2>. QED  BY <1>6, <2>1 DEF RepairAttach, StoreUnchanged, TypeOK
<1>7. CASE Serve
    BY <1>7 DEF Serve, StoreUnchanged, TypeOK
<1>. QED  BY <1>1, <1>2, <1>3, <1>4, <1>5, <1>6, <1>7 DEF RepairStep

(* A scanner between a read and the last write of a row knows its NFT.     *)
LEMMA ScanLocals ==
    ASSUME TypeOK, LocalsOK, NEW s \in Scanners, ScanStep(s) \/ BeginRefresh(s) \/ BeginImport(s)
    PROVE  LocalsOK'
<1>. DEFINE Ready(r) == r.pc \notin {"idle", "rows"} => r.cur \in Nfts
<1>0. \A t \in Scanners : scan[t] \in Scan /\ Ready(scan[t])  BY DEF TypeOK, LocalsOK
<1>1. post' = post
    BY DEF ScanStep, BeginRefresh, BeginImport, Observe, ObserveError, ObserveAs, SkipErrorRow,
           CloseNotOwned, ReadRow, MarkNotOwned, ReadPreviousSnapshot, UpsertRow, SaveSnapshot,
           LinkOpening, OpeningUnknown, FinishScan, FailScan, EndScan, ScanUnchanged
<1>2. \/ UNCHANGED scan
      \/ \E r : scan' = [scan EXCEPT ![s] = r] /\ Ready(r)
  <2>1. CASE BeginRefresh(s) \/ BeginImport(s)
    <3>1. scan' = [scan EXCEPT ![s] = [scan[s] EXCEPT !.pc = "rows"]]
        BY <2>1 DEF BeginRefresh, BeginImport, BeginScan
    <3>2. Ready([scan[s] EXCEPT !.pc = "rows"])  BY <1>0 DEF Scan
    <3>. QED  BY <3>1, <3>2
  <2>2. CASE \E n \in Nfts : Observe(s, n) \/ ObserveError(s, n) \/ SkipErrorRow(s, n)
      BY <2>2 DEF Observe, ObserveError, ObserveAs, SkipErrorRow
  <2>3. ASSUME NEW n \in Nfts, CloseNotOwned(s, n) \/ ReadRow(s, n)
        PROVE  \/ UNCHANGED scan
               \/ \E r : scan' = [scan EXCEPT ![s] = r] /\ Ready(r)
    <3>. DEFINE a == (seen[s][n] = "active")
                c == [scan[s] EXCEPT !.pc = "notes", !.cur = n]
                r == [scan[s] EXCEPT !.pc = "snapshot", !.cur = n, !.active = a, !.gas = row[n].gas]
    <3>1. Ready(c) /\ Ready(r)
      <4>. HIDE DEF a
      <4>. QED  BY <1>0 DEF Scan
    <3>2. UNCHANGED scan \/ scan' = [scan EXCEPT ![s] = c] \/ scan' = [scan EXCEPT ![s] = r]
        BY <2>3 DEF CloseNotOwned, ReadRow
    <3>. HIDE DEF a, c, r, Ready
    <3>. QED  BY <3>1, <3>2
  <2>4. ASSUME NEW complete \in BOOLEAN, ReadPreviousSnapshot(s, complete)
        PROVE  \E r : scan' = [scan EXCEPT ![s] = r] /\ Ready(r)
    <3>. DEFINE f == snap[scan[s].cur].final
                b == snap[scan[s].cur].basis \/ complete
                r == [scan[s] EXCEPT !.pc = "upsert", !.final = f, !.basis = b]
    <3>1. Ready(r)
      <4>1. scan[s].cur \in Nfts  BY <1>0, <2>4 DEF ReadPreviousSnapshot
      <4>. HIDE DEF f, b
      <4>. QED  BY <1>0, <4>1 DEF Scan
    <3>2. scan' = [scan EXCEPT ![s] = r]  BY <2>4 DEF ReadPreviousSnapshot
    <3>. HIDE DEF r, Ready
    <3>. QED  BY <3>1, <3>2
  <2>5. CASE UpsertRow(s) \/ SaveSnapshot(s)
    <3>1. PICK pc \in {"save", "link"} : scan' = [scan EXCEPT ![s] = [scan[s] EXCEPT !.pc = pc]]
        BY <2>5 DEF UpsertRow, SaveSnapshot
    <3>2. Ready([scan[s] EXCEPT !.pc = pc])
        BY <1>0, <2>5 DEF UpsertRow, SaveSnapshot, Scan
    <3>. QED  BY <3>1, <3>2
  <2>6. CASE MarkNotOwned(s) \/ LinkOpening(s) \/ OpeningUnknown(s)
    <3>1. scan' = [scan EXCEPT ![s] = [Idle EXCEPT !.pc = "rows"]]
        BY <2>6 DEF MarkNotOwned, LinkOpening, OpeningUnknown, EndRow
    <3>2. Ready([Idle EXCEPT !.pc = "rows"])  BY DEF Idle
    <3>. QED  BY <3>1, <3>2
  <2>7. CASE FinishScan(s) \/ FailScan(s)
    <3>1. scan' = [scan EXCEPT ![s] = Idle]
        BY <2>7 DEF FinishScan, FailScan, EndScan
    <3>2. Ready(Idle)  BY DEF Idle
    <3>. QED  BY <3>1, <3>2
  <2>. QED  BY <2>1, <2>2, <2>3, <2>4, <2>5, <2>6, <2>7 DEF ScanStep
<1>3. \A t \in Scanners : Ready(scan'[t])
  <2>. HIDE DEF Ready
  <2>. QED  BY <1>0, <1>2 DEF TypeOK
<1>. QED  BY <1>1, <1>3 DEF LocalsOK

(* A request past its first read knows its NFT.                            *)
LEMMA RestLocals ==
    ASSUME TypeOK, LocalsOK,
           \/ ChainNext \/ Crash \/ Restart \/ RepairStep
           \/ \E p \in Posts : NewPost(p) \/ PostStep(p)
    PROVE  LocalsOK'
<1>. DEFINE Ready(r) == r.pc \notin {"new", "done"} => r.nft \in Nfts
<1>0. \A p \in Posts : post[p] \in Post /\ Ready(post[p])  BY DEF TypeOK, LocalsOK
<1>1. CASE Crash
  <2>1. \A s \in Scanners : scan'[s].pc = "idle"  BY <1>1 DEF Crash, Idle
  <2>2. \A p \in Posts : post'[p].pc \in {"new", "done"}  BY <1>0, <1>1 DEF Crash, Post
  <2>. QED  BY <2>1, <2>2 DEF LocalsOK
<1>2. CASE ChainNext \/ Restart \/ RepairStep
    BY <1>2 DEF ChainNext, Mint, Drain, Refill, TransferOut, ChainUnchanged, Restart, RepairStep, RepairSkip,
                RepairFreeze, RepairAttach, Serve, StoreUnchanged, LocalsOK
<1>3. ASSUME NEW p \in Posts, NewPost(p) \/ PostStep(p)  PROVE LocalsOK'
  <2>1. UNCHANGED scan
      BY <1>3 DEF NewPost, PostOpening, BeginPost, PostStep, RecordEvent, AddGas, ReadForClose, SumEvents,
                  FreezeRow, AttachFinal, PostUnchanged
  <2>2. \E r : post' = [post EXCEPT ![p] = r] /\ Ready(r)
    <3>1. ASSUME NEW n \in Nfts, PostOpening(p, n)
          PROVE  \E r : post' = [post EXCEPT ![p] = r] /\ Ready(r)
      <4>. DEFINE r == [post[p] EXCEPT !.pc = "done", !.kind = "OPEN_POSITION"]
      <4>1. Ready(r)  BY <1>0 DEF Post
      <4>2. post' = [post EXCEPT ![p] = r]  BY <3>1 DEF PostOpening
      <4>. HIDE DEF r, Ready
      <4>. QED  BY <4>1, <4>2
    <3>2. ASSUME NEW n \in Nfts, NEW kind, NEW confirmed, BeginPost(p, n, kind, confirmed)
          PROVE  \E r : post' = [post EXCEPT ![p] = r] /\ Ready(r)
      <4>. DEFINE r == [pc |-> "event", kind |-> kind, nft |-> n, confirmed |-> confirmed,
                        known |-> snap[n].saved, gas |-> 0]
      <4>1. Ready(r)  OBVIOUS
      <4>2. post' = [post EXCEPT ![p] = r]  BY <3>2 DEF BeginPost
      <4>. HIDE DEF r, Ready
      <4>. QED  BY <4>1, <4>2
    <3>3. ASSUME SumEvents(p)
          PROVE  \E r : post' = [post EXCEPT ![p] = r] /\ Ready(r)
      <4>. DEFINE n == post[p].nft
                  pc == IF events[n].closes > 0 /\ n \in Priced THEN "freeze" ELSE "done"
                  g == EventGas(n)
                  r == [post[p] EXCEPT !.pc = pc, !.gas = g]
      <4>1. n \in Nfts  BY <1>0, <3>3 DEF SumEvents
      <4>2. Ready(r)
        <5>. HIDE DEF pc, g
        <5>. QED  BY <1>0, <4>1 DEF Post
      <4>3. post' = [post EXCEPT ![p] = r]  BY <3>3 DEF SumEvents
      <4>. HIDE DEF r, Ready
      <4>. QED  BY <4>2, <4>3
    <3>4. CASE RecordEvent(p) \/ AddGas(p) \/ ReadForClose(p) \/ FreezeRow(p) \/ AttachFinal(p)
      <4>1. PICK pc : post' = [post EXCEPT ![p] = [post[p] EXCEPT !.pc = pc]]
          BY <3>4 DEF RecordEvent, AddGas, ReadForClose, FreezeRow, AttachFinal
      <4>2. post[p].pc \notin {"new", "done"}
          BY <3>4 DEF RecordEvent, AddGas, ReadForClose, FreezeRow, AttachFinal
      <4>3. Ready([post[p] EXCEPT !.pc = pc])  BY <1>0, <4>2 DEF Post
      <4>. QED  BY <4>1, <4>3
    <3>. QED  BY <1>3, <3>1, <3>2, <3>3, <3>4 DEF NewPost, PostStep
  <2>3. \A q \in Posts : Ready(post'[q])
    <3>. HIDE DEF Ready
    <3>. QED  BY <1>0, <2>2 DEF TypeOK
  <2>. QED  BY <2>1, <2>3 DEF LocalsOK
<1>. QED  BY <1>1, <1>2, <1>3

(* The typing invariant is inductive.                                      *)
LEMMA NextTyped ==
    ASSUME TypeOK, LocalsOK, [Next]_vars
    PROVE  TypeOK' /\ LocalsOK'
<1>1. CASE UNCHANGED vars
    BY <1>1 DEF vars, TypeOK, LocalsOK
<1>2. CASE Next
    BY <1>2, ScanTyped, ReceiptTyped, RestTyped, ScanLocals, RestLocals DEF Next
<1>. QED  BY <1>1, <1>2

(* It holds initially.                                                     *)
LEMMA InitTyped == Init => TypeOK /\ LocalsOK
<1>. SUFFICES ASSUME Init PROVE TypeOK /\ LocalsOK  OBVIOUS
<1>1. scan \in [Scanners -> Scan] /\ seen \in [Scanners -> [Nfts -> Observations]]
    BY IdleTyped, NothingSeenTyped DEF Init
<1>2. post \in [Posts -> Post]
  <2>1. Unsent \in Post  BY DEF Unsent, Post
  <2>. QED  BY <2>1 DEF Init
<1>3. row \in [Nfts -> Row] /\ snap \in [Nfts -> Snapshot] /\ events \in [Nfts -> Events]
    BY DEF Init, Row, Snapshot, Events
<1>4. TypeOK
    BY <1>1, <1>2, <1>3, CrashAssumption DEF Init, TypeOK, ChainStates, NoRepair
<1>5. LocalsOK
    BY DEF Init, LocalsOK, Idle, Unsent
<1>. QED  BY <1>4, <1>5

(* Every reachable state is well typed, whatever the NFTs, threads and     *)
(* receipts.                                                               *)
THEOREM TypeCorrect == Spec => []TypeOK
<1>1. Init => TypeOK /\ LocalsOK  BY InitTyped
<1>2. TypeOK /\ LocalsOK /\ [Next]_vars => TypeOK' /\ LocalsOK'  BY NextTyped
<1>. QED  BY <1>1, <1>2, PTL DEF Spec

--------------------------------------------------------------------------------
(* What a step of a scanner does to its locals, and to the others'.        *)
OtherScansKept(s) == \A t \in Scanners : t # s => scan'[t] = scan[t]

(* What assigning one scanner's record does to the others: nothing.        *)
LEMMA ScanSet ==
    ASSUME TypeOK, NEW s \in Scanners, NEW r, scan' = [scan EXCEPT ![s] = r]
    PROVE  scan'[s] = r /\ OtherScansKept(s)
  BY DEF TypeOK, OtherScansKept

(* The locals after ReadRow.                                               *)
LEMMA ReadRowLocals ==
    ASSUME TypeOK, NEW s \in Scanners, NEW n \in Nfts, ReadRow(s, n)
    PROVE  /\ OtherScansKept(s)
           /\ scan[s].pc = "rows" /\ scan'[s].pc = "snapshot"
           /\ scan'[s].cur = n /\ scan'[s].final = scan[s].final
           /\ scan'[s].active = (seen[s][n] = "active")
<1>. DEFINE a == (seen[s][n] = "active")
            r == [scan[s] EXCEPT !.pc = "snapshot", !.cur = n, !.active = a, !.gas = row[n].gas]
<1>1. scan[s] \in Scan /\ scan[s].pc = "rows" /\ scan' = [scan EXCEPT ![s] = r]
    BY DEF ReadRow, TypeOK
<1>2. r.pc = "snapshot" /\ r.cur = n /\ r.final = scan[s].final /\ r.active = a
  <2>. HIDE DEF a
  <2>. QED  BY <1>1 DEF Scan
<1>. HIDE DEF r
<1>. QED  BY <1>1, <1>2, ScanSet

(* The locals after CloseNotOwned.                                         *)
LEMMA CloseNotOwnedLocals ==
    ASSUME TypeOK, NEW s \in Scanners, NEW n \in Nfts, CloseNotOwned(s, n)
    PROVE  /\ OtherScansKept(s)
           /\ scan[s].pc = "rows"
           /\ \/ scan'[s] = scan[s]
              \/ /\ scan'[s].pc = "notes" /\ scan'[s].cur = n /\ scan'[s].final = scan[s].final
<1>. DEFINE r == [scan[s] EXCEPT !.pc = "notes", !.cur = n]
<1>1. scan[s] \in Scan /\ scan[s].pc = "rows" /\ (scan' = scan \/ scan' = [scan EXCEPT ![s] = r])
    BY DEF CloseNotOwned, TypeOK
<1>2. r.pc = "notes" /\ r.cur = n /\ r.final = scan[s].final  BY <1>1 DEF Scan
<1>. HIDE DEF r
<1>. QED  BY <1>1, <1>2, ScanSet DEF OtherScansKept

(* The locals after ReadPreviousSnapshot.                                  *)
LEMMA ReadPreviousLocals ==
    ASSUME TypeOK, NEW s \in Scanners, NEW complete \in BOOLEAN, ReadPreviousSnapshot(s, complete)
    PROVE  /\ OtherScansKept(s)
           /\ scan[s].pc = "snapshot" /\ scan'[s].pc = "upsert"
           /\ scan'[s].cur = scan[s].cur /\ scan'[s].active = scan[s].active
           /\ scan'[s].final = snap[scan[s].cur].final
<1>. DEFINE f == snap[scan[s].cur].final
            b == snap[scan[s].cur].basis \/ complete
            r == [scan[s] EXCEPT !.pc = "upsert", !.final = f, !.basis = b]
<1>1. scan[s] \in Scan /\ scan[s].pc = "snapshot" /\ scan' = [scan EXCEPT ![s] = r]
    BY DEF ReadPreviousSnapshot, TypeOK
<1>2. r.pc = "upsert" /\ r.cur = scan[s].cur /\ r.active = scan[s].active /\ r.final = f
  <2>. HIDE DEF f, b
  <2>. QED  BY <1>1 DEF Scan
<1>. HIDE DEF r
<1>. QED  BY <1>1, <1>2, ScanSet

(* The locals after a step that only moves the program counter.            *)
LEMMA PcOnlyLocals ==
    ASSUME TypeOK, NEW s \in Scanners, NEW pc, scan' = [scan EXCEPT ![s].pc = pc]
    PROVE  /\ OtherScansKept(s)
           /\ scan'[s].pc = pc /\ scan'[s].cur = scan[s].cur
           /\ scan'[s].active = scan[s].active /\ scan'[s].final = scan[s].final
<1>. DEFINE r == [scan[s] EXCEPT !.pc = pc]
<1>1. scan[s] \in Scan /\ scan' = [scan EXCEPT ![s] = r]  BY DEF TypeOK
<1>2. r.pc = pc /\ r.cur = scan[s].cur /\ r.active = scan[s].active /\ r.final = scan[s].final
    BY <1>1 DEF Scan
<1>. HIDE DEF r
<1>. QED  BY <1>1, <1>2, ScanSet

(* The locals after a row.                                                 *)
LEMMA EndRowLocals ==
    ASSUME TypeOK, NEW s \in Scanners, EndRow(s)
    PROVE  /\ OtherScansKept(s)
           /\ scan'[s].pc = "rows" /\ scan'[s].cur = None /\ ~scan'[s].active /\ ~scan'[s].final
<1>1. scan' = [scan EXCEPT ![s] = [Idle EXCEPT !.pc = "rows"]]  BY DEF EndRow
<1>2. scan'[s] = [Idle EXCEPT !.pc = "rows"] /\ OtherScansKept(s)  BY <1>1, ScanSet
<1>. QED  BY <1>2 DEF Idle

(* The locals after a pass.                                                *)
LEMMA EndScanLocals ==
    ASSUME TypeOK, NEW s \in Scanners, EndScan(s)
    PROVE  /\ OtherScansKept(s)
           /\ scan'[s].pc = "idle" /\ scan'[s].cur = None /\ ~scan'[s].active /\ ~scan'[s].final
<1>1. scan' = [scan EXCEPT ![s] = Idle]  BY DEF EndScan
<1>2. scan'[s] = Idle /\ OtherScansKept(s)  BY <1>1, ScanSet
<1>. QED  BY <1>2 DEF Idle

(***************************************************************************)
(* FinalMeansDrained is not inductive: a stale scan writes the final flag  *)
(* it read earlier, a request freezes a row some steps after it counted    *)
(* the close events, the repair likewise.  Evidence adds that each flag or *)
(* intention in flight is backed by a recorded close receipt.              *)
(***************************************************************************)
Drained(n) == Spent(n) \/ n \in leftover
Receipted(n) == events[n].closes > 0

ScanBacked(s) ==
    /\ scan[s].final => scan[s].cur \in Nfts /\ Receipted(scan[s].cur)
    /\ scan[s].pc \in {"idle", "rows"} => ~scan[s].final
PostBacked(p) ==
    /\ post[p].pc = "event" /\ post[p].kind = "CLOSE_POSITION" /\ post[p].confirmed =>
          Drained(post[p].nft)
    /\ post[p].pc \in {"freeze", "attach"} => Receipted(post[p].nft)

Evidence ==
    /\ \A n \in Nfts : Receipted(n) => Drained(n)
    /\ \A n \in Nfts : IsFinal(n) => Receipted(n)
    /\ \A s \in Scanners : ScanBacked(s)
    /\ \A p \in Posts : PostBacked(p)
    /\ repair.cur # None => Receipted(repair.cur)

ScanFrame ==
    /\ UNCHANGED <<chain, post, repair, leftover>>
    /\ \A n \in Nfts : events'[n].closes = events[n].closes

(* What is left to show of a scanner's step: its own record stays backed,  *)
(* and the final accounting it writes was receipted before.                *)
LEMMA ScanLeavesEvidence ==
    ASSUME TypeOK, LocalsOK, Evidence, NEW s \in Scanners, ScanFrame, OtherScansKept(s), ScanBacked(s)',
           \A n \in Nfts : IsFinal(n)' => Receipted(n)
    PROVE  Evidence'
<1>1. \A n \in Nfts : Receipted(n)' <=> Receipted(n)  BY DEF ScanFrame, Receipted
<1>2. \A n \in Nfts : Receipted(n)' => Drained(n)'  BY <1>1 DEF Evidence, ScanFrame, Drained, Spent
<1>3. \A n \in Nfts : IsFinal(n)' => Receipted(n)'  BY <1>1
<1>4. \A t \in Scanners : ScanBacked(t)'
  <2>1. SUFFICES ASSUME NEW t \in Scanners, t # s  PROVE ScanBacked(t)'  OBVIOUS
  <2>2. scan'[t] = scan[t] /\ ScanBacked(t)  BY <2>1 DEF OtherScansKept, Evidence
  <2>. QED  BY <1>1, <2>2 DEF ScanBacked
<1>5. \A p \in Posts : PostBacked(p)'
  <2>1. SUFFICES ASSUME NEW p \in Posts  PROVE PostBacked(p)'  OBVIOUS
  <2>2. post' = post /\ chain' = chain /\ leftover' = leftover /\ PostBacked(p)
      BY DEF ScanFrame, Evidence
  <2>3. post[p].pc \in {"freeze", "attach"} => post[p].nft \in Nfts  BY DEF LocalsOK
  <2>. QED  BY <1>1, <2>2, <2>3 DEF PostBacked, Drained, Spent
<1>6. repair'.cur # None => Receipted(repair.cur)'
  <2>1. repair' = repair /\ repair.cur \in Nfts \cup {None}  BY DEF ScanFrame, TypeOK
  <2>. QED  BY <1>1, <2>1 DEF Evidence
<1>. QED  BY <1>2, <1>3, <1>4, <1>5, <1>6 DEF Evidence

(* No step of a scanner breaks the evidence invariant.                     *)
LEMMA ScanKeepsEvidence ==
    ASSUME TypeOK, LocalsOK, Evidence, NEW s \in Scanners,
           ScanStep(s) \/ BeginRefresh(s) \/ BeginImport(s)
    PROVE  Evidence'
<1>0. /\ ScanBacked(s) /\ scan[s] \in Scan
      /\ scan[s].pc \notin {"idle", "rows"} => scan[s].cur \in Nfts
      /\ \A n \in Nfts : /\ row[n] \in Row /\ snap[n] \in Snapshot /\ events[n] \in Events
                         /\ IsFinal(n) => Receipted(n)
    BY DEF Evidence, TypeOK, LocalsOK
<1>1. ASSUME ScanFrame, UNCHANGED <<row, snap>>  PROVE \A n \in Nfts : IsFinal(n)' => Receipted(n)
    BY <1>0, <1>1 DEF IsFinal
<1>2. CASE BeginRefresh(s) \/ BeginImport(s)
  <2>1. scan' = [scan EXCEPT ![s].pc = "rows"] /\ scan[s].pc = "idle" /\ UNCHANGED <<row, snap, events>>
      BY <1>2 DEF BeginRefresh, BeginImport, BeginScan, ScanUnchanged
  <2>2. ScanFrame  BY <1>2 DEF BeginRefresh, BeginImport, ScanUnchanged, ScanFrame
  <2>3. ScanBacked(s)' /\ OtherScansKept(s)  BY <1>0, <2>1, PcOnlyLocals DEF ScanBacked
  <2>. QED  BY <1>1, <2>1, <2>2, <2>3, ScanLeavesEvidence
<1>3. ASSUME NEW n \in Nfts, Observe(s, n) \/ ObserveError(s, n) \/ SkipErrorRow(s, n)
      PROVE  Evidence'
  <2>1. UNCHANGED <<chain, row, snap, events, scan, post, repair, leftover>>
      BY <1>3 DEF Observe, ObserveError, ObserveAs, SkipErrorRow, ScanUnchanged
  <2>2. ScanFrame /\ OtherScansKept(s) /\ ScanBacked(s)'
      BY <1>0, <2>1 DEF ScanFrame, OtherScansKept, ScanBacked, Receipted
  <2>. QED  BY <1>1, <2>1, <2>2, ScanLeavesEvidence
<1>4. ASSUME NEW n \in Nfts, CloseNotOwned(s, n)  PROVE Evidence'
  <2>1. ScanFrame /\ UNCHANGED <<events, snap>>
      BY <1>4 DEF CloseNotOwned, ScanUnchanged, ScanFrame
  <2>2. \A m \in Nfts : row'[m].stage = row[m].stage
    <3>1. row' = row \/ row' = [row EXCEPT ![n].status = "CLOSED"]  BY <1>4 DEF CloseNotOwned
    <3>2. [row[n] EXCEPT !.status = "CLOSED"].stage = row[n].stage  BY <1>0 DEF Row
    <3>. QED  BY <3>1, <3>2 DEF TypeOK
  <2>3. ScanBacked(s)' /\ OtherScansKept(s)
      BY <1>0, <1>4, <2>1, CloseNotOwnedLocals DEF ScanBacked, Receipted
  <2>. QED  BY <1>0, <2>1, <2>2, <2>3, ScanLeavesEvidence DEF IsFinal
<1>5. ASSUME NEW n \in Nfts, ReadRow(s, n)  PROVE Evidence'
  <2>1. ScanFrame /\ UNCHANGED <<row, events, snap>>
      BY <1>5 DEF ReadRow, ScanUnchanged, ScanFrame
  <2>2. ScanBacked(s)' /\ OtherScansKept(s)
      BY <1>0, <1>5, <2>1, ReadRowLocals DEF ScanBacked, Receipted
  <2>. QED  BY <1>1, <2>1, <2>2, ScanLeavesEvidence
<1>6. CASE MarkNotOwned(s)
  <2>1. ScanFrame /\ UNCHANGED <<events, snap>>
      BY <1>6 DEF MarkNotOwned, ScanUnchanged, ScanFrame
  <2>2. \A m \in Nfts : row'[m].stage = "CLOSED_FINAL" => row[m].stage = "CLOSED_FINAL"
      BY <1>6 DEF MarkNotOwned, TypeOK, Row
  <2>3. ScanBacked(s)' /\ OtherScansKept(s)
      BY <1>6, EndRowLocals DEF MarkNotOwned, ScanBacked
  <2>. QED  BY <1>0, <2>1, <2>2, <2>3, ScanLeavesEvidence DEF IsFinal
<1>7. ASSUME NEW complete \in BOOLEAN, ReadPreviousSnapshot(s, complete)  PROVE Evidence'
  <2>1. ScanFrame /\ UNCHANGED <<row, events, snap>>
      BY <1>7 DEF ReadPreviousSnapshot, ScanUnchanged, ScanFrame
  <2>2. ScanBacked(s)' /\ OtherScansKept(s)
    <3>1. scan'[s].pc = "upsert" /\ scan'[s].cur = scan[s].cur /\ scan[s].cur \in Nfts
          /\ scan'[s].final = snap[scan[s].cur].final /\ OtherScansKept(s)
        BY <1>0, <1>7, ReadPreviousLocals
    <3>. QED  BY <1>0, <2>1, <3>1 DEF ScanBacked, Receipted, IsFinal
  <2>. QED  BY <1>1, <2>1, <2>2, ScanLeavesEvidence
<1>8. CASE UpsertRow(s)
  <2>1. ScanFrame /\ UNCHANGED <<events, snap>> /\ scan[s].cur \in Nfts
      BY <1>0, <1>8 DEF UpsertRow, ScanUnchanged, ScanFrame
  <2>2. \A m \in Nfts : row'[m].stage = "CLOSED_FINAL" =>
           row[m].stage = "CLOSED_FINAL" \/ (m = scan[s].cur /\ scan[s].final)
      BY <1>8 DEF UpsertRow, LiveStage, TypeOK
  <2>3. ScanBacked(s)' /\ OtherScansKept(s)
    <3>1. scan' = [scan EXCEPT ![s].pc = "save"]  BY <1>8 DEF UpsertRow
    <3>2. /\ OtherScansKept(s) /\ scan'[s].pc = "save" /\ scan'[s].cur = scan[s].cur
          /\ scan'[s].final = scan[s].final
        BY <3>1, PcOnlyLocals
    <3>. QED  BY <1>0, <2>1, <3>2 DEF ScanBacked, Receipted
  <2>. QED  BY <1>0, <2>1, <2>2, <2>3, ScanLeavesEvidence DEF IsFinal, ScanBacked
<1>9. CASE SaveSnapshot(s)
  <2>1. ScanFrame /\ UNCHANGED <<events, row>> /\ scan[s].cur \in Nfts
      BY <1>0, <1>9 DEF SaveSnapshot, ScanUnchanged, ScanFrame
  <2>2. \A m \in Nfts : snap'[m].final => snap[m].final \/ (m = scan[s].cur /\ scan[s].final)
      BY <1>9 DEF SaveSnapshot, TypeOK
  <2>3. ScanBacked(s)' /\ OtherScansKept(s)
    <3>1. scan' = [scan EXCEPT ![s].pc = "link"]  BY <1>9 DEF SaveSnapshot
    <3>2. /\ OtherScansKept(s) /\ scan'[s].pc = "link" /\ scan'[s].cur = scan[s].cur
          /\ scan'[s].final = scan[s].final
        BY <3>1, PcOnlyLocals
    <3>. QED  BY <1>0, <2>1, <3>2 DEF ScanBacked, Receipted
  <2>. QED  BY <1>0, <2>1, <2>2, <2>3, ScanLeavesEvidence DEF IsFinal, ScanBacked
<1>10. CASE LinkOpening(s)
  <2>1. UNCHANGED <<chain, post, repair, snap, leftover>>
      BY <1>10 DEF LinkOpening
  <2>2. \A m \in Nfts : events'[m].closes = events[m].closes
      BY <1>10 DEF LinkOpening, TypeOK, Events
  <2>3. \A m \in Nfts : row'[m].stage = row[m].stage
    <3>1. PICK g : row' = row \/ row' = [row EXCEPT ![scan[s].cur].gas = g]
        BY <1>10 DEF LinkOpening
    <3>2. \A m \in Nfts : [row[m] EXCEPT !.gas = g].stage = row[m].stage  BY <1>0 DEF Row
    <3>. QED  BY <3>1, <3>2 DEF TypeOK
  <2>4. ScanBacked(s)' /\ OtherScansKept(s)
      BY <1>10, EndRowLocals DEF LinkOpening, ScanBacked
  <2>. QED  BY <1>0, <2>1, <2>2, <2>3, <2>4, ScanLeavesEvidence DEF ScanFrame, IsFinal
<1>11. CASE OpeningUnknown(s)
  <2>1. ScanFrame /\ UNCHANGED <<row, events, snap>>
      BY <1>11 DEF OpeningUnknown, ScanUnchanged, ScanFrame
  <2>2. ScanBacked(s)' /\ OtherScansKept(s)
      BY <1>11, EndRowLocals DEF OpeningUnknown, ScanBacked
  <2>. QED  BY <1>1, <2>1, <2>2, ScanLeavesEvidence
<1>12. CASE FinishScan(s) \/ FailScan(s)
  <2>1. EndScan(s)  BY <1>12 DEF FinishScan, FailScan
  <2>2. ScanFrame /\ UNCHANGED <<row, events, snap>>
      BY <2>1 DEF EndScan, ScanUnchanged, ScanFrame
  <2>3. ScanBacked(s)' /\ OtherScansKept(s)
      BY <2>1, EndScanLocals DEF ScanBacked
  <2>. QED  BY <1>1, <2>2, <2>3, ScanLeavesEvidence
<1>. QED  BY <1>2, <1>3, <1>4, <1>5, <1>6, <1>7, <1>8, <1>9, <1>10, <1>11, <1>12 DEF ScanStep

PostFrame(p) ==
    /\ UNCHANGED <<chain, scan, repair>> /\ leftover \subseteq leftover'
    /\ \A q \in Posts : q # p => post'[q] = post[q]
    /\ \A n \in Nfts : Receipted(n) => Receipted(n)'

(* What is left to show of a request's step.                               *)
LEMMA PostLeavesEvidence ==
    ASSUME TypeOK, LocalsOK, Evidence, NEW p \in Posts, PostFrame(p), PostBacked(p)',
           \A n \in Nfts : IsFinal(n)' => Receipted(n),
           \A n \in Nfts : Receipted(n)' => Receipted(n) \/ Drained(n)
    PROVE  Evidence'
<1>1. \A n \in Nfts : Drained(n) => Drained(n)'  BY DEF PostFrame, Drained, Spent
<1>2. \A n \in Nfts : (Receipted(n)' => Drained(n)') /\ (IsFinal(n)' => Receipted(n)')
    BY <1>1 DEF Evidence, PostFrame
<1>3. \A s \in Scanners : ScanBacked(s)'
    BY DEF Evidence, PostFrame, ScanBacked
<1>4. \A q \in Posts : PostBacked(q)'
  <2>1. SUFFICES ASSUME NEW q \in Posts, q # p  PROVE PostBacked(q)'  OBVIOUS
  <2>2. post'[q] = post[q] /\ PostBacked(q)  BY <2>1 DEF PostFrame, Evidence
  <2>3. post[q].pc \in {"freeze", "attach"} => post[q].nft \in Nfts  BY DEF LocalsOK
  <2>4. post[q].pc = "event" => post[q].nft \in Nfts  BY DEF LocalsOK
  <2>. QED  BY <1>1, <2>2, <2>3, <2>4 DEF PostBacked, PostFrame
<1>5. repair'.cur # None => Receipted(repair.cur)'
  <2>1. repair' = repair /\ repair.cur \in Nfts \cup {None}  BY DEF PostFrame, TypeOK
  <2>. QED  BY <2>1 DEF Evidence, PostFrame
<1>. QED  BY <1>2, <1>3, <1>4, <1>5 DEF Evidence

(* The locals of a request that only moves on.                             *)
LEMMA PostPcOnly ==
    ASSUME TypeOK, NEW p \in Posts, NEW pc, post' = [post EXCEPT ![p].pc = pc]
    PROVE  /\ \A q \in Posts : q # p => post'[q] = post[q]
           /\ post'[p].pc = pc /\ post'[p].nft = post[p].nft
<1>. DEFINE r == [post[p] EXCEPT !.pc = pc]
<1>1. post[p] \in Post /\ post' = [post EXCEPT ![p] = r]  BY DEF TypeOK
<1>2. r.pc = pc /\ r.nft = post[p].nft  BY <1>1 DEF Post
<1>. HIDE DEF r
<1>. QED  BY <1>1, <1>2 DEF TypeOK

(* No step of a receipt request breaks the evidence invariant.             *)
LEMMA ReceiptKeepsEvidence ==
    ASSUME TypeOK, LocalsOK, Evidence, NEW p \in Posts, NewPost(p) \/ PostStep(p)
    PROVE  Evidence'
<1>0. /\ PostBacked(p) /\ post[p] \in Post
      /\ post[p].pc \notin {"new", "done"} => post[p].nft \in Nfts
      /\ \A n \in Nfts : /\ row[n] \in Row /\ snap[n] \in Snapshot /\ events[n] \in Events
                         /\ IsFinal(n) => Receipted(n)
    BY DEF Evidence, TypeOK, LocalsOK
<1>1. ASSUME NEW n \in Nfts, PostOpening(p, n)  PROVE Evidence'
  <2>. DEFINE r == [post[p] EXCEPT !.pc = "done", !.kind = "OPEN_POSITION"]
  <2>1. UNCHANGED <<chain, row, snap, scan, repair, leftover>>  BY <1>1 DEF PostOpening, PostUnchanged
  <2>2. post' = [post EXCEPT ![p] = r] /\ events' = [events EXCEPT ![n].opening = "loose"]
      BY <1>1 DEF PostOpening
  <2>3. r.pc = "done"  BY <1>0 DEF Post
  <2>4. post'[p].pc = "done" /\ \A q \in Posts : q # p => post'[q] = post[q]
    <3>. HIDE DEF r
    <3>. QED  BY <2>2, <2>3 DEF TypeOK
  <2>5. \A m \in Nfts : events'[m].closes = events[m].closes
    <3>1. \A m \in Nfts : [events[m] EXCEPT !.opening = "loose"].closes = events[m].closes
        BY <1>0 DEF Events
    <3>. QED  BY <2>2, <3>1 DEF TypeOK
  <2>6. PostFrame(p) /\ PostBacked(p)'
      BY <2>1, <2>4, <2>5 DEF PostFrame, PostBacked, Receipted
  <2>. QED  BY <1>0, <2>1, <2>5, <2>6, PostLeavesEvidence DEF IsFinal, Receipted
<1>2. ASSUME NEW n \in Nfts, NEW kind \in {"COLLECT_FEES", "CLOSE_POSITION"},
             NEW confirmed \in BOOLEAN, BeginPost(p, n, kind, confirmed)
      PROVE  Evidence'
  <2>. DEFINE r == [pc |-> "event", kind |-> kind, nft |-> n, confirmed |-> confirmed,
                    known |-> snap[n].saved, gas |-> 0]
  <2>1. UNCHANGED <<chain, row, snap, events, scan, repair>> /\ leftover \subseteq leftover'
      BY <1>2 DEF BeginPost, PostUnchanged
  <2>2. post' = [post EXCEPT ![p] = r] /\ (kind = "CLOSE_POSITION" /\ confirmed => Drained(n)')
    <3>1. post' = [post EXCEPT ![p] = r]  BY <1>2 DEF BeginPost
    <3>2. kind = "CLOSE_POSITION" /\ confirmed => Drained(n)'
        BY <1>2, <2>1, Zenon DEF BeginPost, Drained, Spent
    <3>. QED  BY <3>1, <3>2
  <2>3. r.pc = "event" /\ r.kind = kind /\ r.nft = n /\ r.confirmed = confirmed  OBVIOUS
  <2>4. post'[p] = r /\ \A q \in Posts : q # p => post'[q] = post[q]
    <3>. HIDE DEF r
    <3>. QED  BY <2>2 DEF TypeOK
  <2>5. PostFrame(p) /\ PostBacked(p)'
    <3>. HIDE DEF r
    <3>. QED  BY <2>1, <2>2, <2>3, <2>4 DEF PostFrame, PostBacked, Receipted, Drained, Spent
  <2>. QED  BY <1>0, <2>1, <2>5, PostLeavesEvidence DEF IsFinal, Receipted
<1>3. CASE RecordEvent(p)
  <2>. DEFINE n == post[p].nft
  <2>1. UNCHANGED <<chain, row, snap, scan, repair, leftover>> /\ n \in Nfts /\ post[p].pc = "event"
      BY <1>0, <1>3 DEF RecordEvent, PostUnchanged
  <2>2. \A m \in Nfts : \/ events'[m].closes = events[m].closes
                        \/ /\ m = n /\ post[p].kind = "CLOSE_POSITION" /\ post[p].confirmed
                           /\ events'[m].closes = events[m].closes + 1
    <3>1. CASE ~post[p].confirmed
        BY <1>3, <3>1 DEF RecordEvent
    <3>2. CASE post[p].confirmed
      <4>. DEFINE e == WithReceipt(events[n], post[p].kind)
      <4>1. events' = [events EXCEPT ![n] = e]  BY <1>3, <3>2 DEF RecordEvent
      <4>2. e.closes = IF post[p].kind = "CLOSE_POSITION" THEN events[n].closes + 1
                       ELSE events[n].closes
          BY <1>0, <2>1 DEF WithReceipt, Events
      <4>3. events'[n] = e /\ \A m \in Nfts : m # n => events'[m] = events[m]
        <5>. HIDE DEF e
        <5>. QED  BY <2>1, <4>1 DEF TypeOK
      <4>. QED  BY <3>2, <4>2, <4>3
    <3>. QED  BY <3>1, <3>2
  <2>3. \A m \in Nfts : events[m].closes \in Nat  BY <1>0 DEF Events
  <2>4. PICK pc \in {"gas", "done"} : post' = [post EXCEPT ![p].pc = pc]
      BY <1>3 DEF RecordEvent
  <2>5. post'[p].pc = pc /\ \A q \in Posts : q # p => post'[q] = post[q]
      BY <2>4, PostPcOnly
  <2>6. PostFrame(p) /\ PostBacked(p)'
    <3>1. \A m \in Nfts : Receipted(m) => Receipted(m)'  BY <2>2, <2>3 DEF Receipted
    <3>. QED  BY <2>1, <2>5, <3>1 DEF PostFrame, PostBacked
  <2>7. \A m \in Nfts : Receipted(m)' => Receipted(m) \/ Drained(m)
      BY <1>0, <2>1, <2>2 DEF PostBacked, Receipted
  <2>. QED  BY <1>0, <2>1, <2>6, <2>7, PostLeavesEvidence DEF IsFinal
<1>4. CASE AddGas(p)
  <2>1. UNCHANGED <<chain, snap, events, scan, repair, leftover>>  BY <1>4 DEF AddGas, PostUnchanged
  <2>2. \A m \in Nfts : row'[m].stage = row[m].stage
    <3>1. PICK g : row' = [row EXCEPT ![post[p].nft].gas = g]  BY <1>4 DEF AddGas
    <3>2. \A m \in Nfts : [row[m] EXCEPT !.gas = g].stage = row[m].stage  BY <1>0 DEF Row
    <3>. QED  BY <3>1, <3>2 DEF TypeOK
  <2>3. PICK pc \in {"read", "done"} : post' = [post EXCEPT ![p].pc = pc]  BY <1>4 DEF AddGas
  <2>4. post'[p].pc = pc /\ \A q \in Posts : q # p => post'[q] = post[q]
      BY <2>3, PostPcOnly
  <2>5. PostFrame(p) /\ PostBacked(p)'
      BY <2>1, <2>4 DEF PostFrame, PostBacked, Receipted
  <2>. QED  BY <1>0, <2>1, <2>2, <2>5, PostLeavesEvidence DEF IsFinal, Receipted
<1>5. CASE ReadForClose(p)
  <2>1. UNCHANGED <<chain, row, snap, events, scan, repair, leftover>>
      BY <1>5 DEF ReadForClose, PostUnchanged
  <2>2. PICK pc \in {"sum", "done"} : post' = [post EXCEPT ![p].pc = pc]
      BY <1>5 DEF ReadForClose
  <2>3. post'[p].pc = pc /\ \A q \in Posts : q # p => post'[q] = post[q]
      BY <2>2, PostPcOnly
  <2>4. PostFrame(p) /\ PostBacked(p)'
      BY <2>1, <2>3 DEF PostFrame, PostBacked, Receipted
  <2>. QED  BY <1>0, <2>1, <2>4, PostLeavesEvidence DEF IsFinal, Receipted
<1>6. CASE SumEvents(p)
  <2>. DEFINE n == post[p].nft
              pc == IF events[n].closes > 0 /\ n \in Priced THEN "freeze" ELSE "done"
              g == EventGas(n)
              r == [post[p] EXCEPT !.pc = pc, !.gas = g]
  <2>1. UNCHANGED <<chain, row, snap, events, scan, repair, leftover>>
      BY <1>6 DEF SumEvents, PostUnchanged
  <2>2. post' = [post EXCEPT ![p] = r]  BY <1>6 DEF SumEvents
  <2>3. r.pc = pc /\ r.nft = n
    <3>. HIDE DEF pc, g
    <3>. QED  BY <1>0 DEF Post
  <2>4. post'[p] = r /\ \A q \in Posts : q # p => post'[q] = post[q]
    <3>. HIDE DEF r
    <3>. QED  BY <2>2 DEF TypeOK
  <2>5. PostFrame(p) /\ PostBacked(p)'
    <3>1. post'[p].pc = pc /\ post'[p].nft = n  BY <2>3, <2>4
    <3>2. pc # "event" /\ (pc \in {"freeze", "attach"} => Receipted(n))  BY DEF Receipted
    <3>. HIDE DEF r, pc
    <3>. QED  BY <2>1, <2>4, <3>1, <3>2 DEF PostFrame, PostBacked, Receipted
  <2>. QED  BY <1>0, <2>1, <2>5, PostLeavesEvidence DEF IsFinal, Receipted
<1>7. CASE FreezeRow(p)
  <2>1. UNCHANGED <<chain, snap, events, scan, repair, leftover>>  BY <1>7 DEF FreezeRow, PostUnchanged
  <2>2. post' = [post EXCEPT ![p].pc = "attach"]  BY <1>7 DEF FreezeRow
  <2>3. /\ post'[p].pc = "attach" /\ post'[p].nft = post[p].nft
        /\ \A q \in Posts : q # p => post'[q] = post[q]
      BY <2>2, PostPcOnly
  <2>4. post[p].nft \in Nfts /\ Receipted(post[p].nft)
      BY <1>0, <1>7 DEF FreezeRow, PostBacked
  <2>5. \A m \in Nfts : m # post[p].nft => row'[m] = row[m]  BY <1>7 DEF FreezeRow, TypeOK
  <2>6. PostFrame(p) /\ PostBacked(p)'
      BY <2>1, <2>3, <2>4 DEF PostFrame, PostBacked, Receipted
  <2>. QED  BY <1>0, <2>1, <2>4, <2>5, <2>6, PostLeavesEvidence DEF IsFinal, Receipted
<1>8. CASE AttachFinal(p)
  <2>1. UNCHANGED <<chain, row, events, scan, repair, leftover>>  BY <1>8 DEF AttachFinal, PostUnchanged
  <2>2. post' = [post EXCEPT ![p].pc = "done"]  BY <1>8 DEF AttachFinal
  <2>3. post'[p].pc = "done" /\ \A q \in Posts : q # p => post'[q] = post[q]
      BY <2>2, PostPcOnly
  <2>4. post[p].nft \in Nfts /\ Receipted(post[p].nft)
      BY <1>0, <1>8 DEF AttachFinal, PostBacked
  <2>5. \A m \in Nfts : m # post[p].nft => snap'[m] = snap[m]  BY <1>8 DEF AttachFinal, TypeOK
  <2>6. PostFrame(p) /\ PostBacked(p)'
      BY <2>1, <2>3 DEF PostFrame, PostBacked, Receipted
  <2>. QED  BY <1>0, <2>1, <2>4, <2>5, <2>6, PostLeavesEvidence DEF IsFinal, Receipted
<1>. QED  BY <1>1, <1>2, <1>3, <1>4, <1>5, <1>6, <1>7, <1>8 DEF NewPost, PostStep

(* Nor does the chain, a crash or the startup repair.                      *)
LEMMA RestKeepsEvidence ==
    ASSUME TypeOK, LocalsOK, Evidence, ChainNext \/ Crash \/ Restart \/ RepairStep
    PROVE  Evidence'
<1>0. repair.cur # None => repair.cur \in Nfts /\ Receipted(repair.cur)
    BY DEF TypeOK, Evidence
<1>1. CASE ChainNext
  <2>1. UNCHANGED <<row, snap, events, scan, post, repair>>
      BY <1>1 DEF ChainNext, Mint, Drain, Refill, TransferOut, ChainUnchanged
  <2>2. \A n \in Nfts : Drained(n) /\ ClosePosted(n) => Drained(n)'
    <3>1. ASSUME NEW n \in Nfts, NEW m \in Nfts, Drained(n), ClosePosted(n),
                 Mint(m) \/ Drain(m) \/ TransferOut(m)
          PROVE  Drained(n)'
        BY <3>1 DEF Mint, Drain, TransferOut, Drained, Spent, TypeOK
    <3>2. ASSUME NEW n \in Nfts, NEW m \in Nfts, Drained(n), ClosePosted(n), Refill(m)
          PROVE  Drained(n)'
        BY <3>2 DEF Refill, Drained, Spent, TypeOK
    <3>. QED  BY <1>1, <3>1, <3>2 DEF ChainNext
  <2>3. \A n \in Nfts : (Receipted(n)' => Drained(n)') /\ (IsFinal(n)' => Receipted(n)')
      BY <2>1, <2>2 DEF Evidence, IsFinal, Receipted, ClosePosted
  <2>4. \A s \in Scanners : ScanBacked(s)'  BY <2>1 DEF Evidence, ScanBacked, Receipted
  <2>5. \A p \in Posts : PostBacked(p)'
      BY <2>1, <2>2 DEF Evidence, LocalsOK, PostBacked, Receipted, ClosePosted
  <2>. QED  BY <1>0, <2>1, <2>3, <2>4, <2>5 DEF Evidence, Receipted
<1>2. CASE Crash
  <2>1. UNCHANGED <<chain, row, snap, events, leftover>> /\ repair'.cur = None
      BY <1>2 DEF Crash, NoRepair
  <2>2. \A s \in Scanners : ScanBacked(s)'  BY <1>2 DEF Crash, Idle, ScanBacked
  <2>3. \A p \in Posts : PostBacked(p)'
    <3>1. \A p \in Posts : post'[p].pc \in {"new", "done"}  BY <1>2 DEF Crash, TypeOK, Post
    <3>. QED  BY <3>1 DEF PostBacked
  <2>. QED  BY <2>1, <2>2, <2>3 DEF Evidence, IsFinal, Receipted, Drained, Spent
<1>3. CASE Restart \/ (\E n \in Nfts : RepairSkip(n)) \/ Serve
  <2>1. UNCHANGED <<chain, row, snap, events, scan, post, leftover>>
      BY <1>3 DEF Restart, RepairSkip, Serve, StoreUnchanged
  <2>2. repair'.cur # None => repair'.cur = repair.cur
      BY <1>3 DEF Restart, RepairSkip, Serve, NoRepair, TypeOK
  <2>. QED  BY <2>1, <2>2 DEF Evidence, ScanBacked, PostBacked, IsFinal, Receipted, Drained, Spent
<1>4. ASSUME NEW n \in Nfts, RepairFreeze(n)  PROVE Evidence'
  <2>1. UNCHANGED <<chain, snap, events, scan, post, leftover>> /\ repair'.cur = n /\ Receipted(n)
      BY <1>4 DEF RepairFreeze, Repairable, StoreUnchanged, Receipted
  <2>2. \A m \in Nfts : m # n => row'[m] = row[m]  BY <1>4 DEF RepairFreeze, TypeOK
  <2>. QED  BY <2>1, <2>2 DEF Evidence, ScanBacked, PostBacked, IsFinal, Receipted, Drained, Spent
<1>5. CASE RepairAttach
  <2>1. UNCHANGED <<chain, row, events, scan, post, leftover>> /\ repair'.cur = None
        /\ repair.cur # None
      BY <1>5 DEF RepairAttach, StoreUnchanged, TypeOK
  <2>2. \A m \in Nfts : m # repair.cur => snap'[m] = snap[m]
      BY <1>5 DEF RepairAttach, TypeOK
  <2>. QED  BY <1>0, <2>1, <2>2 DEF Evidence, ScanBacked, PostBacked, IsFinal, Receipted, Drained, Spent
<1>. QED  BY <1>1, <1>2, <1>3, <1>4, <1>5 DEF RepairStep

(* Whatever the interleaving, and however many crashes, a position is      *)
(* shown as finally accounted only when its close receipt is recorded; and *)
(* its NFT then holds no liquidity, unless a close left some in it or it   *)
(* was filled again afterwards.                                            *)
THEOREM FinalDrained == Spec => []FinalMeansDrained
<1>1. Init => TypeOK /\ LocalsOK /\ Evidence
  <2>1. Init => Evidence
      BY DEF Init, Evidence, IsFinal, Receipted, ScanBacked, PostBacked, Idle, Unsent, NoRepair
  <2>. QED  BY <2>1, InitTyped
<1>2. TypeOK /\ LocalsOK /\ Evidence /\ [Next]_vars => (TypeOK /\ LocalsOK /\ Evidence)'
  <2>. SUFFICES ASSUME TypeOK, LocalsOK, Evidence, [Next]_vars  PROVE Evidence'
      BY NextTyped
  <2>1. CASE UNCHANGED vars
      BY <2>1 DEF vars, Evidence, ScanBacked, PostBacked, IsFinal, Receipted, Drained, Spent
  <2>2. CASE Next
      BY <2>2, ScanKeepsEvidence, ReceiptKeepsEvidence, RestKeepsEvidence DEF Next
  <2>. QED  BY <2>1, <2>2
<1>3. Evidence => FinalMeansDrained
    BY DEF Evidence, FinalMeansDrained, Receipted, Drained, Spent
<1>. QED  BY <1>1, <1>2, <1>3, PTL DEF Spec

--------------------------------------------------------------------------------
LockHeld == \A s \in Refreshers : scan[s].pc # "idle" <=> lock = s

(* No step of a scanner breaks the lock discipline.                        *)
LEMMA ScanKeepsLockHeld ==
    ASSUME TypeOK, LocalsOK, LockHeld, NEW s \in Scanners,
           ScanStep(s) \/ BeginRefresh(s) \/ BeginImport(s)
    PROVE  LockHeld'
<1>0. Refreshers \subseteq Scanners /\ None \notin Refreshers  BY NoneAssumption DEF Scanners
<1>1. ASSUME OtherScansKept(s), lock' = lock, scan[s].pc # "idle", scan'[s].pc # "idle"
      PROVE  LockHeld'
    BY <1>0, <1>1 DEF OtherScansKept, LockHeld
<1>2. CASE BeginRefresh(s)
  <2>1. scan' = [scan EXCEPT ![s].pc = "rows"] /\ scan[s].pc = "idle" /\ lock = None /\ lock' = s
        /\ s \in Refreshers
      BY <1>2 DEF BeginRefresh, BeginScan
  <2>2. scan'[s].pc = "rows" /\ OtherScansKept(s)  BY <2>1, PcOnlyLocals
  <2>. QED  BY <1>0, <2>1, <2>2 DEF OtherScansKept, LockHeld
<1>3. CASE BeginImport(s)
  <2>1. scan' = [scan EXCEPT ![s].pc = "rows"] /\ s \in Importers /\ lock' = lock
      BY <1>3 DEF BeginImport, BeginScan
  <2>2. s \notin Refreshers  BY <2>1, ActorsAssumption
  <2>3. OtherScansKept(s)  BY <2>1, PcOnlyLocals
  <2>. QED  BY <1>0, <2>1, <2>2, <2>3 DEF OtherScansKept, LockHeld
<1>4. ASSUME NEW n \in Nfts, Observe(s, n) \/ ObserveError(s, n) \/ SkipErrorRow(s, n)
      PROVE  LockHeld'
    BY <1>4 DEF Observe, ObserveError, ObserveAs, SkipErrorRow, LockHeld
<1>5. ASSUME NEW n \in Nfts, CloseNotOwned(s, n)  PROVE LockHeld'
  <2>1. lock' = lock  BY <1>5 DEF CloseNotOwned
  <2>. QED  BY <1>1, <1>5, <2>1, CloseNotOwnedLocals
<1>6. ASSUME NEW n \in Nfts, ReadRow(s, n)  PROVE LockHeld'
  <2>1. lock' = lock  BY <1>6 DEF ReadRow
  <2>. QED  BY <1>1, <1>6, <2>1, ReadRowLocals
<1>7. CASE MarkNotOwned(s) \/ LinkOpening(s) \/ OpeningUnknown(s)
  <2>1. lock' = lock /\ scan[s].pc # "idle" /\ EndRow(s)
      BY <1>7 DEF MarkNotOwned, LinkOpening, OpeningUnknown
  <2>. QED  BY <1>1, <2>1, EndRowLocals
<1>8. ASSUME NEW complete \in BOOLEAN, ReadPreviousSnapshot(s, complete)  PROVE LockHeld'
  <2>1. lock' = lock  BY <1>8 DEF ReadPreviousSnapshot
  <2>. QED  BY <1>1, <1>8, <2>1, ReadPreviousLocals
<1>9. CASE UpsertRow(s) \/ SaveSnapshot(s)
  <2>1. PICK pc \in {"save", "link"} : scan' = [scan EXCEPT ![s].pc = pc]
      BY <1>9 DEF UpsertRow, SaveSnapshot
  <2>2. lock' = lock /\ scan[s].pc # "idle"  BY <1>9 DEF UpsertRow, SaveSnapshot
  <2>3. OtherScansKept(s) /\ scan'[s].pc = pc  BY <2>1, PcOnlyLocals
  <2>. QED  BY <1>1, <2>2, <2>3
<1>10. CASE FinishScan(s) \/ FailScan(s)
  <2>1. EndScan(s)  BY <1>10 DEF FinishScan, FailScan
  <2>2. scan'[s].pc = "idle" /\ OtherScansKept(s)  BY <2>1, EndScanLocals
  <2>3. lock' = IF lock = s THEN None ELSE lock  BY <2>1 DEF EndScan
  <2>. QED  BY <1>0, <2>2, <2>3 DEF OtherScansKept, LockHeld
<1>. QED  BY <1>2, <1>3, <1>4, <1>5, <1>6, <1>7, <1>8, <1>9, <1>10 DEF ScanStep

(* Refresh passes never overlap, for any number of threads: whoever is in  *)
(* refresh_positions, and nobody else, holds the lock.                     *)
THEOREM RefreshMutex == Spec => []RefreshExclusive
<1>1. Init => LockHeld
    BY NoneAssumption DEF Init, LockHeld, Idle, Scanners
<1>2. TypeOK /\ LocalsOK /\ LockHeld /\ [Next]_vars => LockHeld'
  <2>. SUFFICES ASSUME TypeOK, LocalsOK, LockHeld, [Next]_vars  PROVE LockHeld'
      OBVIOUS
  <2>1. CASE UNCHANGED vars \/ ChainNext \/ Restart \/ RepairStep
      BY <2>1 DEF vars, ChainNext, Mint, Drain, Refill, TransferOut, ChainUnchanged, Restart, RepairStep,
                  RepairSkip, RepairFreeze, RepairAttach, Serve, StoreUnchanged, LockHeld
  <2>2. CASE \E p \in Posts : NewPost(p) \/ PostStep(p)
      BY <2>2 DEF NewPost, PostOpening, BeginPost, PostStep, RecordEvent, AddGas, ReadForClose,
                  SumEvents, FreezeRow, AttachFinal, PostUnchanged, LockHeld
  <2>3. CASE Crash
      BY <2>3, NoneAssumption DEF Crash, Idle, LockHeld, Scanners
  <2>. QED  BY <2>1, <2>2, <2>3, ScanKeepsLockHeld DEF Next
<1>3. TypeOK /\ LockHeld => RefreshExclusive
    BY DEF TypeOK, LockHeld, RefreshExclusive
<1>. QED  BY <1>1, <1>2, <1>3, InitTyped, NextTyped, PTL DEF Spec

(* A row that refreshes must read is never one they leave out: no write,   *)
(* stale or not, leaves a row both open and finally accounted.             *)
THEOREM OpenOrFinal == Spec => []OpenNeverFinal
<1>1. Init => OpenNeverFinal
    BY DEF Init, OpenNeverFinal
<1>2. TypeOK /\ LocalsOK /\ OpenNeverFinal /\ [Next]_vars => OpenNeverFinal'
  <2>. SUFFICES ASSUME TypeOK, LocalsOK, OpenNeverFinal, [Next]_vars  PROVE OpenNeverFinal'
      OBVIOUS
  <2>0. \A n \in Nfts : row[n] \in Row  BY DEF TypeOK
  <2>1. ASSUME row' = row  PROVE OpenNeverFinal'  BY <2>1 DEF OpenNeverFinal
  <2>2. ASSUME NEW n \in Nfts, NEW r, row' = [row EXCEPT ![n] = r],
               r.status = "OPEN" => r.stage # "CLOSED_FINAL"
        PROVE  OpenNeverFinal'
      BY <2>2 DEF OpenNeverFinal, TypeOK
  <2>3. ASSUME NEW n \in Nfts, NEW g, row' = [row EXCEPT ![n].gas = g]  PROVE OpenNeverFinal'
    <3>. DEFINE r == [row[n] EXCEPT !.gas = g]
    <3>1. row' = [row EXCEPT ![n] = r]  BY <2>3
    <3>2. r.status = "OPEN" => r.stage # "CLOSED_FINAL"  BY <2>0 DEF OpenNeverFinal, Row
    <3>. HIDE DEF r
    <3>. QED  BY <2>2, <3>1, <3>2
  <2>4. ASSUME NEW n \in Nfts, NEW g, row' = [row EXCEPT ![n] = Frozen(g)]  PROVE OpenNeverFinal'
    <3>1. Frozen(g).status # "OPEN"  BY DEF Frozen
    <3>. QED  BY <2>2, <2>4, <3>1
  <2>5. ASSUME NEW s \in Scanners, ScanStep(s)  PROVE OpenNeverFinal'
    <3>0. scan[s].pc \notin {"idle", "rows"} => scan[s].cur \in Nfts  BY DEF LocalsOK
    <3>1. ASSUME NEW n \in Nfts, CloseNotOwned(s, n)  PROVE OpenNeverFinal'
      <4>. DEFINE r == [row[n] EXCEPT !.status = "CLOSED"]
      <4>1. row' = row \/ row' = [row EXCEPT ![n] = r]  BY <3>1 DEF CloseNotOwned
      <4>2. r.status = "CLOSED"  BY <2>0 DEF Row
      <4>. HIDE DEF r
      <4>. QED  BY <2>1, <2>2, <4>1, <4>2
    <3>2. CASE MarkNotOwned(s)
      <4>. DEFINE n == scan[s].cur
                  r == [row[n] EXCEPT !.stage = "CLOSED"]
      <4>1. row' = [row EXCEPT ![n] = r] /\ n \in Nfts  BY <3>0, <3>2 DEF MarkNotOwned
      <4>2. r.stage = "CLOSED"  BY <2>0, <4>1 DEF Row
      <4>. HIDE DEF r
      <4>. QED  BY <2>2, <4>1, <4>2
    <3>3. CASE UpsertRow(s)
      <4>. DEFINE n == scan[s].cur
                  r == [status |-> IF scan[s].active THEN "OPEN" ELSE "CLOSED",
                        stage |-> LiveStage(scan[s].active, scan[s].final), gas |-> scan[s].gas]
      <4>1. row' = [row EXCEPT ![n] = r] /\ n \in Nfts  BY <3>0, <3>3 DEF UpsertRow
      <4>2. r.status = "OPEN" => r.stage # "CLOSED_FINAL"  BY DEF LiveStage
      <4>. HIDE DEF r
      <4>. QED  BY <2>2, <4>1, <4>2
    <3>4. CASE LinkOpening(s)
      <4>1. row' = row \/ \E g : row' = [row EXCEPT ![scan[s].cur].gas = g]
          BY <3>4 DEF LinkOpening
      <4>2. scan[s].cur \in Nfts  BY <3>0, <3>4 DEF LinkOpening
      <4>. QED  BY <2>1, <2>3, <4>1, <4>2
    <3>5. CASE \/ \E n \in Nfts : Observe(s, n) \/ ObserveError(s, n) \/ SkipErrorRow(s, n)
                                    \/ ReadRow(s, n)
               \/ \E complete \in BOOLEAN : ReadPreviousSnapshot(s, complete)
               \/ SaveSnapshot(s) \/ OpeningUnknown(s) \/ FinishScan(s) \/ FailScan(s)
      <4>1. row' = row
          BY <3>5 DEF Observe, ObserveError, ObserveAs, SkipErrorRow, ReadRow, ReadPreviousSnapshot,
                      SaveSnapshot, OpeningUnknown, FinishScan, FailScan, EndScan
      <4>. QED  BY <2>1, <4>1
    <3>. QED  BY <2>5, <3>1, <3>2, <3>3, <3>4, <3>5 DEF ScanStep
  <2>6. ASSUME NEW p \in Posts, NewPost(p) \/ PostStep(p)  PROVE OpenNeverFinal'
    <3>1. CASE AddGas(p)
      <4>1. \E g : row' = [row EXCEPT ![post[p].nft].gas = g]  BY <3>1 DEF AddGas
      <4>2. post[p].nft \in Nfts  BY <3>1 DEF AddGas, LocalsOK
      <4>. QED  BY <2>3, <4>1, <4>2
    <3>2. CASE FreezeRow(p)
      <4>1. post[p].nft \in Nfts /\ row' = [row EXCEPT ![post[p].nft] = Frozen(post[p].gas)]
          BY <3>2 DEF FreezeRow, LocalsOK
      <4>. QED  BY <2>4, <4>1
    <3>3. CASE NewPost(p) \/ RecordEvent(p) \/ ReadForClose(p) \/ SumEvents(p) \/ AttachFinal(p)
      <4>1. row' = row
          BY <3>3 DEF NewPost, PostOpening, BeginPost, RecordEvent, ReadForClose, SumEvents, AttachFinal
      <4>. QED  BY <2>1, <4>1
    <3>. QED  BY <2>6, <3>1, <3>2, <3>3 DEF PostStep
  <2>7. ASSUME NEW n \in Nfts, RepairFreeze(n)  PROVE OpenNeverFinal'
      BY <2>4, <2>7 DEF RepairFreeze
  <2>8. CASE \/ UNCHANGED vars \/ ChainNext \/ Crash \/ Restart \/ RepairAttach \/ Serve
             \/ \E n \in Nfts : RepairSkip(n)
             \/ \E s \in Scanners : BeginRefresh(s) \/ BeginImport(s)
    <3>1. row' = row
        BY <2>8 DEF vars, ChainNext, Mint, Drain, Refill, TransferOut, ChainUnchanged, Crash, Restart,
                    RepairAttach, Serve, RepairSkip, BeginRefresh, BeginImport
    <3>. QED  BY <2>1, <3>1
  <2>. QED  BY <2>5, <2>6, <2>7, <2>8 DEF Next, RepairStep
<1>. QED  BY <1>1, <1>2, InitTyped, NextTyped, PTL DEF Spec

--------------------------------------------------------------------------------
(* What the repair has looked at needs it no more: while it runs nothing   *)
(* else writes, and its own two writes take an NFT out of its reach.       *)
RepairCovers ==
    up = "repair" => \A n \in Nfts :
        row[n].status = "CLOSED" => n \in repair.todo \/ ~Repairable(n)

(* Whatever serves leaves up alone, and whatever runs at startup keeps the *)
(* rows that are still to do.                                              *)
LEMMA RepairKeepsCovers ==
    TypeOK /\ RepairCovers /\ [Next]_vars => RepairCovers'
<1>. SUFFICES ASSUME TypeOK, RepairCovers, [Next]_vars  PROVE RepairCovers'
    OBVIOUS
<1>1. ASSUME up' = up, row' = row, snap' = snap, events' = events, repair' = repair
      PROVE  RepairCovers'
    BY <1>1 DEF RepairCovers, Repairable, Finalisable
<1>2. ASSUME up' # "repair"  PROVE RepairCovers'
    BY <1>2 DEF RepairCovers
<1>3. CASE UNCHANGED vars \/ ChainNext
    BY <1>1, <1>3 DEF vars, ChainNext, Mint, Drain, Refill, TransferOut, ChainUnchanged
<1>4. ASSUME NEW s \in Scanners, BeginRefresh(s) \/ BeginImport(s) \/ ScanStep(s)
      PROVE  RepairCovers'
  <2>1. up = "up" /\ up' = up
      BY <1>4 DEF BeginRefresh, BeginImport, ScanStep, Observe, ObserveError, ObserveAs, SkipErrorRow,
                  CloseNotOwned, ReadRow, MarkNotOwned, ReadPreviousSnapshot, UpsertRow,
                  SaveSnapshot, LinkOpening, OpeningUnknown, FinishScan, FailScan, EndScan,
                  ScanUnchanged
  <2>. QED  BY <1>2, <2>1
<1>5. ASSUME NEW p \in Posts, NewPost(p) \/ PostStep(p)  PROVE RepairCovers'
  <2>1. up = "up" /\ up' = up
      BY <1>5 DEF NewPost, PostOpening, BeginPost, PostStep, RecordEvent, AddGas, ReadForClose,
                  SumEvents, FreezeRow, AttachFinal, PostUnchanged
  <2>. QED  BY <1>2, <2>1
<1>6. CASE Crash
    BY <1>2, <1>6 DEF Crash
<1>7. CASE Restart
  <2>1. repair'.todo = {n \in Nfts : row[n].status = "CLOSED"} /\ row' = row
      BY <1>7 DEF Restart, NoRepair
  <2>. QED  BY <2>1 DEF RepairCovers
<1>8. ASSUME NEW m \in Nfts, RepairSkip(m)  PROVE RepairCovers'
  <2>1. /\ up = "repair" /\ ~Repairable(m) /\ row' = row /\ snap' = snap /\ events' = events
        /\ repair'.todo = repair.todo \ {m}
      BY <1>8 DEF RepairSkip, StoreUnchanged, TypeOK
  <2>. QED  BY <2>1 DEF RepairCovers, Repairable, Finalisable
<1>9. ASSUME NEW m \in Nfts, RepairFreeze(m)  PROVE RepairCovers'
  <2>1. /\ up = "repair" /\ row' = [row EXCEPT ![m] = Frozen(EventGas(m))]
        /\ snap' = snap /\ events' = events /\ repair'.todo = repair.todo \ {m}
      BY <1>9 DEF RepairFreeze, StoreUnchanged
  <2>2. row'[m].stage = "CLOSED_FINAL" /\ \A n \in Nfts \ {m} : row'[n] = row[n]
      BY <2>1 DEF TypeOK, Frozen
  <2>. QED  BY <2>1, <2>2 DEF RepairCovers, Repairable, Finalisable
<1>10. CASE RepairAttach
  <2>1. /\ up = "repair" /\ row' = row /\ snap' = [snap EXCEPT ![repair.cur] = WithFinal]
        /\ events' = events /\ repair'.todo = repair.todo
      BY <1>10 DEF RepairAttach, StoreUnchanged, TypeOK
  <2>2. \A n \in Nfts : snap'[n].final \/ snap'[n] = snap[n]
      BY <2>1 DEF TypeOK, WithFinal
  <2>. QED  BY <2>1, <2>2 DEF RepairCovers, Repairable, Finalisable
<1>11. CASE Serve
    BY <1>2, <1>11 DEF Serve
<1>. QED
    BY <1>3, <1>4, <1>5, <1>6, <1>7, <1>8, <1>9, <1>10, <1>11 DEF Next, RepairStep

(* When startup is over, no closed row with a confirmed close and a ready  *)
(* basis is left without its final accounting, however many NFTs there are *)
(* and wherever a crash cut their receipts                                 *)
(* (repair_confirmed_execution_closes).                                    *)
THEOREM NoneLeftWaiting == Spec => RepairLeavesNoneWaiting
<1>1. Init => RepairCovers
    BY DEF Init, RepairCovers
<1>2. RepairCovers /\ [Next]_vars =>
        [up = "repair" /\ up' = "up" => \A n \in Nfts : row[n].status = "CLOSED" => ~Repairable(n)]_vars
  <2>. SUFFICES ASSUME RepairCovers, Next, up = "repair", up' = "up"
                PROVE  \A n \in Nfts : row[n].status = "CLOSED" => ~Repairable(n)
      OBVIOUS
  <2>1. Serve
      BY DEF Next, ChainNext, Mint, Drain, Refill, TransferOut, ChainUnchanged, BeginRefresh, BeginImport,
             ScanStep, Observe, ObserveError, ObserveAs, SkipErrorRow, CloseNotOwned, ReadRow,
             MarkNotOwned, ReadPreviousSnapshot, UpsertRow, SaveSnapshot, LinkOpening, OpeningUnknown,
             FinishScan, FailScan, EndScan, NewPost, PostOpening, BeginPost, PostStep, RecordEvent,
             AddGas, ReadForClose, SumEvents, FreezeRow, AttachFinal, Crash, Restart, RepairStep,
             RepairSkip, RepairFreeze, RepairAttach, StoreUnchanged
  <2>. QED  BY <2>1 DEF Serve, RepairCovers
<1>. QED  BY <1>1, <1>2, RepairKeepsCovers, InitTyped, NextTyped, PTL DEF Spec, RepairLeavesNoneWaiting
--------------------------------------------------------------------------------
(* What recording one observation does to the others: nothing.             *)
LEMMA SeenSet ==
    ASSUME TypeOK, NEW s \in Scanners, NEW m \in Nfts, NEW o, seen' = [seen EXCEPT ![s][m] = o]
    PROVE  /\ \A t \in Scanners : t # s => seen'[t] = seen[t]
           /\ \A n \in Nfts : seen'[s][n] = IF n = m THEN o ELSE seen[s][n]
<1>. DEFINE f == [seen[s] EXCEPT ![m] = o]
<1>1. seen[s] \in [Nfts -> Observations] /\ seen' = [seen EXCEPT ![s] = f]  BY DEF TypeOK
<1>2. \A n \in Nfts : f[n] = IF n = m THEN o ELSE seen[s][n]  BY <1>1
<1>. HIDE DEF f
<1>. QED  BY <1>1, <1>2 DEF TypeOK

RowFinal(n) == row[n].status = "CLOSED" /\ row[n].stage = "CLOSED_FINAL"

(* Adding gas does not unfreeze a row.                                     *)
LEMMA GasKeepsFinal ==
    ASSUME TypeOK, NEW m \in Nfts, NEW g, row' = [row EXCEPT ![m].gas = g], NEW n \in Nfts, RowFinal(n)
    PROVE  RowFinal(n)'
<1>. DEFINE r == [row[m] EXCEPT !.gas = g]
<1>1. row[m] \in Row /\ row' = [row EXCEPT ![m] = r]  BY DEF TypeOK
<1>2. r.status = row[m].status /\ r.stage = row[m].stage  BY <1>1 DEF Row
<1>. HIDE DEF r
<1>. QED  BY <1>1, <1>2 DEF RowFinal, TypeOK

(* No step of a scanner disturbs settled accounting.                       *)
LEMMA ScanKeepsSettled ==
    ASSUME TypeOK, LocalsOK, NEW s \in Scanners, ScanStep(s) \/ BeginRefresh(s) \/ BeginImport(s),
           NEW n \in Nfts, Settled(n)
    PROVE  Settled(n)'
<1>0. /\ chain[n] = "empty" /\ RowFinal(n) /\ snap[n].final
      /\ \A t \in Scanners : HarmlessScan(t, n)
      /\ n # None
      /\ scan[s].pc \notin {"idle", "rows"} => scan[s].cur \in Nfts
    BY NoneAssumption DEF Settled, RowFinal, LocalsOK
<1>1. ASSUME chain' = chain, RowFinal(n)', snap'[n].final, OtherScansKept(s),
             \A t \in Scanners : t # s => seen'[t] = seen[t], HarmlessScan(s, n)'
      PROVE  Settled(n)'
  <2>1. ASSUME NEW t \in Scanners, t # s  PROVE HarmlessScan(t, n)'
      BY <1>0, <1>1, <2>1 DEF OtherScansKept, HarmlessScan
  <2>. QED  BY <1>0, <1>1, <2>1 DEF Settled, RowFinal
<1>2. CASE BeginRefresh(s) \/ BeginImport(s)
  <2>1. UNCHANGED <<chain, row, snap>>
      BY <1>2 DEF BeginRefresh, BeginImport, ScanUnchanged
  <2>2. PICK batch : BeginScan(s, batch)  BY <1>2 DEF BeginRefresh, BeginImport
  <2>. DEFINE f == [m \in Nfts |-> IF m \in batch THEN "todo" ELSE "none"]
  <2>3. scan' = [scan EXCEPT ![s].pc = "rows"] /\ seen' = [seen EXCEPT ![s] = f]
      BY <2>2 DEF BeginScan
  <2>4. /\ OtherScansKept(s)
        /\ scan'[s].pc = "rows" /\ scan'[s].cur = scan[s].cur /\ scan'[s].active = scan[s].active
      BY <2>3, PcOnlyLocals
  <2>5. f[n] \in {"todo", "none"}  OBVIOUS
  <2>6. seen'[s][n] \in {"todo", "none"} /\ \A t \in Scanners : t # s => seen'[t] = seen[t]
    <3>. HIDE DEF f
    <3>. QED  BY <2>3, <2>5 DEF TypeOK
  <2>7. HarmlessScan(s, n)'  BY <1>0, <2>4, <2>6 DEF HarmlessScan
  <2>. QED  BY <1>0, <1>1, <2>1, <2>4, <2>6, <2>7 DEF RowFinal
<1>3. ASSUME NEW m \in Nfts, Observe(s, m) \/ ObserveError(s, m) \/ SkipErrorRow(s, m)
      PROVE  Settled(n)'
  <2>1. UNCHANGED <<chain, row, snap, scan>>
      BY <1>3 DEF Observe, ObserveError, ObserveAs, SkipErrorRow, ScanUnchanged
  <2>2. PICK o : seen' = [seen EXCEPT ![s][m] = o] /\ (o \in {"error", "none"} \/ o = Reading(m))
      BY <1>3 DEF Observe, ObserveError, ObserveAs, SkipErrorRow, Consume
  <2>3. m = n => o \notin {"active", "not_owned"}  BY <1>0, <2>2 DEF Reading
  <2>4. HarmlessScan(s, n)' /\ OtherScansKept(s)
      BY <1>0, <2>1, <2>2, <2>3, SeenSet DEF HarmlessScan, OtherScansKept
  <2>. QED  BY <1>0, <1>1, <2>1, <2>2, <2>4, SeenSet DEF RowFinal
<1>4. ASSUME NEW m \in Nfts, CloseNotOwned(s, m)  PROVE Settled(n)'
  <2>1. UNCHANGED <<chain, snap>> /\ seen[s][m] = "not_owned"
      BY <1>4 DEF CloseNotOwned, ScanUnchanged
  <2>2. seen' = [seen EXCEPT ![s][m] = "none"]  BY <1>4 DEF CloseNotOwned, Consume
  <2>3. m # n  BY <1>0, <2>1 DEF HarmlessScan
  <2>4. RowFinal(n)'
    <3>1. row'[n] = row[n]  BY <1>4, <2>3 DEF CloseNotOwned, TypeOK
    <3>. QED  BY <1>0, <3>1 DEF RowFinal
  <2>5. HarmlessScan(s, n)'
      BY <1>0, <1>4, <2>2, <2>3, SeenSet, CloseNotOwnedLocals DEF HarmlessScan
  <2>. QED  BY <1>0, <1>1, <1>4, <2>1, <2>2, <2>4, <2>5, SeenSet, CloseNotOwnedLocals
<1>5. ASSUME NEW m \in Nfts, ReadRow(s, m)  PROVE Settled(n)'
  <2>1. UNCHANGED <<chain, row, snap>>  BY <1>5 DEF ReadRow, ScanUnchanged
  <2>2. seen' = [seen EXCEPT ![s][m] = "none"]  BY <1>5 DEF ReadRow, Consume
  <2>3. HarmlessScan(s, n)'
    <3>1. seen'[s][n] \notin {"active", "not_owned"}  BY <1>0, <2>2, SeenSet DEF HarmlessScan
    <3>2. scan'[s].cur = m /\ scan'[s].pc = "snapshot" /\ scan'[s].active = (seen[s][m] = "active")
        BY <1>5, ReadRowLocals
    <3>3. m = n => ~scan'[s].active  BY <1>0, <3>2 DEF HarmlessScan
    <3>. QED  BY <3>1, <3>2, <3>3 DEF HarmlessScan
  <2>. QED  BY <1>0, <1>1, <1>5, <2>1, <2>2, <2>3, SeenSet, ReadRowLocals DEF RowFinal
<1>6. CASE MarkNotOwned(s)
  <2>1. /\ UNCHANGED <<chain, snap, seen>> /\ EndRow(s) /\ scan[s].pc = "notes"
        /\ row' = [row EXCEPT ![scan[s].cur].stage = "CLOSED"]
      BY <1>6 DEF MarkNotOwned, EndRow, ScanUnchanged
  <2>2. scan[s].cur # n  BY <1>0, <2>1 DEF HarmlessScan
  <2>3. RowFinal(n)'
    <3>1. row'[n] = row[n]  BY <2>1, <2>2 DEF TypeOK
    <3>. QED  BY <1>0, <3>1 DEF RowFinal
  <2>4. OtherScansKept(s) /\ HarmlessScan(s, n)'
      BY <1>0, <2>1, EndRowLocals DEF HarmlessScan
  <2>. QED  BY <1>0, <1>1, <2>1, <2>3, <2>4
<1>7. ASSUME NEW complete \in BOOLEAN, ReadPreviousSnapshot(s, complete)  PROVE Settled(n)'
  <2>1. UNCHANGED <<chain, row, snap, seen>>  BY <1>7 DEF ReadPreviousSnapshot, ScanUnchanged
  <2>2. OtherScansKept(s) /\ HarmlessScan(s, n)'
      BY <1>0, <1>7, <2>1, ReadPreviousLocals DEF HarmlessScan
  <2>. QED  BY <1>0, <1>1, <2>1, <2>2 DEF RowFinal
<1>8. CASE UpsertRow(s)
  <2>1. UNCHANGED <<chain, snap, seen>> /\ scan' = [scan EXCEPT ![s].pc = "save"] /\ scan[s].pc = "upsert"
      BY <1>8 DEF UpsertRow, ScanUnchanged
  <2>2. /\ OtherScansKept(s) /\ scan'[s].pc = "save" /\ scan'[s].cur = scan[s].cur
        /\ scan'[s].active = scan[s].active /\ scan'[s].final = scan[s].final
      BY <2>1, PcOnlyLocals
  <2>3. RowFinal(n)'
      BY <1>0, <1>8 DEF UpsertRow, LiveStage, HarmlessScan, RowFinal, TypeOK
  <2>4. HarmlessScan(s, n)'  BY <1>0, <2>1, <2>2 DEF HarmlessScan
  <2>. QED  BY <1>0, <1>1, <2>1, <2>2, <2>3, <2>4
<1>9. CASE SaveSnapshot(s)
  <2>1. UNCHANGED <<chain, row, seen>> /\ scan' = [scan EXCEPT ![s].pc = "link"] /\ scan[s].pc = "save"
      BY <1>9 DEF SaveSnapshot, ScanUnchanged
  <2>2. /\ OtherScansKept(s) /\ scan'[s].pc = "link" /\ scan'[s].cur = scan[s].cur
        /\ scan'[s].active = scan[s].active /\ scan'[s].final = scan[s].final
      BY <2>1, PcOnlyLocals
  <2>3. snap'[n].final
      BY <1>0, <1>9 DEF SaveSnapshot, HarmlessScan, TypeOK
  <2>4. HarmlessScan(s, n)'  BY <1>0, <2>1, <2>2 DEF HarmlessScan
  <2>. QED  BY <1>0, <1>1, <2>1, <2>2, <2>3, <2>4 DEF RowFinal
<1>10. CASE LinkOpening(s)
  <2>1. UNCHANGED <<chain, snap, seen>> /\ EndRow(s) /\ scan[s].cur \in Nfts
      BY <1>0, <1>10 DEF LinkOpening, EndRow
  <2>2. row' = row \/ \E g : row' = [row EXCEPT ![scan[s].cur].gas = g]
      BY <1>10 DEF LinkOpening
  <2>3. RowFinal(n)'
    <3>1. CASE row' = row  BY <1>0, <3>1 DEF RowFinal
    <3>2. CASE \E g : row' = [row EXCEPT ![scan[s].cur].gas = g]
        BY <1>0, <2>1, <3>2, GasKeepsFinal
    <3>. QED  BY <2>2, <3>1, <3>2
  <2>4. OtherScansKept(s) /\ HarmlessScan(s, n)'
      BY <1>0, <2>1, EndRowLocals DEF HarmlessScan
  <2>. QED  BY <1>0, <1>1, <2>1, <2>3, <2>4
<1>11. CASE OpeningUnknown(s)
  <2>1. UNCHANGED <<chain, row, snap, seen>> /\ EndRow(s)
      BY <1>11 DEF OpeningUnknown, EndRow, ScanUnchanged
  <2>2. OtherScansKept(s) /\ HarmlessScan(s, n)'
      BY <1>0, <2>1, EndRowLocals DEF HarmlessScan
  <2>. QED  BY <1>0, <1>1, <2>1, <2>2 DEF RowFinal
<1>12. CASE FinishScan(s) \/ FailScan(s)
  <2>1. EndScan(s)  BY <1>12 DEF FinishScan, FailScan
  <2>2. UNCHANGED <<chain, row, snap>> /\ seen' = [seen EXCEPT ![s] = NothingSeen]
      BY <2>1 DEF EndScan, ScanUnchanged
  <2>3. seen'[s][n] = "none" /\ \A t \in Scanners : t # s => seen'[t] = seen[t]
    <3>1. NothingSeen[n] = "none"  BY DEF NothingSeen
    <3>. QED  BY <2>2, <3>1 DEF TypeOK
  <2>4. OtherScansKept(s) /\ HarmlessScan(s, n)'
      BY <1>0, <2>1, <2>3, EndScanLocals DEF HarmlessScan
  <2>. QED  BY <1>0, <1>1, <2>2, <2>3, <2>4 DEF RowFinal
<1>. QED  BY <1>2, <1>3, <1>4, <1>5, <1>6, <1>7, <1>8, <1>9, <1>10, <1>11, <1>12 DEF ScanStep

(* Final accounting that no evidence in flight contradicts is permanent    *)
(* while the empty NFT is owned, for any number of scans and receipts.     *)
THEOREM SettledStable == Spec => SettledIsStable
<1>1. TypeOK /\ LocalsOK /\ [Next]_vars =>
         [\A n \in Nfts : Settled(n) /\ chain'[n] = "empty" => Settled(n)']_vars
  <2>. SUFFICES ASSUME TypeOK, LocalsOK, Next, NEW n \in Nfts, Settled(n), chain'[n] = "empty"
                PROVE  Settled(n)'
      OBVIOUS
  <2>0. RowFinal(n) /\ snap[n].final /\ \A s \in Scanners : HarmlessScan(s, n)
      BY DEF Settled, RowFinal
  <2>1. ASSUME UNCHANGED <<scan, seen>>, RowFinal(n)', snap'[n].final  PROVE Settled(n)'
      BY <2>0, <2>1 DEF Settled, RowFinal, HarmlessScan
  <2>2. CASE ChainNext \/ Restart \/ Serve \/ \E m \in Nfts : RepairSkip(m)
    <3>1. UNCHANGED <<scan, seen, row, snap>>
        BY <2>2 DEF ChainNext, Mint, Drain, Refill, TransferOut, ChainUnchanged, Restart, Serve, RepairSkip,
                    StoreUnchanged
    <3>. QED  BY <2>0, <2>1, <3>1 DEF RowFinal
  <2>3. CASE Crash
    <3>1. UNCHANGED <<row, snap>>  BY <2>3 DEF Crash
    <3>2. \A s \in Scanners : HarmlessScan(s, n)'
        BY <2>3, NoneAssumption DEF Crash, Idle, NothingSeen, HarmlessScan
    <3>. QED  BY <2>0, <3>1, <3>2 DEF Settled, RowFinal
  <2>4. ASSUME NEW m \in Nfts, RepairFreeze(m)  PROVE Settled(n)'
    <3>1. UNCHANGED <<scan, seen, snap>>  BY <2>4 DEF RepairFreeze, StoreUnchanged
    <3>2. RowFinal(n)'  BY <2>0, <2>4 DEF RepairFreeze, Frozen, RowFinal, TypeOK
    <3>. QED  BY <2>0, <2>1, <3>1, <3>2
  <2>5. CASE RepairAttach
    <3>1. UNCHANGED <<scan, seen, row>>  BY <2>5 DEF RepairAttach, StoreUnchanged
    <3>2. snap'[n].final  BY <2>0, <2>5 DEF RepairAttach, WithFinal, TypeOK
    <3>. QED  BY <2>0, <2>1, <3>1, <3>2 DEF RowFinal
  <2>6. ASSUME NEW p \in Posts, NewPost(p) \/ PostStep(p)  PROVE Settled(n)'
    <3>0. UNCHANGED <<scan, seen>>
        BY <2>6 DEF NewPost, PostOpening, BeginPost, PostStep, RecordEvent, AddGas, ReadForClose,
                    SumEvents, FreezeRow, AttachFinal, PostUnchanged
    <3>1. CASE AddGas(p)
      <4>1. \E g : row' = [row EXCEPT ![post[p].nft].gas = g]  BY <3>1 DEF AddGas
      <4>2. post[p].nft \in Nfts /\ snap' = snap  BY <3>1 DEF AddGas, LocalsOK
      <4>. QED  BY <2>0, <2>1, <3>0, <4>1, <4>2, GasKeepsFinal
    <3>2. CASE FreezeRow(p)
      <4>1. RowFinal(n)' /\ snap' = snap
          BY <2>0, <3>2 DEF FreezeRow, Frozen, RowFinal, TypeOK
      <4>. QED  BY <2>0, <2>1, <3>0, <4>1
    <3>3. CASE AttachFinal(p)
      <4>1. row' = row /\ snap'[n].final
          BY <2>0, <3>3 DEF AttachFinal, WithFinal, TypeOK
      <4>. QED  BY <2>0, <2>1, <3>0, <4>1 DEF RowFinal
    <3>4. CASE NewPost(p) \/ RecordEvent(p) \/ ReadForClose(p) \/ SumEvents(p)
      <4>1. UNCHANGED <<row, snap>>
          BY <3>4 DEF NewPost, PostOpening, BeginPost, RecordEvent, ReadForClose, SumEvents
      <4>. QED  BY <2>0, <2>1, <3>0, <4>1 DEF RowFinal
    <3>. QED  BY <2>6, <3>1, <3>2, <3>3, <3>4 DEF PostStep
  <2>. QED  BY <2>2, <2>3, <2>4, <2>5, <2>6, ScanKeepsSettled DEF Next, RepairStep
<1>. QED  BY <1>1, InitTyped, NextTyped, PTL DEF Spec, SettledIsStable

(***************************************************************************)
(* PositionLifecycle implements CloseLedger: each step of a scanner, a     *)
(* request, a crash or the repair is a step of the abstract accounting of  *)
(* closes or leaves it unchanged.                                          *)
(***************************************************************************)
ClosesKept == \A n \in Nfts : events'[n].closes = events[n].closes

LEMMA ReceiptsKept == ASSUME ClosesKept PROVE Receipts' = Receipts
BY DEF ClosesKept, Receipts

(* A step that leaves the rows' and the snapshots' finality alone is one   *)
(* of the abstract readings, if it disturbs no settled accounting.         *)
LEMMA ReadingStep ==
    ASSUME chain' = chain, ClosesKept, \A n \in Nfts : Accounted(n)' = Accounted(n),
           \A n \in Nfts : Settled(n) => Settled(n)'
    PROVE  Ledger!Readings
<1>1. Receipts' = Receipts  BY ReceiptsKept
<1>2. Accounting' = Accounting  BY DEF Accounting
<1>3. Disturbance' \in [Nfts -> BOOLEAN]  BY DEF Disturbance, Disturbed
<1>4. ASSUME NEW n \in Nfts, Disturbance'[n], ~Disturbance[n],
             Accounting[n] = "full", chain[n] = "empty"
      PROVE  FALSE
  <2>1. Disturbed(n)' /\ ~Disturbed(n) /\ Accounted(n) = "full"
      BY <1>4 DEF Disturbance, Accounting
  <2>2. Settled(n)  BY <1>4, <2>1 DEF Settled, Disturbed, Accounted
  <2>3. Settled(n)'  BY <2>2
  <2>. QED  BY <2>1, <2>3 DEF Settled, Disturbed
<1>. QED  BY <1>1, <1>2, <1>3, <1>4 DEF Ledger!Readings

AbstractFrame(n) ==
    /\ chain' = chain /\ ClosesKept
    /\ \A m \in Nfts \ {n} : Accounted(m)' = Accounted(m)

Lower(n) == Ledger!Rank(Accounted(n)') < Ledger!Rank(Accounted(n))
Higher(n) == Ledger!Rank(Accounted(n)') > Ledger!Rank(Accounted(n))

LEMMA RankInjective ==
    ASSUME NEW a \in {"none", "partial", "full"}, NEW b \in {"none", "partial", "full"}
    PROVE  a = b \/ Ledger!Rank(a) < Ledger!Rank(b) \/ Ledger!Rank(a) > Ledger!Rank(b)
BY DEF Ledger!Rank

LEMMA AccountedLevel ==
    ASSUME NEW n
    PROVE  Accounted(n) \in {"none", "partial", "full"} /\ Accounted(n)' \in {"none", "partial", "full"}
BY DEF Accounted

(* A step that raises the accounting of one NFT and changes no reading.    *)
LEMMA AccountStep ==
    ASSUME NEW n \in Nfts, AbstractFrame(n), Higher(n), Receipted(n),
           \A m \in Nfts : Disturbed(m)' = Disturbed(m)
    PROVE  Ledger!Account(n)
<1>1. Receipts' = Receipts /\ Receipts[n]
    BY ReceiptsKept DEF AbstractFrame, Receipts, Receipted
<1>2. Disturbance' = Disturbance  BY DEF Disturbance
<1>3. Accounting' = [Accounting EXCEPT ![n] = Accounted(n)']
    BY DEF Accounting, AbstractFrame
<1>4. Accounted(n)' \in Ledger!Levels /\ Accounting[n] = Accounted(n)
    BY AccountedLevel DEF Ledger!Levels, Accounting
<1>. QED  BY <1>1, <1>2, <1>3, <1>4 DEF Ledger!Account, Higher, AbstractFrame

(* A step that lowers the accounting of one NFT and may end its reading.   *)
LEMMA LapseStep ==
    ASSUME NEW n \in Nfts, AbstractFrame(n), Lower(n), Disturbed(n),
           \A m \in Nfts \ {n} : Disturbed(m)' = Disturbed(m)
    PROVE  Ledger!Lapse(n)
<1>1. Receipts' = Receipts  BY ReceiptsKept DEF AbstractFrame
<1>2. Disturbance' \in {Disturbance, [Disturbance EXCEPT ![n] = FALSE]} /\ Disturbance[n]
  <2>1. CASE Disturbed(n)'
    <3>1. \A m \in Nfts : Disturbed(m)' = Disturbed(m)  BY <2>1 DEF Disturbed
    <3>. QED  BY <3>1 DEF Disturbance
  <2>2. CASE ~Disturbed(n)'
    <3>1. Disturbance' = [Disturbance EXCEPT ![n] = FALSE]  BY <2>2 DEF Disturbance, Disturbed
    <3>. QED  BY <3>1 DEF Disturbance
  <2>. QED  BY <2>1, <2>2
<1>3. Accounting' = [Accounting EXCEPT ![n] = Accounted(n)']
    BY DEF Accounting, AbstractFrame
<1>4. Accounted(n)' \in Ledger!Levels /\ Accounting[n] = Accounted(n)
    BY AccountedLevel DEF Ledger!Levels, Accounting
<1>. QED  BY <1>1, <1>2, <1>3, <1>4 DEF Ledger!Lapse, Lower, AbstractFrame

(* Steps that touch no reading at all.                                     *)
LEMMA ReadingsKept ==
    ASSUME UNCHANGED <<scan, seen>>
    PROVE  \A m \in Nfts : Disturbed(m)' = Disturbed(m)
BY DEF Disturbed, HarmlessScan

LEMMA SettledKept ==
    ASSUME UNCHANGED <<chain, row, snap, scan, seen>>, NEW n, Settled(n)
    PROVE  Settled(n)'
BY DEF Settled, HarmlessScan

(* The abstract state does not see gas, openings or the bases of a row.    *)
LEMMA SameFinality ==
    ASSUME NEW n, row'[n].status = row[n].status, row'[n].stage = row[n].stage,
           snap'[n].final = snap[n].final
    PROVE  Accounted(n)' = Accounted(n)
BY DEF Accounted, IsFinal

(* A request or the repair freezes a row or a snapshot: accounting of one  *)
(* NFT may rise, and never sinks.                                          *)
LEMMA FreezeStep ==
    ASSUME NEW n \in Nfts, AbstractFrame(n), UNCHANGED <<scan, seen>>, Receipted(n), ~Lower(n),
           \A m \in Nfts : Settled(m) => Settled(m)'
    PROVE  Ledger!CNext
<1>1. CASE Higher(n)
    BY <1>1, AccountStep, ReadingsKept DEF Ledger!CNext
<1>2. CASE ~Higher(n)
  <2>1. Accounted(n)' = Accounted(n)
      BY <1>2, AccountedLevel, RankInjective DEF Higher, Lower
  <2>2. Ledger!Readings  BY <2>1, ReadingStep DEF AbstractFrame
  <2>. QED  BY <2>2 DEF Ledger!CNext
<1>. QED  BY <1>1, <1>2

(* The same for a scanner that writes row or snapshot: the accounting of   *)
(* its NFT rises on evidence, or sinks under a reading already disturbed.  *)
LEMMA WriteStep ==
    ASSUME NEW n \in Nfts, AbstractFrame(n), IsFinal(n)' => Receipted(n),
           Higher(n) => \A m \in Nfts : Disturbed(m)' = Disturbed(m),
           Lower(n) => Disturbed(n) /\ \A m \in Nfts \ {n} : Disturbed(m)' = Disturbed(m),
           \A m \in Nfts : Settled(m) => Settled(m)'
    PROVE  Ledger!CNext
<1>1. CASE Higher(n)
  <2>1. Accounted(n)' # "none"  BY <1>1, AccountedLevel DEF Higher, Ledger!Rank
  <2>2. IsFinal(n)'  BY <2>1 DEF Accounted, IsFinal
  <2>3. Ledger!Account(n)  BY <1>1, <2>2, AccountStep
  <2>. QED  BY <2>3 DEF Ledger!CNext
<1>2. CASE Lower(n)
    BY <1>2, LapseStep DEF Ledger!CNext
<1>3. CASE ~Higher(n) /\ ~Lower(n)
  <2>1. Accounted(n)' = Accounted(n)
      BY <1>3, AccountedLevel, RankInjective DEF Higher, Lower
  <2>2. Ledger!Readings  BY <2>1, ReadingStep DEF AbstractFrame
  <2>. QED  BY <2>2 DEF Ledger!CNext
<1>. QED  BY <1>1, <1>2, <1>3

(* The readings of other NFTs stay disturbed or not when one row ends.     *)
LEMMA OtherReadings ==
    ASSUME TypeOK, NEW s \in Scanners, OtherScansKept(s), seen' = seen, scan[s].cur \in Nfts,
           scan'[s].cur \in {scan[s].cur, None}
    PROVE  \A m \in Nfts \ {scan[s].cur} : Disturbed(m)' = Disturbed(m)
<1>. SUFFICES ASSUME NEW m \in Nfts \ {scan[s].cur}  PROVE Disturbed(m)' = Disturbed(m)
    OBVIOUS
<1>1. \A t \in Scanners : HarmlessScan(t, m)' = HarmlessScan(t, m)
  <2>1. HarmlessScan(s, m)' = HarmlessScan(s, m)  BY NoneAssumption DEF HarmlessScan
  <2>2. ASSUME NEW t \in Scanners, t # s  PROVE HarmlessScan(t, m)' = HarmlessScan(t, m)
      BY <2>2 DEF HarmlessScan, OtherScansKept
  <2>. QED  BY <2>1, <2>2
<1>. QED  BY <1>1 DEF Disturbed

(* Every step of a scanner is a reading, a gain on evidence or a lapse.    *)
LEMMA ScanRefines ==
    ASSUME TypeOK, LocalsOK, Evidence, OpenNeverFinal, NEW s \in Scanners,
           ScanStep(s) \/ BeginRefresh(s) \/ BeginImport(s)
    PROVE  Ledger!CNext
<1>1. \A n \in Nfts : Settled(n) => Settled(n)'  BY ScanKeepsSettled
<1>2. Evidence'  BY ScanKeepsEvidence
<1>3. \A n \in Nfts : row[n] \in Row /\ snap[n] \in Snapshot /\ events[n] \in Events
    BY DEF TypeOK
<1>4. scan[s].pc \notin {"idle", "rows"} => scan[s].cur \in Nfts  BY DEF LocalsOK
<1>5. ASSUME chain' = chain, ClosesKept, \A n \in Nfts : Accounted(n)' = Accounted(n)
      PROVE  Ledger!CNext
    BY <1>1, <1>5, ReadingStep DEF Ledger!CNext
<1>6. CASE \/ BeginRefresh(s) \/ BeginImport(s) \/ FinishScan(s) \/ FailScan(s) \/ OpeningUnknown(s)
           \/ \E n \in Nfts : Observe(s, n) \/ ObserveError(s, n) \/ SkipErrorRow(s, n) \/ ReadRow(s, n)
           \/ \E complete \in BOOLEAN : ReadPreviousSnapshot(s, complete)
  <2>1. UNCHANGED <<chain, row, snap, events>>
      BY <1>6 DEF BeginRefresh, BeginImport, FinishScan, FailScan, EndScan, OpeningUnknown, Observe,
                  ObserveError, ObserveAs, SkipErrorRow, ReadRow, ReadPreviousSnapshot, ScanUnchanged
  <2>. QED  BY <1>5, <2>1, SameFinality DEF ClosesKept
<1>7. CASE LinkOpening(s)
  <2>1. UNCHANGED <<chain, snap>>  BY <1>7 DEF LinkOpening
  <2>2. ClosesKept  BY <1>7 DEF LinkOpening, TypeOK, Events, ClosesKept
  <2>3. \A m \in Nfts : row'[m].stage = row[m].stage /\ row'[m].status = row[m].status
    <3>1. PICK g : row' = row \/ row' = [row EXCEPT ![scan[s].cur].gas = g]
        BY <1>7 DEF LinkOpening
    <3>. DEFINE r == [row[scan[s].cur] EXCEPT !.gas = g]
    <3>2. row' = row \/ row' = [row EXCEPT ![scan[s].cur] = r]  BY <3>1
    <3>3. scan[s].cur \in Nfts  BY <1>4, <1>7 DEF LinkOpening
    <3>4. r.stage = row[scan[s].cur].stage /\ r.status = row[scan[s].cur].status
        BY <1>3, <3>3 DEF Row
    <3>. HIDE DEF r
    <3>. QED  BY <3>2, <3>3, <3>4 DEF TypeOK
  <2>. QED  BY <1>5, <2>1, <2>2, <2>3, SameFinality
<1>8. ASSUME NEW n \in Nfts, CloseNotOwned(s, n)  PROVE Ledger!CNext
  <2>. DEFINE r == [row[n] EXCEPT !.status = "CLOSED"]
  <2>1. UNCHANGED <<chain, snap, events>> /\ (row' = row \/ row' = [row EXCEPT ![n] = r])
      BY <1>8 DEF CloseNotOwned, ScanUnchanged
  <2>2. r.status = "CLOSED" /\ r.stage = row[n].stage  BY <1>3 DEF Row
  <2>3. CloseNotOwned(s, n) => row' = row \/ Known(n)  BY DEF CloseNotOwned
  <2>4. Accounted(n)' = Accounted(n)
    <3>1. CASE row' = row  BY <2>1, <3>1, SameFinality
    <3>2. CASE row' = [row EXCEPT ![n] = r] /\ Known(n)
      <4>1. row'[n] = r  BY <3>2 DEF TypeOK
      <4>2. row[n].stage = "CLOSED_FINAL" => row[n].status = "CLOSED"
          BY <1>3, <3>2 DEF OpenNeverFinal, Row, Known
      <4>. HIDE DEF r
      <4>. QED  BY <2>1, <2>2, <4>1, <4>2 DEF Accounted, IsFinal
    <3>. HIDE DEF r
    <3>. QED  BY <1>8, <2>1, <2>3, <3>1, <3>2
  <2>5. \A m \in Nfts \ {n} : row'[m] = row[m]  BY <2>1 DEF TypeOK
  <2>6. \A m \in Nfts : Accounted(m)' = Accounted(m)  BY <2>1, <2>4, <2>5, SameFinality
  <2>. QED  BY <1>5, <2>1, <2>6 DEF ClosesKept
<1>9. CASE MarkNotOwned(s)
  <2>0. PICK n \in Nfts : n = scan[s].cur  BY <1>4, <1>9 DEF MarkNotOwned
  <2>. DEFINE r == [row[n] EXCEPT !.stage = "CLOSED"]
  <2>1. /\ UNCHANGED <<chain, snap, events, seen>> /\ EndRow(s) /\ n = scan[s].cur
        /\ scan[s].pc = "notes" /\ row' = [row EXCEPT ![n] = r]
      BY <2>0, <1>9 DEF MarkNotOwned, EndRow, ScanUnchanged
  <2>2. r.stage = "CLOSED"  BY <1>3, <2>1 DEF Row
  <2>3. row'[n].stage = "CLOSED" /\ \A m \in Nfts \ {n} : row'[m] = row[m]
      BY <2>1, <2>2 DEF TypeOK
  <2>4. ~Higher(n)  BY <2>1, <2>3 DEF Higher, Accounted, IsFinal, Ledger!Rank
  <2>5. Disturbed(n)  BY <2>1 DEF Disturbed, HarmlessScan
  <2>6. \A m \in Nfts \ {n} : Disturbed(m)' = Disturbed(m)
      BY <2>1, EndRowLocals, OtherReadings
  <2>7. AbstractFrame(n)  BY <2>1, <2>3, SameFinality DEF AbstractFrame, ClosesKept
  <2>8. IsFinal(n)' => Receipted(n)
      BY <1>2, <2>1 DEF Evidence, Receipted
  <2>. HIDE DEF r
  <2>. QED  BY <1>1, <2>1, <2>4, <2>5, <2>6, <2>7, <2>8, WriteStep
<1>10. CASE UpsertRow(s)
  <2>0. PICK n \in Nfts : n = scan[s].cur  BY <1>4, <1>10 DEF UpsertRow
  <2>. DEFINE r == [status |-> IF scan[s].active THEN "OPEN" ELSE "CLOSED",
                    stage |-> LiveStage(scan[s].active, scan[s].final), gas |-> scan[s].gas]
  <2>1. /\ UNCHANGED <<chain, snap, events, seen>> /\ n = scan[s].cur
        /\ scan[s].pc = "upsert" /\ row' = [row EXCEPT ![n] = r]
        /\ scan' = [scan EXCEPT ![s].pc = "save"]
      BY <2>0, <1>10 DEF UpsertRow, ScanUnchanged
  <2>2. /\ OtherScansKept(s) /\ scan'[s].pc = "save" /\ scan'[s].cur = scan[s].cur
        /\ scan'[s].active = scan[s].active /\ scan'[s].final = scan[s].final
      BY <2>1, PcOnlyLocals
  <2>3. row'[n] = r /\ \A m \in Nfts \ {n} : row'[m] = row[m]  BY <2>1 DEF TypeOK
  <2>4. \A m \in Nfts : Disturbed(m)' = Disturbed(m)
    <3>1. \A m \in Nfts, t \in Scanners : HarmlessScan(t, m)' = HarmlessScan(t, m)
        BY <2>1, <2>2 DEF HarmlessScan, OtherScansKept
    <3>. QED  BY <3>1 DEF Disturbed
  <2>5. Lower(n) => Disturbed(n)
    <3>1. CASE scan[s].active \/ ~scan[s].final
        BY <2>1, <3>1 DEF Disturbed, HarmlessScan
    <3>2. CASE ~scan[s].active /\ scan[s].final
      <4>1. r.status = "CLOSED" /\ r.stage = "CLOSED_FINAL"  BY <3>2 DEF LiveStage
      <4>2. row'[n].status = "CLOSED" /\ row'[n].stage = "CLOSED_FINAL" /\ snap' = snap
          BY <2>1, <2>3, <4>1
      <4>3. ~Lower(n)  BY <4>2 DEF Lower, Accounted, IsFinal, Ledger!Rank
      <4>. QED  BY <4>3
    <3>. QED  BY <3>1, <3>2
  <2>6. AbstractFrame(n)  BY <2>1, <2>3, SameFinality DEF AbstractFrame, ClosesKept
  <2>7. IsFinal(n)' => Receipted(n)  BY <1>2, <2>1 DEF Evidence, Receipted
  <2>. HIDE DEF r
  <2>. QED  BY <1>1, <2>1, <2>4, <2>5, <2>6, <2>7, WriteStep
<1>11. CASE SaveSnapshot(s)
  <2>0. PICK n \in Nfts : n = scan[s].cur  BY <1>4, <1>11 DEF SaveSnapshot
  <2>. DEFINE r == [saved |-> TRUE, basis |-> scan[s].basis, final |-> scan[s].final]
  <2>1. /\ UNCHANGED <<chain, row, events, seen>> /\ n = scan[s].cur
        /\ scan[s].pc = "save" /\ snap' = [snap EXCEPT ![n] = r]
        /\ scan' = [scan EXCEPT ![s].pc = "link"]
      BY <2>0, <1>11 DEF SaveSnapshot, ScanUnchanged
  <2>2. /\ OtherScansKept(s) /\ scan'[s].pc = "link" /\ scan'[s].cur = scan[s].cur
        /\ scan'[s].active = scan[s].active /\ scan'[s].final = scan[s].final
      BY <2>1, PcOnlyLocals
  <2>3. snap'[n] = r /\ \A m \in Nfts \ {n} : snap'[m] = snap[m]  BY <2>1 DEF TypeOK
  <2>4. snap'[n].final = scan[s].final  BY <2>3
  <2>5. Higher(n) => \A m \in Nfts : Disturbed(m)' = Disturbed(m)
    <3>. SUFFICES ASSUME Higher(n)  PROVE \A m \in Nfts : Disturbed(m)' = Disturbed(m)
        OBVIOUS
    <3>1. scan[s].final  BY <2>1, <2>4, <1>3 DEF Higher, Accounted, IsFinal, Ledger!Rank
    <3>2. \A m \in Nfts, t \in Scanners : HarmlessScan(t, m)' = HarmlessScan(t, m)
        BY <2>1, <2>2, <3>1 DEF HarmlessScan, OtherScansKept
    <3>. QED  BY <3>2 DEF Disturbed
  <2>6. Lower(n) => Disturbed(n)
    <3>1. CASE ~scan[s].final  BY <2>1, <3>1 DEF Disturbed, HarmlessScan
    <3>2. CASE scan[s].final
      <4>1. ~Lower(n)  BY <2>1, <2>4, <3>2 DEF Lower, Accounted, IsFinal, Ledger!Rank
      <4>. QED  BY <4>1
    <3>. QED  BY <3>1, <3>2
  <2>7. \A m \in Nfts \ {n} : Disturbed(m)' = Disturbed(m)
      BY <2>1, <2>2, OtherReadings
  <2>8. AbstractFrame(n)  BY <2>1, <2>3, SameFinality DEF AbstractFrame, ClosesKept
  <2>9. IsFinal(n)' => Receipted(n)  BY <1>2, <2>1 DEF Evidence, Receipted
  <2>. HIDE DEF r
  <2>. QED  BY <1>1, <2>1, <2>5, <2>6, <2>7, <2>8, <2>9, WriteStep
<1>. QED  BY <1>6, <1>7, <1>8, <1>9, <1>10, <1>11 DEF ScanStep

(* Receipts: recording the first close event confirms it, freezing a row   *)
(* or a snapshot raises the accounting, and nothing else is visible.       *)
LEMMA PostRefines ==
    ASSUME TypeOK, LocalsOK, Evidence, NEW p \in Posts, NewPost(p) \/ PostStep(p),
           \A n \in Nfts : Settled(n) => Settled(n)'
    PROVE  [Ledger!CNext]_(Ledger!cvars)
<1>0. /\ UNCHANGED <<chain, scan, seen>>
      /\ \A n \in Nfts : row[n] \in Row /\ snap[n] \in Snapshot /\ events[n] \in Events
    BY DEF NewPost, PostOpening, BeginPost, PostStep, RecordEvent, AddGas, ReadForClose, SumEvents,
           FreezeRow, AttachFinal, PostUnchanged, TypeOK
<1>1. ASSUME ClosesKept, \A n \in Nfts : Accounted(n)' = Accounted(n)  PROVE Ledger!CNext
    BY <1>0, <1>1, ReadingStep DEF Ledger!CNext
<1>2. CASE NewPost(p) \/ ReadForClose(p) \/ SumEvents(p)
  <2>1. UNCHANGED <<row, snap>>
      BY <1>2 DEF NewPost, PostOpening, BeginPost, ReadForClose, SumEvents
  <2>2. ClosesKept
      BY <1>0, <1>2 DEF NewPost, PostOpening, BeginPost, ReadForClose, SumEvents, ClosesKept, TypeOK, Events
  <2>. QED  BY <1>1, <2>1, <2>2, SameFinality
<1>3. CASE RecordEvent(p)
  <2>. DEFINE n == post[p].nft
              e == WithReceipt(events[n], post[p].kind)
  <2>1. UNCHANGED <<row, snap>> /\ n \in Nfts  BY <1>3 DEF RecordEvent, LocalsOK
  <2>2. \A m \in Nfts : Accounted(m)' = Accounted(m)  BY <2>1, SameFinality
  <2>3. events' = events \/ (events' = [events EXCEPT ![n] = e] /\ post[p].confirmed)
      BY <1>3 DEF RecordEvent
  <2>4. /\ e.closes \in {events[n].closes, events[n].closes + 1}
        /\ post[p].kind # "CLOSE_POSITION" => e.closes = events[n].closes
      BY <1>0, <2>1 DEF WithReceipt, Events
  <2>5. CASE ClosesKept  BY <1>1, <2>2, <2>5
  <2>6. CASE ~ClosesKept
    <3>0. events' = [events EXCEPT ![n] = e] /\ post[p].confirmed  BY <2>3, <2>6 DEF ClosesKept
    <3>. HIDE DEF e
    <3>1. events'[n] = e /\ \A m \in Nfts \ {n} : events'[m] = events[m]
        BY <2>1, <3>0 DEF TypeOK
    <3>2. e.closes = events[n].closes + 1 /\ post[p].kind = "CLOSE_POSITION"
        BY <2>4, <2>6, <3>1 DEF ClosesKept
    <3>3. events[n].closes \in Nat  BY <1>0, <2>1 DEF Events
    <3>5. Receipts' = [Receipts EXCEPT ![n] = TRUE]
      <4>1. events'[n].closes > 0  BY <3>1, <3>2, <3>3
      <4>. QED  BY <2>1, <3>1, <4>1 DEF Receipts
    <3>6. UNCHANGED <<Accounting, Disturbance>>
        BY <1>0, <2>2, ReadingsKept DEF Accounting, Disturbance
    <3>7. CASE Receipts[n]
      <4>1. Receipts' = Receipts  BY <2>1, <3>5, <3>7 DEF Receipts
      <4>. QED  BY <1>0, <3>6, <4>1 DEF Ledger!cvars
    <3>8. CASE ~Receipts[n]
      <4>1. Ledger!Confirm(n)  BY <1>0, <3>5, <3>6, <3>8 DEF Ledger!Confirm
      <4>. QED  BY <2>1, <4>1 DEF Ledger!CNext
    <3>. QED  BY <3>7, <3>8
  <2>. QED  BY <2>5, <2>6
<1>4. CASE AddGas(p)
  <2>. DEFINE n == post[p].nft
              r == [row[n] EXCEPT !.gas = row[n].gas + 1]
  <2>1. UNCHANGED <<snap, events>> /\ n \in Nfts /\ row' = [row EXCEPT ![n] = r]
      BY <1>4 DEF AddGas, LocalsOK
  <2>2. r.stage = row[n].stage /\ r.status = row[n].status  BY <1>0, <2>1 DEF Row
  <2>3. \A m \in Nfts : row'[m].stage = row[m].stage /\ row'[m].status = row[m].status
    <3>. HIDE DEF r
    <3>. QED  BY <2>1, <2>2 DEF TypeOK
  <2>. QED  BY <1>1, <2>1, <2>3, SameFinality DEF ClosesKept
<1>5. CASE FreezeRow(p)
  <2>0. PICK n \in Nfts : n = post[p].nft  BY <1>5 DEF FreezeRow, LocalsOK
  <2>1. UNCHANGED <<snap, events>> /\ row' = [row EXCEPT ![n] = Frozen(post[p].gas)]
      BY <2>0, <1>5 DEF FreezeRow
  <2>2. /\ row'[n].status = "CLOSED" /\ row'[n].stage = "CLOSED_FINAL"
        /\ \A m \in Nfts \ {n} : row'[m] = row[m]
      BY <2>1 DEF TypeOK, Frozen
  <2>3. AbstractFrame(n)  BY <1>0, <2>1, <2>2, SameFinality DEF AbstractFrame, ClosesKept
  <2>4. ~Lower(n)  BY <2>1, <2>2 DEF Lower, Accounted, IsFinal, Ledger!Rank
  <2>5. Receipted(n)  BY <1>5, <2>0 DEF FreezeRow, Evidence, PostBacked
  <2>. QED  BY <1>0, <2>3, <2>4, <2>5, FreezeStep
<1>6. CASE AttachFinal(p)
  <2>0. PICK n \in Nfts : n = post[p].nft  BY <1>6 DEF AttachFinal, LocalsOK
  <2>1. UNCHANGED <<row, events>> /\ snap' = [snap EXCEPT ![n] = WithFinal]
      BY <2>0, <1>6 DEF AttachFinal
  <2>2. snap'[n].final /\ \A m \in Nfts \ {n} : snap'[m] = snap[m]
      BY <2>1 DEF TypeOK, WithFinal
  <2>3. AbstractFrame(n)  BY <1>0, <2>1, <2>2, SameFinality DEF AbstractFrame, ClosesKept
  <2>4. ~Lower(n)  BY <2>1, <2>2 DEF Lower, Accounted, IsFinal, Ledger!Rank
  <2>5. Receipted(n)  BY <1>6, <2>0 DEF AttachFinal, Evidence, PostBacked
  <2>. QED  BY <1>0, <2>3, <2>4, <2>5, FreezeStep
<1>. QED  BY <1>2, <1>3, <1>4, <1>5, <1>6 DEF PostStep

(* The chain moves, the process stops, starts and repairs.                 *)
LEMMA RestRefines ==
    ASSUME TypeOK, LocalsOK, Evidence, ChainNext \/ Crash \/ Restart \/ RepairStep,
           \A n \in Nfts : Settled(n) /\ chain'[n] = "empty" => Settled(n)'
    PROVE  [Ledger!CNext]_(Ledger!cvars)
<1>1. ASSUME NEW n \in Nfts, Mint(n) \/ Drain(n) \/ Refill(n) \/ TransferOut(n)  PROVE Ledger!CNext
  <2>1. UNCHANGED <<row, snap, events, scan, seen>>
      BY <1>1 DEF Mint, Drain, Refill, TransferOut, ChainUnchanged
  <2>2. UNCHANGED <<Receipts, Accounting, Disturbance>>
      BY <2>1, ReadingsKept, SameFinality DEF Receipts, Accounting, Disturbance
  <2>3. \E now \in {"active", "empty", "gone"} :
           <<chain[n], now>> \in Ledger!Moves /\ chain' = [chain EXCEPT ![n] = now]
      BY <1>1 DEF Mint, Drain, Refill, TransferOut, Ledger!Moves
  <2>4. Ledger!Move(n)  BY <2>2, <2>3 DEF Ledger!Move
  <2>. QED  BY <2>4 DEF Ledger!CNext
<1>2. CASE Crash \/ Restart \/ Serve \/ \E n \in Nfts : RepairSkip(n)
  <2>1. UNCHANGED <<chain, row, snap, events>>
      BY <1>2 DEF Crash, Restart, Serve, RepairSkip, StoreUnchanged
  <2>2. \A n \in Nfts : Settled(n) => Settled(n)'  BY <2>1 DEF Settled
  <2>3. Ledger!Readings  BY <2>1, <2>2, SameFinality, ReadingStep DEF ClosesKept
  <2>. QED  BY <2>3 DEF Ledger!CNext
<1>3. ASSUME NEW n \in Nfts, RepairFreeze(n)  PROVE Ledger!CNext
  <2>1. /\ UNCHANGED <<chain, snap, events, scan, seen>> /\ Receipted(n)
        /\ row' = [row EXCEPT ![n] = Frozen(EventGas(n))]
      BY <1>3 DEF RepairFreeze, Repairable, StoreUnchanged, Receipted
  <2>2. /\ row'[n].status = "CLOSED" /\ row'[n].stage = "CLOSED_FINAL"
        /\ \A m \in Nfts \ {n} : row'[m] = row[m]
      BY <2>1 DEF TypeOK, Frozen
  <2>3. AbstractFrame(n)  BY <2>1, <2>2, SameFinality DEF AbstractFrame, ClosesKept
  <2>4. ~Lower(n)  BY <2>1, <2>2 DEF Lower, Accounted, IsFinal, Ledger!Rank
  <2>5. \A m \in Nfts : Settled(m) => Settled(m)'  BY <2>1 DEF Settled
  <2>. QED  BY <2>1, <2>3, <2>4, <2>5, FreezeStep
<1>4. CASE RepairAttach
  <2>0. PICK n \in Nfts : n = repair.cur /\ Receipted(n)
      BY <1>4 DEF RepairAttach, TypeOK, Evidence
  <2>1. UNCHANGED <<chain, row, events, scan, seen>> /\ snap' = [snap EXCEPT ![n] = WithFinal]
      BY <1>4, <2>0 DEF RepairAttach, StoreUnchanged
  <2>2. snap'[n].final /\ \A m \in Nfts \ {n} : snap'[m] = snap[m]
      BY <2>1 DEF TypeOK, WithFinal
  <2>3. AbstractFrame(n)  BY <2>1, <2>2, SameFinality DEF AbstractFrame, ClosesKept
  <2>4. ~Lower(n)  BY <2>1, <2>2 DEF Lower, Accounted, IsFinal, Ledger!Rank
  <2>5. \A m \in Nfts : Settled(m) => Settled(m)'  BY <2>1 DEF Settled
  <2>. QED  BY <2>0, <2>1, <2>3, <2>4, <2>5, FreezeStep
<1>. QED  BY <1>1, <1>2, <1>3, <1>4 DEF ChainNext, RepairStep

(* The lifecycle implements the abstract accounting of closes: final       *)
(* accounting comes from a recorded receipt, and is lost only to a reading *)
(* in flight that contradicts it; none arises while the accounting is full *)
(* and the empty NFT owned, whatever the threads, requests, crashes and    *)
(* repairs.                                                                *)
THEOREM Refinement == Spec => ImplementsCloseLedger
<1>1. Init => Ledger!CInit
  <2>. SUFFICES ASSUME Init  PROVE Ledger!CInit
      OBVIOUS
  <2>1. \A n \in Nfts : events[n].closes = 0 /\ Accounted(n) = "none"
      BY DEF Init, Accounted, IsFinal
  <2>2. \A n \in Nfts : ~Disturbed(n)
      BY NoneAssumption DEF Init, Disturbed, HarmlessScan, Idle, NothingSeen
  <2>3. Receipts = [n \in Nfts |-> FALSE]
    <3>1. \A n \in Nfts : (events[n].closes > 0) = FALSE  BY <2>1
    <3>. QED  BY <3>1, Zenon DEF Receipts
  <2>4. Accounting = [n \in Nfts |-> "none"]  BY <2>1 DEF Accounting
  <2>5. Disturbance = [n \in Nfts |-> FALSE]
    <3>1. \A n \in Nfts : Disturbed(n) = FALSE  BY <2>2 DEF Disturbed
    <3>. QED  BY <3>1, Zenon DEF Disturbance
  <2>. QED  BY <2>3, <2>4, <2>5 DEF Init, Ledger!CInit
<1>2. Init => Evidence /\ OpenNeverFinal
    BY DEF Init, Evidence, IsFinal, Receipted, ScanBacked, PostBacked, Idle, Unsent, NoRepair,
           OpenNeverFinal
<1>3. TypeOK /\ LocalsOK /\ Evidence /\ [Next]_vars => Evidence'
  <2>. SUFFICES ASSUME TypeOK, LocalsOK, Evidence, [Next]_vars  PROVE Evidence'
      OBVIOUS
  <2>1. CASE UNCHANGED vars
      BY <2>1 DEF vars, Evidence, ScanBacked, PostBacked, IsFinal, Receipted, Drained, Spent
  <2>2. CASE Next
      BY <2>2, ScanKeepsEvidence, ReceiptKeepsEvidence, RestKeepsEvidence DEF Next
  <2>. QED  BY <2>1, <2>2
<1>4. TypeOK /\ LocalsOK /\ Evidence /\ OpenNeverFinal /\ [Next]_vars
         /\ [\A n \in Nfts : Settled(n) /\ chain'[n] = "empty" => Settled(n)']_vars
      => [Ledger!CNext]_(Ledger!cvars)
  <2>. SUFFICES ASSUME TypeOK, LocalsOK, Evidence, OpenNeverFinal, [Next]_vars,
                       [\A n \in Nfts : Settled(n) /\ chain'[n] = "empty" => Settled(n)']_vars
                PROVE  [Ledger!CNext]_(Ledger!cvars)
      OBVIOUS
  <2>1. CASE UNCHANGED vars
    <3>1. UNCHANGED <<Receipts, Accounting, Disturbance>>
        BY <2>1, ReadingsKept, SameFinality DEF vars, Receipts, Accounting, Disturbance
    <3>. QED  BY <2>1, <3>1 DEF vars, Ledger!cvars
  <2>2. CASE Next /\ ~UNCHANGED vars
    <3>1. \A n \in Nfts : Settled(n) /\ chain'[n] = "empty" => Settled(n)'  BY <2>2
    <3>2. ASSUME NEW p \in Posts, NewPost(p) \/ PostStep(p)  PROVE [Ledger!CNext]_(Ledger!cvars)
      <4>1. chain' = chain
          BY <3>2 DEF NewPost, PostOpening, BeginPost, PostStep, RecordEvent, AddGas, ReadForClose,
                      SumEvents, FreezeRow, AttachFinal, PostUnchanged
      <4>2. \A n \in Nfts : Settled(n) => Settled(n)'  BY <3>1, <4>1 DEF Settled
      <4>. QED  BY <3>2, <4>2, PostRefines
    <3>. QED  BY <2>2, <3>1, <3>2, ScanRefines, RestRefines DEF Next
  <2>. QED  BY <2>1, <2>2
<1>5. Spec => []OpenNeverFinal  BY OpenOrFinal
<1>6. Spec => [][\A n \in Nfts : Settled(n) /\ chain'[n] = "empty" => Settled(n)']_vars
    BY SettledStable DEF SettledIsStable
<1>. QED  BY <1>1, <1>2, <1>3, <1>4, <1>5, <1>6, InitTyped, NextTyped, PTL
          DEF Spec, ImplementsCloseLedger, Ledger!CSpec
===============================================================================
