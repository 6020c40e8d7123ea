--------------------------- MODULE PositionLifecycle ---------------------------
(***************************************************************************)
(* How one NFT's rows in the store change while the live refresh, the      *)
(* operator's opening-transaction import, the browser's execution receipts *)
(* and the startup repair all write them, each store call being its own    *)
(* SQLite transaction (Store.connect opens a connection per method).       *)
(*                                                                         *)
(* Gas is counted in receipts: every confirmed receipt costs one unit.     *)
(* Prices, amounts and fees are abstracted (module FeeTracker has fees).   *)
(***************************************************************************)
EXTENDS Integers, FiniteSets

CONSTANTS
    Nfts,        \* Uniswap V3 position NFTs of the configured wallet
    Refreshers,  \* threads that call refresh_positions: worker, HTTP handlers
    Importers,   \* HTTP threads that call import_opening_transactions
    Posts,       \* receipts the browser posts; each is sent at most once
    Priced,      \* NFTs whose close proceeds can be valued in USD
    MaxCrashes,  \* bound on process crashes
    None

ASSUME ActorsAssumption == Refreshers \cap Importers = {} /\ Priced \subseteq Nfts
ASSUME NoneAssumption == None \notin Nfts \cup Refreshers \cup Importers
ASSUME CrashAssumption == MaxCrashes \in Nat

Scanners == Refreshers \cup Importers

VARIABLES
    chain,    \* chain[n]: what ownerOf and positions() report for the NFT
    row,      \* table positions
    snap,     \* table position_snapshots
    events,   \* table financial_events, per NFT
    lock,     \* holder of LiveDataService._refresh_lock
    seen,     \* seen[s][n]: what scanner s has read of NFT n and not reconciled
    scan,     \* program counter and local values of each scanner
    post,     \* program counter and local values of each receipt request
    up,       \* process: serving, dead or repairing at startup
    repair,   \* local values of repair_confirmed_execution_closes
    crashes,
    leftover  \* history: NFTs that held liquidity when a confirmed close was
              \* posted, or were filled again after one

vars == <<chain, row, snap, events, lock, seen, scan, post, up, repair, crashes, leftover>>

ChainStates == {"unminted", "active", "empty", "gone"}
Row == [status : {"NONE", "OPEN", "CLOSED"},
        stage : {"NONE", "ACTIVE", "CLOSED", "CLOSED_FINAL"}, gas : Nat]
Snapshot == [saved : BOOLEAN, basis : BOOLEAN, final : BOOLEAN]
Events == [opening : {"none", "loose", "linked"}, receipts : Nat, closes : Nat]
Observations == {"none", "todo", "error", "not_owned", "active", "empty"}
Scan == [pc : {"idle", "rows", "notes", "snapshot", "upsert", "save", "link"},
         cur : Nfts \cup {None}, active : BOOLEAN, gas : Nat, final : BOOLEAN,
         basis : BOOLEAN]
Post == [pc : {"new", "event", "gas", "read", "sum", "freeze", "attach", "done"},
         kind : {"NONE", "OPEN_POSITION", "COLLECT_FEES", "CLOSE_POSITION"},
         nft : Nfts \cup {None}, confirmed : BOOLEAN, known : BOOLEAN, gas : Nat]

TypeOK ==
    /\ chain \in [Nfts -> ChainStates]
    /\ row \in [Nfts -> Row]
    /\ snap \in [Nfts -> Snapshot]
    /\ events \in [Nfts -> Events]
    /\ lock \in Refreshers \cup {None}
    /\ seen \in [Scanners -> [Nfts -> Observations]]
    /\ scan \in [Scanners -> Scan]
    /\ post \in [Posts -> Post]
    /\ up \in {"up", "down", "repair"}
    /\ repair \in [todo : SUBSET Nfts, cur : Nfts \cup {None}]
    /\ crashes \in 0..MaxCrashes
    /\ leftover \subseteq Nfts

Idle == [pc |-> "idle", cur |-> None, active |-> FALSE, gas |-> 0,
         final |-> FALSE, basis |-> FALSE]
NothingSeen == [n \in Nfts |-> "none"]
Unsent == [pc |-> "new", kind |-> "NONE", nft |-> None, confirmed |-> FALSE,
           known |-> FALSE, gas |-> 0]
NoRepair == [todo |-> {}, cur |-> None]

Init ==
    /\ chain = [n \in Nfts |-> "unminted"]
    /\ row = [n \in Nfts |-> [status |-> "NONE", stage |-> "NONE", gas |-> 0]]
    /\ snap = [n \in Nfts |-> [saved |-> FALSE, basis |-> FALSE, final |-> FALSE]]
    /\ events = [n \in Nfts |-> [opening |-> "none", receipts |-> 0, closes |-> 0]]
    /\ lock = None
    /\ seen = [s \in Scanners |-> NothingSeen]
    /\ scan = [s \in Scanners |-> Idle]
    /\ post = [p \in Posts |-> Unsent]
    /\ up = "up"
    /\ repair = NoRepair
    /\ crashes = 0
    /\ leftover = {}

Known(n) == row[n].status # "NONE"
(* Mutant: a position with a final snapshot is no longer read.             *)
LiveTokenIds_NotFinal == {n \in Nfts : row[n].status = "OPEN" /\ ~snap[n].final}

LiveTokenIds == {n \in Nfts : row[n].status = "OPEN"}
FinalizedTokenIds == {n \in Nfts : row[n].status = "CLOSED" /\ row[n].stage = "CLOSED_FINAL"}
EventGas(n) == events[n].receipts + (IF events[n].opening = "linked" THEN 1 ELSE 0)

Spent(n) == chain[n] \in {"empty", "gone"}
ClosePosted(n) ==
    \/ events[n].closes > 0
    \/ \E p \in Posts : post[p].kind = "CLOSE_POSITION" /\ post[p].nft = n /\ post[p].confirmed

--------------------------------------------------------------------------------
(***************************************************************************)
(* The wallet on chain, outside LP Manager.  The close call it builds is   *)
(* decreaseLiquidity + collect without a burn: the empty NFT stays owned,  *)
(* and the wallet may add liquidity to it again (increaseLiquidity).       *)
(***************************************************************************)
ChainUnchanged == UNCHANGED <<row, snap, events, lock, seen, scan, post, up, repair, crashes>>

Mint(n) ==
    /\ chain[n] = "unminted" /\ chain' = [chain EXCEPT ![n] = "active"]
    /\ ChainUnchanged /\ UNCHANGED leftover
Drain(n) ==
    /\ chain[n] = "active" /\ chain' = [chain EXCEPT ![n] = "empty"]
    /\ ChainUnchanged /\ UNCHANGED leftover
Refill(n) ==
    /\ chain[n] = "empty" /\ chain' = [chain EXCEPT ![n] = "active"]
    /\ leftover' = IF ClosePosted(n) THEN leftover \cup {n} ELSE leftover
    /\ ChainUnchanged
TransferOut(n) ==
    /\ chain[n] \in {"active", "empty"}
    /\ chain' = [chain EXCEPT ![n] = "gone"]
    /\ ChainUnchanged /\ UNCHANGED leftover

--------------------------------------------------------------------------------
(***************************************************************************)
(* Scanners: refresh_positions and import_opening_transactions.            *)
(***************************************************************************)
ScanUnchanged == UNCHANGED <<chain, events, post, up, repair, crashes, leftover>>

(* The known ids, plus whatever the owned-NFT indexes and logs return;     *)
(* only the refresh takes the lock and leaves the finalised ids out.       *)
BeginScan(s, batch) ==
    /\ scan' = [scan EXCEPT ![s].pc = "rows"]
    /\ seen' = [seen EXCEPT ![s] = [n \in Nfts |-> IF n \in batch THEN "todo" ELSE "none"]]

Discoverable == {n \in Nfts : chain[n] # "unminted"}

(* Mutant: the non-blocking acquire is forgotten.                          *)
BeginRefresh_NoLock(s) ==
    /\ up = "up" /\ s \in Refreshers /\ scan[s].pc = "idle"
    /\ lock' = s
    /\ \E found \in SUBSET Discoverable :
          BeginScan(s, (LiveTokenIds \cup found) \ FinalizedTokenIds)
    /\ ScanUnchanged /\ UNCHANGED <<row, snap>>

BeginRefresh(s) ==
    /\ up = "up" /\ s \in Refreshers /\ scan[s].pc = "idle"
    /\ lock = None
    /\ lock' = s
    /\ \E found \in SUBSET Discoverable :
          BeginScan(s, (LiveTokenIds \cup found) \ FinalizedTokenIds)
    /\ ScanUnchanged /\ UNCHANGED <<row, snap>>

BeginImport(s) ==
    /\ up = "up" /\ s \in Importers /\ scan[s].pc = "idle"
    /\ \E found \in SUBSET Discoverable \ {{}} : BeginScan(s, LiveTokenIds \cup found)
    /\ ScanUnchanged /\ UNCHANGED <<row, snap, lock>>

(* One token of scan_chain_positions: ownerOf, then positions().           *)
Reading(n) == CASE chain[n] = "active" -> "active"
                [] chain[n] = "empty" -> "empty"
                [] OTHER -> "not_owned"

ObserveAs(s, n, o) ==
    /\ up = "up" /\ scan[s].pc = "rows" /\ seen[s][n] = "todo"
    /\ seen' = [seen EXCEPT ![s][n] = o]
    /\ ScanUnchanged /\ UNCHANGED <<row, snap, lock, scan>>

Observe(s, n) == ObserveAs(s, n, Reading(n))
ObserveError(s, n) == ObserveAs(s, n, "error")

(* reconcile_scan, one result row.  An error row changes nothing.          *)
Consume(s, n) == seen' = [seen EXCEPT ![s][n] = "none"]

SkipErrorRow(s, n) ==
    /\ up = "up" /\ scan[s].pc = "rows" /\ seen[s][n] = "error"
    /\ Consume(s, n)
    /\ ScanUnchanged /\ UNCHANGED <<row, snap, lock, scan>>

(* Not owned: close_position_record, then update_position_metadata.        *)
CloseNotOwned(s, n) ==
    /\ up = "up" /\ scan[s].pc = "rows" /\ seen[s][n] = "not_owned"
    /\ Consume(s, n)
    /\ IF Known(n)
       THEN /\ row' = [row EXCEPT ![n].status = "CLOSED"]
            /\ scan' = [scan EXCEPT ![s] = [@ EXCEPT !.pc = "notes", !.cur = n]]
       ELSE UNCHANGED <<row, scan>>
    /\ ScanUnchanged /\ UNCHANGED <<snap, lock>>

EndRow(s) == scan' = [scan EXCEPT ![s] = [Idle EXCEPT !.pc = "rows"]] /\ UNCHANGED seen

MarkNotOwned(s) ==
    /\ up = "up" /\ scan[s].pc = "notes"
    /\ row' = [row EXCEPT ![scan[s].cur].stage = "CLOSED"]
    /\ EndRow(s)
    /\ ScanUnchanged /\ UNCHANGED <<snap, lock>>

(* Owned: the row is read, then the previous snapshot; both are written    *)
(* back whole, with whatever the handlers stored meanwhile replaced.       *)
ReadRow(s, n) ==
    /\ up = "up" /\ scan[s].pc = "rows" /\ seen[s][n] \in {"active", "empty"}
    /\ Consume(s, n)
    /\ scan' = [scan EXCEPT ![s] = [@ EXCEPT !.pc = "snapshot", !.cur = n,
                               !.active = (seen[s][n] = "active"), !.gas = row[n].gas]]
    /\ ScanUnchanged /\ UNCHANGED <<row, snap, lock>>

(* complete: this scan reconstructed the opening basis by itself           *)
ReadPreviousSnapshot(s, complete) ==
    LET n == scan[s].cur IN
    /\ up = "up" /\ scan[s].pc = "snapshot"
    /\ scan' = [scan EXCEPT ![s] = [@ EXCEPT !.pc = "upsert", !.final = snap[n].final,
                                             !.basis = snap[n].basis \/ complete]]
    /\ ScanUnchanged /\ UNCHANGED <<row, snap, lock, seen>>

(* Mutants: an empty NFT counts as finally accounted; the flag is asked    *)
(* before the liquidity; the flag of the previous snapshot is not used.    *)
LiveStage_EmptyIsFinal(active, final) == IF active THEN "ACTIVE" ELSE "CLOSED_FINAL"
LiveStage_FinalFirst(active, final) ==
    IF final THEN "CLOSED_FINAL" ELSE IF active THEN "ACTIVE" ELSE "CLOSED"
LiveStage_Forgets(active, final) == IF active THEN "ACTIVE" ELSE "CLOSED"

LiveStage(active, final) ==
    IF active THEN "ACTIVE" ELSE IF final THEN "CLOSED_FINAL" ELSE "CLOSED"

UpsertRow(s) ==
    LET n == scan[s].cur IN
    /\ up = "up" /\ scan[s].pc = "upsert"
    /\ row' = [row EXCEPT ![n] =
                 [status |-> IF scan[s].active THEN "OPEN" ELSE "CLOSED",
                  stage |-> LiveStage(scan[s].active, scan[s].final), gas |-> scan[s].gas]]
    /\ scan' = [scan EXCEPT ![s].pc = "save"]
    /\ ScanUnchanged /\ UNCHANGED <<snap, lock, seen>>

SaveSnapshot(s) ==
    LET n == scan[s].cur IN
    /\ up = "up" /\ scan[s].pc = "save"
    /\ snap' = [snap EXCEPT ![n] =
                  [saved |-> TRUE, basis |-> scan[s].basis, final |-> scan[s].final]]
    /\ scan' = [scan EXCEPT ![s].pc = "link"]
    /\ ScanUnchanged /\ UNCHANGED <<row, lock, seen>>

(* reconcile_execution_opening.  A complete basis names its opening        *)
(* transaction; without one the hash may still be unknown.                 *)
LinkOpening(s) ==
    LET n == scan[s].cur
        linked == [events EXCEPT ![n].opening = "linked"]
    IN
    /\ up = "up" /\ scan[s].pc = "link"
    /\ IF events[n].opening = "none"
       THEN UNCHANGED <<events, row>>
       ELSE /\ events' = linked
            /\ row' = [row EXCEPT ![n].gas =
                         IF @ < events[n].receipts + 1 THEN events[n].receipts + 1 ELSE @]
    /\ EndRow(s)
    /\ UNCHANGED <<chain, snap, lock, post, up, repair, crashes, leftover>>

OpeningUnknown(s) ==
    /\ up = "up" /\ scan[s].pc = "link" /\ ~scan[s].basis
    /\ EndRow(s)
    /\ ScanUnchanged /\ UNCHANGED <<row, snap, lock>>

(* Batch reconciled, or an exception caught per chain; finally: release.   *)
EndScan(s) ==
    /\ up = "up"
    /\ scan' = [scan EXCEPT ![s] = Idle]
    /\ seen' = [seen EXCEPT ![s] = NothingSeen]
    /\ lock' = IF lock = s THEN None ELSE lock
    /\ ScanUnchanged /\ UNCHANGED <<row, snap>>

FinishScan(s) ==
    /\ scan[s].pc = "rows" /\ \A n \in Nfts : seen[s][n] = "none"
    /\ EndScan(s)
FailScan(s) == scan[s].pc # "idle" /\ EndScan(s)

--------------------------------------------------------------------------------
(***************************************************************************)
(* Receipts: POST /api/execution/receipt.                                  *)
(***************************************************************************)
PostUnchanged == UNCHANGED <<chain, lock, seen, scan, up, repair, crashes>>

(* The mint receipt names no position: its NFT is not discovered yet.      *)
PostOpening(p, n) ==
    /\ up = "up" /\ post[p].pc = "new"
    /\ chain[n] # "unminted" /\ events[n].opening = "none"
    /\ events' = [events EXCEPT ![n].opening = "loose"]
    /\ post' = [post EXCEPT ![p] = [@ EXCEPT !.pc = "done", !.kind = "OPEN_POSITION"]]
    /\ PostUnchanged /\ UNCHANGED <<row, snap, leftover>>

(* A collect or close receipt of a listed position: reads both rows first. *)
(* A close is confirmed by its transaction, which took the liquidity of a  *)
(* stored snapshot: the NFT may hold more, and may be closed again.        *)
BeginPost(p, n, kind, confirmed) ==
    /\ up = "up" /\ post[p].pc = "new" /\ Known(n)
    /\ leftover' = IF kind = "CLOSE_POSITION" /\ confirmed /\ ~Spent(n)
                   THEN leftover \cup {n} ELSE leftover
    /\ post' = [post EXCEPT ![p] = [pc |-> "event", kind |-> kind, nft |-> n,
                                    confirmed |-> confirmed, known |-> snap[n].saved,
                                    gas |-> 0]]
    /\ PostUnchanged /\ UNCHANGED <<row, snap, events>>

(* record_financial_event; a FAILED event is stored but never counted.     *)
WithReceipt(e, kind) ==
    [e EXCEPT !.receipts = @ + 1, !.closes = IF kind = "CLOSE_POSITION" THEN @ + 1 ELSE @]

RecordEvent(p) ==
    LET n == post[p].nft IN
    /\ up = "up" /\ post[p].pc = "event"
    /\ IF post[p].confirmed
       THEN events' = [events EXCEPT ![n] = WithReceipt(@, post[p].kind)]
       ELSE UNCHANGED events
    /\ post' = [post EXCEPT ![p].pc = IF post[p].confirmed THEN "gas" ELSE "done"]
    /\ PostUnchanged /\ UNCHANGED <<row, snap, leftover>>

(* add_position_gas_cost, one atomic UPDATE                                *)
AddGas(p) ==
    LET n == post[p].nft IN
    /\ up = "up" /\ post[p].pc = "gas"
    /\ row' = [row EXCEPT ![n].gas = @ + 1]
    /\ post' = [post EXCEPT ![p].pc =
                  IF post[p].kind = "CLOSE_POSITION" /\ post[p].known THEN "read" ELSE "done"]
    /\ PostUnchanged /\ UNCHANGED <<snap, events, leftover>>

(* finalise_execution_close: already final, or the basis is not ready      *)
Finalisable(n) == snap[n].saved /\ ~snap[n].final /\ snap[n].basis

ReadForClose(p) ==
    /\ up = "up" /\ post[p].pc = "read"
    /\ post' = [post EXCEPT ![p].pc = IF Finalisable(post[p].nft) THEN "sum" ELSE "done"]
    /\ PostUnchanged /\ UNCHANGED <<row, snap, events, leftover>>

SumEvents(p) ==
    LET n == post[p].nft IN
    /\ up = "up" /\ post[p].pc = "sum"
    /\ post' = [post EXCEPT ![p] =
                  [@ EXCEPT !.pc = IF events[n].closes > 0 /\ n \in Priced
                                   THEN "freeze" ELSE "done", !.gas = EventGas(n)]]
    /\ PostUnchanged /\ UNCHANGED <<row, snap, events, leftover>>

(* finalize_closed_position, then the snapshot with its closed_final       *)
Frozen(gas) == [status |-> "CLOSED", stage |-> "CLOSED_FINAL", gas |-> gas]
WithFinal == [saved |-> TRUE, basis |-> TRUE, final |-> TRUE]

FreezeRow(p) ==
    /\ up = "up" /\ post[p].pc = "freeze"
    /\ row' = [row EXCEPT ![post[p].nft] = Frozen(post[p].gas)]
    /\ post' = [post EXCEPT ![p].pc = "attach"]
    /\ PostUnchanged /\ UNCHANGED <<snap, events, leftover>>

AttachFinal(p) ==
    /\ up = "up" /\ post[p].pc = "attach"
    /\ snap' = [snap EXCEPT ![post[p].nft] = WithFinal]
    /\ post' = [post EXCEPT ![p].pc = "done"]
    /\ PostUnchanged /\ UNCHANGED <<row, events, leftover>>

--------------------------------------------------------------------------------
(***************************************************************************)
(* Crash, and create_app's repair_confirmed_execution_closes before the    *)
(* server and the background worker start.  A request cut off by the crash *)
(* is not posted again: the browser only logs the failure.                 *)
(***************************************************************************)
StoreUnchanged == UNCHANGED <<chain, events, lock, seen, scan, post, crashes, leftover>>

Crash ==
    /\ up # "down" /\ crashes < MaxCrashes
    /\ crashes' = crashes + 1
    /\ up' = "down"
    /\ lock' = None
    /\ scan' = [s \in Scanners |-> Idle]
    /\ seen' = [s \in Scanners |-> NothingSeen]
    /\ post' = [p \in Posts |->
                  [post[p] EXCEPT !.pc = IF post[p].pc = "new" THEN "new" ELSE "done"]]
    /\ repair' = NoRepair
    /\ UNCHANGED <<chain, row, snap, events, leftover>>

Restart ==
    /\ up = "down" /\ up' = "repair"
    /\ repair' = [NoRepair EXCEPT !.todo = {n \in Nfts : row[n].status = "CLOSED"}]
    /\ StoreUnchanged /\ UNCHANGED <<row, snap>>

Repairable(n) ==
    /\ row[n].stage # "CLOSED_FINAL"
    /\ events[n].closes > 0 /\ n \in Priced
    /\ Finalisable(n)

RepairSkip(n) ==
    /\ up = "repair" /\ n \in repair.todo /\ repair.cur = None /\ ~Repairable(n)
    /\ repair' = [repair EXCEPT !.todo = @ \ {n}]
    /\ StoreUnchanged /\ UNCHANGED <<row, snap, up>>

RepairFreeze(n) ==
    /\ up = "repair" /\ n \in repair.todo /\ repair.cur = None /\ Repairable(n)
    /\ row' = [row EXCEPT ![n] = Frozen(EventGas(n))]
    /\ repair' = [todo |-> repair.todo \ {n}, cur |-> n]
    /\ StoreUnchanged /\ UNCHANGED <<snap, up>>

RepairAttach ==
    /\ up = "repair" /\ repair.cur # None
    /\ snap' = [snap EXCEPT ![repair.cur] = WithFinal]
    /\ repair' = [repair EXCEPT !.cur = None]
    /\ StoreUnchanged /\ UNCHANGED <<row, up>>

(* Mutant: the worker starts while the repair is still running.            *)
Serve_Early ==
    /\ up = "repair" /\ repair.cur = None
    /\ up' = "up"
    /\ StoreUnchanged /\ UNCHANGED <<row, snap, repair>>

Serve ==
    /\ up = "repair" /\ repair.todo = {} /\ repair.cur = None
    /\ up' = "up"
    /\ StoreUnchanged /\ UNCHANGED <<row, snap, repair>>

--------------------------------------------------------------------------------
ChainNext == \E n \in Nfts : Mint(n) \/ Drain(n) \/ Refill(n) \/ TransferOut(n)

ScanStep(s) ==
    \/ \E n \in Nfts : \/ Observe(s, n) \/ ObserveError(s, n) \/ SkipErrorRow(s, n)
                       \/ CloseNotOwned(s, n) \/ ReadRow(s, n)
    \/ MarkNotOwned(s)
    \/ \E complete \in BOOLEAN : ReadPreviousSnapshot(s, complete)
    \/ UpsertRow(s) \/ SaveSnapshot(s) \/ LinkOpening(s) \/ OpeningUnknown(s)
    \/ FinishScan(s) \/ FailScan(s)

PostStep(p) ==
    RecordEvent(p) \/ AddGas(p) \/ ReadForClose(p) \/ SumEvents(p) \/ FreezeRow(p) \/ AttachFinal(p)

NewPost(p) ==
    \E n \in Nfts :
       \/ PostOpening(p, n)
       \/ \E kind \in {"COLLECT_FEES", "CLOSE_POSITION"}, confirmed \in BOOLEAN :
             BeginPost(p, n, kind, confirmed)

RepairStep == (\E n \in Nfts : RepairSkip(n) \/ RepairFreeze(n)) \/ RepairAttach \/ Serve

Next ==
    \/ ChainNext
    \/ \E s \in Scanners : BeginRefresh(s) \/ BeginImport(s) \/ ScanStep(s)
    \/ \E p \in Posts : NewPost(p) \/ PostStep(p)
    \/ Crash \/ Restart \/ RepairStep

Spec == Init /\ [][Next]_vars

(***************************************************************************)
(* Fairness.  The worker loops for ever (start_background).  No provider   *)
(* or store call fails every time: each step of a refresh pass that is     *)
(* possible again and again is eventually taken.  Requests, once accepted, *)
(* run to their end; a dead process is started again.  Nothing is assumed  *)
(* of the chain, nor of new requests.                                      *)
(***************************************************************************)
Fairness ==
    /\ \A s \in Refreshers :
          /\ WF_vars(BeginRefresh(s))
          /\ SF_vars(\E complete \in BOOLEAN : ReadPreviousSnapshot(s, complete))
          /\ SF_vars(UpsertRow(s)) /\ SF_vars(MarkNotOwned(s))
          /\ \A n \in Nfts : SF_vars(Observe(s, n)) /\ SF_vars(CloseNotOwned(s, n))
                              /\ SF_vars(ReadRow(s, n))
    /\ \A s \in Scanners : WF_vars(ScanStep(s))
    /\ \A p \in Posts : WF_vars(PostStep(p))
    /\ WF_vars(Restart) /\ WF_vars(RepairStep)

FairSpec == Spec /\ Fairness

--------------------------------------------------------------------------------
(***************************************************************************)
(* Properties.                                                             *)
(***************************************************************************)

(* Refresh passes never overlap: refresh_positions either holds the lock   *)
(* from its first read to its last write or has returned "busy", and no    *)
(* exception path leaves the lock held by a thread that is gone.           *)
RefreshExclusive ==
    /\ \A r, s \in Refreshers : scan[r].pc # "idle" /\ scan[s].pc # "idle" => r = s
    /\ lock # None => scan[lock].pc # "idle"

(* A position is shown as finally accounted, in its row or its snapshot,   *)
(* only once a confirmed close receipt is recorded for it, whatever scan,  *)
(* import, receipt or repair wrote last; and then the NFT holds no         *)
(* liquidity, unless a close left some in it or it was filled again.       *)
IsFinal(n) == row[n].stage = "CLOSED_FINAL" \/ snap[n].final
FinalMeansDrained ==
    \A n \in Nfts : IsFinal(n) => events[n].closes > 0 /\ (n \in leftover \/ Spent(n))

(* The ids a refresh must read (OPEN rows) and the ids it leaves out       *)
(* (finalised rows) never meet: no row is open and finally accounted.      *)
OpenNeverFinal == \A n \in Nfts : row[n].status = "OPEN" => row[n].stage # "CLOSED_FINAL"

(* Final accounting that is complete in row and snapshot, with no older    *)
(* evidence of this NFT in flight, survives every scan, import, receipt,   *)
(* crash and repair as long as the empty NFT is still owned.               *)
HarmlessScan(s, n) ==
    /\ seen[s][n] \notin {"active", "not_owned"}
    /\ scan[s].cur = n => /\ ~scan[s].active /\ scan[s].pc # "notes"
                          /\ scan[s].pc \in {"upsert", "save"} => scan[s].final
Settled(n) ==
    /\ chain[n] = "empty"
    /\ row[n].status = "CLOSED" /\ row[n].stage = "CLOSED_FINAL" /\ snap[n].final
    /\ \A s \in Scanners : HarmlessScan(s, n)
SettledIsStable == [][\A n \in Nfts : Settled(n) /\ chain'[n] = "empty" => Settled(n)']_vars

(* When startup is over, no closed position with a confirmed close receipt *)
(* and a ready basis is still waiting for its final accounting.            *)
RepairLeavesNoneWaiting ==
    [][up = "repair" /\ up' = "up" =>
          \A n \in Nfts : row[n].status = "CLOSED" => ~Repairable(n)]_vars

(* A position whose NFT stays drained or gone is eventually recorded       *)
(* CLOSED for good, even if a stale scan reopens the row after its close   *)
(* receipt, and whatever the NFT held before.                              *)
DrainedStaysClosed ==
    \A n \in Nfts : <>[](Spent(n) /\ Known(n)) => <>[](row[n].status = "CLOSED")

--------------------------------------------------------------------------------
(***************************************************************************)
(* The abstract accounting of closes (CloseLedger) and the mapping to it.  *)
(***************************************************************************)
Accounted(n) ==
    IF row[n].status = "CLOSED" /\ row[n].stage = "CLOSED_FINAL" /\ snap[n].final
    THEN "full" ELSE IF IsFinal(n) THEN "partial" ELSE "none"
Disturbed(n) == \E s \in Scanners : ~HarmlessScan(s, n)

Receipts == [n \in Nfts |-> events[n].closes > 0]
Accounting == [n \in Nfts |-> Accounted(n)]
Disturbance == [n \in Nfts |-> Disturbed(n)]

Ledger == INSTANCE CloseLedger WITH
    holding <- chain, receipted <- Receipts, accounted <- Accounting, disturbed <- Disturbance

(* Refresh, import, receipts, crashes and startup repair together keep the *)
(* promise of CloseLedger: final accounting comes from a recorded receipt  *)
(* and is lost only to a reading that did not find it full over an owned,  *)
(* empty NFT.                                                              *)
ImplementsCloseLedger == Ledger!CSpec

--------------------------------------------------------------------------------
(***************************************************************************)
(* What the repository's text says and the code does not keep.             *)
(***************************************************************************)

(* "Freeze a completed closed-position lifecycle" (db.py, docstring of     *)
(* finalize_closed_position): a frozen row is not unfrozen.                *)
FrozenStaysFrozen ==
    [][\A n \in Nfts : row[n].stage = "CLOSED_FINAL" => row'[n].stage = "CLOSED_FINAL"]_row
================================================================================
