---------------------------- MODULE LiveDiscovery ----------------------------
(***************************************************************************)
(* How LP Manager comes to know the NFTs of one chain: transfer logs from  *)
(* a stored checkpoint on, owned-NFT indexes, and the operator's import,   *)
(* which all end by moving the same checkpoint.                            *)
(***************************************************************************)
EXTENDS Integers, FiniteSetsExt

CONSTANTS
    Nfts,          \* position NFTs transferred to the wallet
    Refreshers,    \* threads that call refresh_positions
    Importers,     \* threads that call import_opening_transactions
    Indexable,     \* NFTs that an owned-NFT index could list
    Overlap,       \* blocks re-read before the checkpoint (128)
    ScanBlocks,    \* depth of a scan without a checkpoint (500 000)
    ImportBlocks,  \* depth of an import's scan (1000)
    LogsFail,      \* whether eth_getLogs may be refused
    RowsFail,      \* whether reading one NFT may fail
    MaxBlock,      \* bound on the chain's height
    None

ASSUME ActorsAssumption == Refreshers \cap Importers = {}
ASSUME BlocksAssumption ==
    /\ Overlap \in Nat /\ ScanBlocks \in Nat /\ ImportBlocks \in Nat /\ MaxBlock \in Nat
    /\ None \notin Nat
ASSUME FailAssumption == LogsFail \in BOOLEAN /\ RowsFail \in BOOLEAN /\ Indexable \subseteq Nfts

Scanners == Refreshers \cup Importers
Blocks == 0..MaxBlock

VARIABLES
    height,      \* eth_blockNumber
    minted,      \* minted[n]: block of the transfer to the wallet, or None
    known,       \* NFTs with a row in positions
    checkpoint,  \* setting live:checkpoint:<chain>, or None
    lock,        \* holder of LiveDataService._refresh_lock
    scan,        \* program counter and local values of each scanner
    indexed,     \* NFTs the configured indexes can list, {} without one
    skipped      \* whether the checkpoint ever passed blocks nobody looked at

vars == <<height, minted, known, checkpoint, lock, scan, indexed, skipped>>

Scan == [pc : {"idle", "height", "indexes", "logs", "rows", "checkpoint"},
         start : Blocks \cup {None}, latest : Blocks, ids : SUBSET Nfts, complete : BOOLEAN]

TypeOK ==
    /\ height \in Blocks
    /\ minted \in [Nfts -> Blocks \cup {None}]
    /\ known \in SUBSET Nfts
    /\ checkpoint \in Blocks \cup {None}
    /\ lock \in Refreshers \cup {None}
    /\ scan \in [Scanners -> Scan]
    /\ indexed \in SUBSET Indexable
    /\ skipped \in BOOLEAN

(* complete: logs were served and every NFT they name was read.            *)
Idle == [pc |-> "idle", start |-> None, latest |-> 0, ids |-> {}, complete |-> TRUE]

Init ==
    /\ height = 0
    /\ minted = [n \in Nfts |-> None]
    /\ known = {}
    /\ checkpoint = None
    /\ lock = None
    /\ scan = [s \in Scanners |-> Idle]
    /\ indexed \in SUBSET Indexable
    /\ skipped = FALSE

--------------------------------------------------------------------------------
(* The chain, outside LP Manager.                                          *)
Minted == {n \in Nfts : minted[n] # None}

Produce(mints) ==
    /\ height < MaxBlock /\ mints \cap Minted = {}
    /\ height' = height + 1
    /\ minted' = [n \in Nfts |-> IF n \in mints THEN height + 1 ELSE minted[n]]
    /\ UNCHANGED <<known, checkpoint, lock, scan, indexed, skipped>>

--------------------------------------------------------------------------------
(***************************************************************************)
(* scan_chain_positions and reconcile_scan, called by either entry point.  *)
(***************************************************************************)
Unchanged == UNCHANGED <<height, minted, indexed>>
Back(block, depth) == Max({0, block - depth})

ResumeFrom == IF checkpoint = None THEN None ELSE Back(checkpoint, Overlap)

BeginRefresh(s) ==
    /\ s \in Refreshers /\ scan[s].pc = "idle"
    /\ lock = None
    /\ lock' = s
    /\ scan' = [scan EXCEPT ![s] = [Idle EXCEPT !.pc = "height", !.start = ResumeFrom,
                                                !.ids = known]]
    /\ Unchanged /\ UNCHANGED <<known, checkpoint, skipped>>

(* The operator names the opening transactions of some NFTs.               *)
BeginImport(s, named) ==
    /\ s \in Importers /\ scan[s].pc = "idle"
    /\ named # {} /\ named \subseteq Minted
    /\ scan' = [scan EXCEPT ![s] = [Idle EXCEPT !.pc = "height", !.ids = known \cup named]]
    /\ Unchanged /\ UNCHANGED <<known, checkpoint, lock, skipped>>

Advance(s, new) ==
    /\ scan' = [scan EXCEPT ![s] = new]
    /\ Unchanged /\ UNCHANGED <<known, checkpoint, lock, skipped>>

ReadHeight(s) ==
    LET depth == IF s \in Importers THEN ImportBlocks ELSE ScanBlocks IN
    /\ scan[s].pc = "height"
    /\ Advance(s, [scan[s] EXCEPT !.pc = "indexes", !.latest = height,
                     !.start = IF @ = None THEN Back(height, depth) ELSE @])

(* Mutant: what the indexes list is not added to the ids.                  *)
ReadIndexes_Dropped(s, listed) ==
    /\ scan[s].pc = "indexes" /\ listed \subseteq indexed \cap Minted
    /\ Advance(s, [scan[s] EXCEPT !.pc = "logs"])

(* An index lists what the wallet owns, or only its first pages.           *)
ReadIndexes(s, listed) ==
    /\ scan[s].pc = "indexes" /\ listed \subseteq indexed \cap Minted
    /\ Advance(s, [scan[s] EXCEPT !.pc = "logs", !.ids = @ \cup listed])

LogIds(from, to) == {n \in Minted : minted[n] \in from..to}

ReadLogs(s) ==
    /\ scan[s].pc = "logs"
    /\ Advance(s, [scan[s] EXCEPT !.pc = "rows",
                                  !.ids = @ \cup LogIds(scan[s].start, scan[s].latest)])

(* Refused logs are swallowed: the scan goes on with the ids it has.       *)
RefuseLogs(s) ==
    /\ LogsFail /\ scan[s].pc = "logs"
    /\ Advance(s, [scan[s] EXCEPT !.pc = "rows", !.complete = FALSE])

(* Rows that could be read are stored; error rows are only counted.        *)
Reconcile(s, errors) ==
    /\ scan[s].pc = "rows"
    /\ errors \subseteq scan[s].ids /\ (errors # {} => RowsFail)
    /\ known' = known \cup (scan[s].ids \ errors)
    /\ scan' = [scan EXCEPT ![s].pc = "checkpoint", ![s].complete = @ /\ errors \subseteq known]
    /\ Unchanged /\ UNCHANGED <<checkpoint, lock, skipped>>

Release(s) ==
    /\ lock' = IF lock = s THEN None ELSE lock
    /\ scan' = [scan EXCEPT ![s] = Idle]

Passed(s) ==
    skipped' = (\/ skipped \/ ~scan[s].complete
                \/ scan[s].start > 1 + (IF checkpoint = None THEN 0 ELSE checkpoint))

(* Mutant: the checkpoint is the height at the end of the scan.            *)
SetCheckpoint_Height(s) ==
    /\ scan[s].pc = "checkpoint"
    /\ checkpoint' = height
    /\ Passed(s) /\ Release(s)
    /\ Unchanged /\ UNCHANGED known

SetCheckpoint(s) ==
    /\ scan[s].pc = "checkpoint"
    /\ checkpoint' = scan[s].latest
    /\ Passed(s) /\ Release(s)
    /\ Unchanged /\ UNCHANGED known

(* No provider, a wrong chain id or an exception: nothing more is stored.  *)
FailScan(s) ==
    /\ scan[s].pc # "idle"
    /\ Release(s)
    /\ Unchanged /\ UNCHANGED <<known, checkpoint, skipped>>

ScanNext(s) ==
    \/ ReadHeight(s)
    \/ \E listed \in SUBSET Indexable : ReadIndexes(s, listed)
    \/ ReadLogs(s) \/ RefuseLogs(s)
    \/ \E errors \in SUBSET Nfts : Reconcile(s, errors)
    \/ SetCheckpoint(s) \/ FailScan(s)

Next ==
    \/ \E mints \in SUBSET Nfts : Produce(mints)
    \/ \E s \in Scanners : \/ BeginRefresh(s) \/ ScanNext(s)
                           \/ \E named \in SUBSET Nfts : BeginImport(s, named)

Spec == Init /\ [][Next]_vars

(***************************************************************************)
(* Fairness.  The worker refreshes for ever.  Each provider call succeeds  *)
(* again and again: the indexes list all they can, and not every pass in   *)
(* which they did fails before its logs are served and its rows are read.  *)
(* Nothing is assumed of the operator.                                     *)
(***************************************************************************)
Listed(s) == indexed \cap Minted \subseteq scan[s].ids

Fairness ==
    \A s \in Refreshers :
       /\ WF_vars(BeginRefresh(s)) /\ WF_vars(ScanNext(s))
       /\ SF_vars(ReadHeight(s))
       /\ SF_vars(ReadIndexes(s, indexed \cap Minted))
       /\ SF_vars(ReadLogs(s) /\ Listed(s))
       /\ SF_vars(Reconcile(s, {}) /\ Listed(s) /\ scan[s].complete)

FairSpec == Spec /\ Fairness

--------------------------------------------------------------------------------
(***************************************************************************)
(* Properties.                                                             *)
(***************************************************************************)

(* The checkpoint may only pass what has been looked at: unless a refused  *)
(* query, an unreadable NFT or an import far ahead made it skip blocks, an *)
(* NFT transferred at or before it is known, however transfers, heights    *)
(* and the scans of worker and operator interleave.                        *)
PassedMeansKnown ==
    ~skipped /\ checkpoint # None =>
        \A n \in Minted : minted[n] <= checkpoint => n \in known

(* Every NFT the index can list is found, and without skipped blocks any   *)
(* NFT transferred to the wallet, however often a pass fails.              *)
FoundUnlessSkipped ==
    \A n \in Nfts : n \in Minted ~> n \in known \/ (skipped /\ n \notin indexed)
================================================================================
