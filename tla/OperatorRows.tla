------------------------------- MODULE OperatorRows -------------------------------
(***************************************************************************)
(* What the operator wrote into a position's row (a name, a thesis and a   *)
(* sleeve, a campaign) and the numbers P1, P2, ... the program gives to    *)
(* NFTs, while scans write rows back whole, the label mapping is read and  *)
(* written back whole, and the campaign registry links every position.     *)
(*                                                                         *)
(* Only the columns about this are kept; PositionLifecycle has the others. *)
(***************************************************************************)
EXTENDS Integers, FiniteSets, FiniteSetsExt

CONSTANTS
    Nfts,     \* NFTs with a row or about to get one
    Main,     \* those on Robinhood Chain
    Fixed,    \* those of Main with an operator-confirmed label
    FixedNo,  \* FixedNo[n]: the number of that label
    Scanners, \* threads in reconcile_scan: one refresh, any number of imports
    Managed,  \* rows the operator edits and the registry links (a bound)
    MaxEdits, \* bound on the operator's edits
    None

ASSUME FixedAssumption ==
    /\ Fixed \subseteq Main /\ Main \subseteq Nfts
    /\ FixedNo \in [Fixed -> Nat \ {0}]
    /\ \A m, n \in Fixed : FixedNo[m] = FixedNo[n] => m = n
ASSUME TableAssumption == IsFiniteSet(Nfts)
ASSUME EditsAssumption == MaxEdits \in Nat /\ Managed \subseteq Nfts /\ None \notin Nfts

VARIABLES
    row,    \* table positions, operator columns
    labels, \* setting live:auto-labels: the number of each NFT, 0 for none
    scan,   \* program counter and local values of each scanner
    edits,  \* the operator's edits so far
    raced,  \* a label mapping was written over one it was not read from
    stale   \* a row was written over one it was not read from

vars == <<row, labels, scan, edits, raced, stale>>

(* Every number is one past another in the same mapping or past a confirmed*)
(* one, so this many are enough, however mappings are written over.        *)
Numbers == 0..(Max({0} \cup {FixedNo[n] : n \in Fixed}) + Cardinality(Nfts))
NoName == 0
Own == -1   \* a name the operator chose, not of the form P<n>

Row == [known : BOOLEAN, name : Numbers \cup {Own}, thesis : BOOLEAN,
        sleeve : {"auto", "own"}, campaign : {"none", "linked", "own"}]
NoRow == [known |-> FALSE, name |-> NoName, thesis |-> FALSE, sleeve |-> "auto",
          campaign |-> "none"]
Mapping == [Nfts -> Numbers]
NoLabels == [n \in Nfts |-> 0]
Scan == [pc : {"idle", "label", "put", "upsert"}, nft : Nfts \cup {None}, copy : Row,
         name : Numbers \cup {Own}, mapping : Mapping]
Idle == [pc |-> "idle", nft |-> None, copy |-> NoRow, name |-> NoName, mapping |-> NoLabels]

TypeOK ==
    /\ row \in [Nfts -> Row] /\ labels \in Mapping
    /\ scan \in [Scanners -> Scan]
    /\ edits \in 0..MaxEdits /\ raced \in BOOLEAN /\ stale \in BOOLEAN

Init ==
    /\ row = [n \in Nfts |-> NoRow] /\ labels = NoLabels
    /\ scan = [s \in Scanners |-> Idle]
    /\ edits = 0 /\ raced = FALSE /\ stale = FALSE

--------------------------------------------------------------------------------
(***************************************************************************)
(* The operator: POST /api/positions/{id}/metadata, one UPDATE of the      *)
(* columns that were filled in.                                            *)
(***************************************************************************)
Edit(n, changed) ==
    /\ row[n].known /\ n \in Managed /\ edits < MaxEdits
    /\ row' = [row EXCEPT ![n] = changed]
    /\ edits' = edits + 1
    /\ UNCHANGED <<labels, scan, raced, stale>>

Rename(n) == Edit(n, [row[n] EXCEPT !.name = Own])
SetStrategy(n) == \E thesis \in BOOLEAN :
    Edit(n, [row[n] EXCEPT !.sleeve = "own", !.thesis = @ \/ thesis])
SetCampaign(n) == Edit(n, [row[n] EXCEPT !.campaign = "own"])

--------------------------------------------------------------------------------
(***************************************************************************)
(* reconcile_scan: one NFT.                                                *)
(***************************************************************************)
(* A confirmed label is always asked for; else only an empty name or one   *)
(* of the form P<n> is.                                                    *)
Renamed(n, name) == n \in Fixed \/ name # Own

ReadRow(s, n) ==
    /\ scan[s].pc = "idle"
    /\ scan' = [scan EXCEPT ![s] =
                  [@ EXCEPT !.pc = IF Renamed(n, row[n].name) THEN "label" ELSE "upsert",
                            !.nft = n, !.copy = row[n], !.name = row[n].name]]
    /\ UNCHANGED <<row, labels, edits, raced, stale>>

(* Mutant: the numbers in use are counted.                                 *)
NextNumber_Counts(n, mapping) == Cardinality({m \in Nfts : mapping[m] > 0}) + 1

(* Past the highest number in use anywhere, and past the confirmed labels  *)
(* of its chain.                                                           *)
NextNumber(n, mapping) ==
    Max({mapping[m] : m \in Nfts} \cup
        IF n \in Main THEN {FixedNo[m] : m \in Fixed} ELSE {}) + 1

(* Mutant: every scan gives a new number.                                  *)
LabelOf_Renews(n, mapping) == IF n \in Fixed THEN FixedNo[n] ELSE NextNumber(n, mapping)
LabelOf(n, mapping) ==
    IF n \in Fixed THEN FixedNo[n]
    ELSE IF mapping[n] > 0 THEN mapping[n] ELSE NextNumber(n, mapping)

(* _live_display_name: get_setting, and set_setting when it adds a label.  *)
ReadLabels(s) ==
    LET n == scan[s].nft
        name == LabelOf(n, labels)
    IN /\ scan[s].pc = "label"
       /\ scan' = [scan EXCEPT ![s] =
                     [@ EXCEPT !.pc = IF labels[n] = name THEN "upsert" ELSE "put",
                               !.name = name, !.mapping = labels]]
       /\ UNCHANGED <<row, labels, edits, raced, stale>>

PutLabels(s) ==
    /\ scan[s].pc = "put"
    /\ labels' = [scan[s].mapping EXCEPT ![scan[s].nft] = scan[s].name]
    /\ raced' = (raced \/ labels # scan[s].mapping)
    /\ scan' = [scan EXCEPT ![s].pc = "upsert", ![s].mapping = NoLabels]
    /\ UNCHANGED <<row, edits, stale>>

(* Mutant: only a thesis protects the sleeve.                              *)
Manual_ThesisOnly(copy) == copy.thesis
Manual(copy) == copy.thesis \/ copy.campaign # "none"
Written(copy, name) ==
    [known |-> TRUE, name |-> name, thesis |-> copy.thesis, campaign |-> copy.campaign,
     sleeve |-> IF Manual(copy) THEN copy.sleeve ELSE "auto"]

Upsert(s) ==
    /\ scan[s].pc = "upsert"
    /\ row' = [row EXCEPT ![scan[s].nft] = Written(scan[s].copy, scan[s].name)]
    /\ stale' = (stale \/ row[scan[s].nft] # scan[s].copy)
    /\ scan' = [scan EXCEPT ![s] = Idle]
    /\ UNCHANGED <<labels, edits, raced>>

(* The row fails, or the process ends.                                     *)
Abandon(s) ==
    /\ scan[s].pc # "idle"
    /\ scan' = [scan EXCEPT ![s] = Idle]
    /\ UNCHANGED <<row, labels, edits, raced, stale>>

--------------------------------------------------------------------------------
(***************************************************************************)
(* sync_campaign_registry links every listed row, one by one, whatever its *)
(* campaign was; it may be run at any time and a row never leaves the list.*)
(***************************************************************************)
LinkCampaign(n) ==
    /\ row[n].known /\ n \in Managed
    /\ row' = [row EXCEPT ![n].campaign = "linked"]
    /\ UNCHANGED <<labels, scan, edits, raced, stale>>

ScanNext(s) == (\E n \in Nfts : ReadRow(s, n)) \/ ReadLabels(s) \/ PutLabels(s) \/ Upsert(s) \/ Abandon(s)
Next ==
    \/ \E n \in Nfts : Rename(n) \/ SetStrategy(n) \/ SetCampaign(n) \/ LinkCampaign(n)
    \/ \E s \in Scanners : ScanNext(s)

Spec == Init /\ [][Next]_vars

--------------------------------------------------------------------------------
(***************************************************************************)
(* Properties.                                                             *)
(***************************************************************************)
(* Unless two scans wrote the label mapping over each other, no two NFTs   *)
(* of the main chain show the same number, nor one that is reserved for a  *)
(* confirmed NFT not yet seen (_live_display_name).                        *)
LabelsAreDistinct ==
    ~raced => \A m, n \in Main :
        m # n /\ row[n].name > 0 =>
            /\ row[m].name # row[n].name
            /\ m \in Fixed => FixedNo[m] # row[n].name

(* "Stable operator labels" (_live_display_name): on the same condition, a *)
(* number once shown is never changed but by the operator.                 *)
LabelsAreStable ==
    [][\A n \in Nfts :
          ~raced /\ row[n].name > 0 => row'[n].name \in {row[n].name, Own}]_<<row, raced>>

(* Unless a row was written over one that had changed since it was read,  *)
(* no scan takes back what the operator wrote: the thesis stays, the       *)
(* campaign gives way at most to the registry's own, and the sleeve stays  *)
(* once there is a thesis or a campaign (reconcile_scan).                  *)
EditsSurvive ==
    [][~stale' /\ edits' = edits => \A n \in Nfts :
          /\ row[n].thesis => row'[n].thesis
          /\ row[n].name = Own => row'[n].name = Own \/ n \in Fixed
          /\ row[n].campaign # "none" => row'[n].campaign # "none"
          /\ row[n].sleeve = "own" /\ (row[n].thesis \/ row[n].campaign # "none")
                 => row'[n].sleeve = "own"]_<<row, stale>>

================================================================================
