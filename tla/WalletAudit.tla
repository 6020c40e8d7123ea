------------------------------ MODULE WalletAudit ------------------------------
(***************************************************************************)
(* Review of wallet transfers and the investor's cash ledger: scans insert *)
(* and classify transfers, the operator confirms cash, an import replaces  *)
(* the reviewed baseline.  All three share the tables and no lock.         *)
(***************************************************************************)
EXTENDS Integers, SequencesExt

CONSTANTS
    Transfers,       \* transfers of one chain that touch the wallet
    Evidence,        \* what the chain says of each transfer, see Facts
    Parties,         \* counterparty addresses and token contracts
    LpTxs,           \* transactions LP Manager recorded as its own
    Entries,         \* entries of the reviewed baseline
    FundingTxs,      \* rules of the import: transactions that were funding,
    Ignored,         \*   transfers to ignore, by transaction or by asset,
    Internal,        \*   own transfers, by transaction or by address
    Amounts,         \* cash amounts that are entered, in any currency
    MaxStarted,      \* bound on the scans, imports and reviews of a behaviour
    Scanners, Importers, Handlers \* threads that scan, import and review

Directions == {"IN", "OUT", "SELF"}
Kinds == {"NATIVE_TRANSFER", "CONTRACT_CALL", "BRIDGE", "SWAP", "LP_ACTION"}
(* Of a transfer: its transaction and what kind that is, the counterparty, *)
(* what "ignore" remembers of it (the token, or the counterparty of a      *)
(* native transfer), and of its transaction which way it goes and what     *)
(* contract it calls.                                                      *)
Facts == [tx : STRING, direction : Directions, kind : Kinds, party : Parties,
          noise : Parties, call : Directions, target : Parties]

ASSUME EvidenceAssumption == Transfers # {} /\ Evidence \in [Transfers -> Facts]
ASSUME ActorsAssumption == Scanners \cap Importers = {} /\ Entries \cap Transfers = {}
ASSUME AmountsAssumption ==
    Amounts \subseteq Nat /\ \E most \in Amounts : \A n \in Amounts : most >= n
ASSUME BoundAssumption == MaxStarted \in Nat
ASSUME RulesAssumption == Ignored \cup Internal \subseteq Transfers

Automata == Scanners \cup Importers
Cash == {"CONFIRMED_FUNDING", "CONFIRMED_WITHDRAWAL"}
Reviews == Cash \cup {"INTERNAL_TRANSFER", "IGNORE"}
Statuses == Reviews \cup {"UNRESOLVED", "INTERNAL_PROTOCOL", "INTERNAL_CONVERSION"}

VARIABLES
    events,  \* wallet_audit_events: the stored transfers
    kinds,   \* transfers whose transaction is in wallet_audit_transactions
    ledger,  \* capital_ledger: baseline entries and wallet-audit:<transfer>
    flows,   \* external deposits and withdrawals among financial_events
    job,     \* program counter and local values of scans and imports
    review,  \* program counter and intent of resolve handlers
    cut,     \* transfers whose last review a crash cut short
    crossed, \* transfers one review of which began while another went on
    started  \* scans, imports and reviews so far

vars == <<events, kinds, ledger, flows, job, review, cut, crossed, started>>

(* money_context: pounds, or dollars while no rate can be had.             *)
Currencies == {"GBP", "USD"}

(* fiat 0 stands for NULL, and has no currency of its own; "by" says whose *)
(* write the status is.                                                    *)
Absent == [status |-> "ABSENT", fiat |-> 0, currency |-> "GBP", by |-> "SCAN"]
Event == [status : Statuses, fiat : Nat, currency : Currencies,
          by : {"SCAN", "REVIEW", "IMPORT"}]
LedgerTypes == {"EXTERNAL_FUNDING", "EXTERNAL_WITHDRAWAL"}
NoEntry == [type |-> "NONE", amount |-> 0]
Entry == [type : LedgerTypes, amount : Nat]
FlowTypes == {"EXTERNAL_DEPOSIT", "EXTERNAL_WITHDRAWAL"}
Idle == [pc |-> "idle", todo |-> <<>>, context |-> {}, entries |-> {}, settled |-> {}]
Todo == UNION {[S -> Statuses] : S \in SUBSET Transfers}
Done == [pc |-> "idle", transfer |-> CHOOSE t \in Transfers : TRUE, status |-> "IGNORE", amount |-> 0]

TypeOK ==
    /\ events \in [Transfers -> Event \cup {Absent}]
    /\ kinds \in SUBSET Transfers
    /\ ledger \in [Transfers \cup Entries -> Entry \cup {NoEntry}]
    /\ flows \in [Transfers -> [FlowTypes -> Nat]]
    /\ job \in [Automata -> [pc : {"idle", "upsert", "list", "classify", "resolve", "entries"},
                             todo : Todo, context : SUBSET Transfers,
                             entries : SUBSET Entries, settled : SUBSET Transfers]]
    /\ review \in [Handlers -> [pc : {"idle", "ledger", "check", "record"},
                                transfer : Transfers, status : Reviews, amount : Nat]]
    /\ cut \in SUBSET Transfers /\ crossed \in SUBSET Transfers
    /\ started \in 0..MaxStarted

Init ==
    /\ events = [t \in Transfers |-> Absent]
    /\ kinds = {}
    /\ ledger = [e \in Transfers \cup Entries |-> NoEntry]
    /\ flows = [t \in Transfers |-> [f \in FlowTypes |-> 0]]
    /\ job = [a \in Automata |-> Idle]
    /\ review = [h \in Handlers |-> Done]
    /\ cut = {} /\ crossed = {}
    /\ started = 0

(* Every operation counts against the bound.                               *)
Start == started < MaxStarted /\ started' = started + 1

Stored == {t \in Transfers : events[t] # Absent}
Unresolved == {t \in Stored : events[t].status = "UNRESOLVED"}
Tx(t) == Evidence[t].tx

--------------------------------------------------------------------------------
(***************************************************************************)
(* Automatic classification.                                               *)
(***************************************************************************)

(* Transactions of any financial event, a confirmed deposit's own included.*)
KnownTxs == LpTxs \cup {Tx(t) : t \in {u \in Transfers : \E f \in FlowTypes : flows[u][f] > 0}}

(* What earlier classifications say of counterparties and tokens.          *)
With(status) == {t \in Stored : events[t].status = status}
InternalByProfile(t) == Evidence[t].party \in {Evidence[u].party : u \in With("INTERNAL_TRANSFER")}
IgnoredByProfile(t) == Evidence[t].noise \in {Evidence[u].noise : u \in With("IGNORE")}
FundingByProfile(t) == Evidence[t].party \in {Evidence[u].party : u \in With("CONFIRMED_FUNDING")}

(* _classify_scan_rows: by the structure of the rows' transactions.        *)
Structural(t, rows) ==
    LET directions == {Evidence[u].direction : u \in {v \in rows : Tx(v) = Tx(t)}} IN
    IF Tx(t) \in KnownTxs THEN "INTERNAL_PROTOCOL"
    ELSE IF Evidence[t].direction = "SELF" THEN "INTERNAL_TRANSFER"
    ELSE IF {"IN", "OUT"} \subseteq directions THEN "INTERNAL_CONVERSION"
    ELSE "UNRESOLVED"

(* _classify_with_transaction_context: then by the kind of transaction,    *)
(* where it is known, then by the profile.                                 *)
ByKind == [BRIDGE |-> "INTERNAL_TRANSFER", SWAP |-> "INTERNAL_CONVERSION",
           LP_ACTION |-> "INTERNAL_PROTOCOL"]

(* Mutant: the suggested status is taken for the status.                   *)
Automatic_Suggested(t, rows, context) ==
    IF FundingByProfile(t) THEN "CONFIRMED_FUNDING" ELSE Structural(t, rows)

Automatic(t, rows, context) ==
    IF Structural(t, rows) # "UNRESOLVED" THEN Structural(t, rows)
    ELSE IF t \in context /\ Evidence[t].kind \in DOMAIN ByKind THEN ByKind[Evidence[t].kind]
    ELSE IF InternalByProfile(t) THEN "INTERNAL_TRANSFER"
    ELSE IF IgnoredByProfile(t) THEN "IGNORE"
    ELSE "UNRESOLVED"

Advance(a, new) == job' = [job EXCEPT ![a] = new]
Drop(todo, t) == [u \in DOMAIN todo \ {t} |-> todo[u]]

--------------------------------------------------------------------------------
(***************************************************************************)
(* scan_wallet_audit.                                                      *)
(***************************************************************************)

(* The providers list some transfers and transactions, none when they fail,*)
(* and the transfers are classified as the store stands then.              *)
BeginScan(a, listed, context) ==
    /\ a \in Scanners /\ job[a].pc = "idle" /\ Start
    /\ Advance(a, [Idle EXCEPT !.pc = "upsert", !.context = context, !.settled = Stored \ Unresolved,
                               !.todo = [t \in listed |-> Automatic(t, listed, context)]])
    /\ UNCHANGED <<events, kinds, ledger, flows, review, cut, crossed>>

(* Mutant: the conflict clause also writes review_status.                  *)
Upserted_Status(t, status) == [status |-> status, fiat |-> 0, currency |-> "GBP", by |-> "SCAN"]

(* A stored event keeps its status, amount and note.                       *)
Upserted(t, status) ==
    IF t \in Stored THEN events[t] ELSE [status |-> status, fiat |-> 0, currency |-> "GBP", by |-> "SCAN"]

UpsertEvent(a, t) ==
    /\ job[a].pc = "upsert" /\ t \in DOMAIN job[a].todo
    /\ events' = [events EXCEPT ![t] = Upserted(t, job[a].todo[t])]
    /\ Advance(a, [job[a] EXCEPT !.todo = Drop(@, t)])
    /\ UNCHANGED <<kinds, ledger, flows, review, cut, crossed, started>>

UpsertTransactions(a) ==
    /\ job[a].pc = "upsert" /\ job[a].todo = <<>>
    /\ kinds' = kinds \cup job[a].context
    /\ Advance(a, [Idle EXCEPT !.pc = "list"])
    /\ UNCHANGED <<events, ledger, flows, review, cut, crossed, started>>

(* _auto_reconcile_unresolved: the unresolved events are listed ...        *)
ListUnresolved(a) ==
    /\ a \in Scanners /\ job[a].pc = "list"
    /\ Advance(a, [Idle EXCEPT !.pc = "classify", !.context = kinds, !.settled = Stored \ Unresolved,
                               !.todo = [t \in Unresolved |-> "UNRESOLVED"]])
    /\ UNCHANGED <<events, kinds, ledger, flows, review, cut, crossed, started>>

(* ... classified by the transactions and the profile as they are now ...  *)
ClassifyUnresolved(a) ==
    LET rows == DOMAIN job[a].todo
        status == [t \in rows |-> Automatic(t, rows, job[a].context)]
    IN  /\ job[a].pc = "classify"
        /\ Advance(a, [job[a] EXCEPT !.pc = "resolve", !.context = {},
             !.todo = [t \in {u \in rows : status[u] # "UNRESOLVED"} |-> status[t]]])
        /\ UNCHANGED <<events, kinds, ledger, flows, review, cut, crossed, started>>

(* ... and each one is updated, whatever its status is by then.  A rule    *)
(* may confirm funding without an amount.                                  *)
ResolveEvent(a, t, amount) ==
    /\ job[a].pc = "resolve" /\ t \in DOMAIN job[a].todo
    /\ amount # 0 => a \in Importers /\ job[a].todo[t] \in Cash
    /\ events' = [events EXCEPT ![t] =
         [status |-> job[a].todo[t], fiat |-> amount, currency |-> "GBP",
          by |-> IF a \in Scanners THEN "SCAN" ELSE "IMPORT"]]
    /\ Advance(a, [job[a] EXCEPT !.todo = Drop(@, t)])
    /\ UNCHANGED <<kinds, ledger, flows, review, cut, crossed, started>>

EndJob(a) ==
    /\ job[a].pc = "resolve" /\ job[a].todo = <<>>
    /\ Advance(a, Idle)
    /\ UNCHANGED <<events, kinds, ledger, flows, review, cut, crossed, started>>

--------------------------------------------------------------------------------
(***************************************************************************)
(* import_reviewed_baseline.                                               *)
(***************************************************************************)

(* Mutant: the whole ledger is cleared.                                    *)
Cleared_All == [e \in DOMAIN ledger |-> NoEntry]

Cleared == [e \in DOMAIN ledger |-> IF e \in Entries THEN NoEntry ELSE ledger[e]]

BeginImport(a, replace) ==
    /\ a \in Importers /\ job[a].pc = "idle" /\ Start
    /\ ledger' = IF replace THEN Cleared ELSE ledger
    /\ Advance(a, [Idle EXCEPT !.pc = "entries", !.entries = Entries])
    /\ UNCHANGED <<events, kinds, flows, review, cut, crossed>>

ImportEntry(a, e) ==
    /\ job[a].pc = "entries" /\ e \in job[a].entries
    /\ ledger' = [ledger EXCEPT ![e] = [type |-> "EXTERNAL_FUNDING", amount |-> Max(Amounts)]]
    /\ Advance(a, [job[a] EXCEPT !.entries = @ \ {e}])
    /\ UNCHANGED <<events, kinds, flows, review, cut, crossed, started>>

(* An entry without an id or of an unknown type ends the import there.     *)
RejectEntry(a) ==
    /\ job[a].pc = "entries" /\ job[a].entries # {}
    /\ Advance(a, Idle)
    /\ UNCHANGED <<events, kinds, ledger, flows, review, cut, crossed, started>>

(* reconcile_reviewed_audit: the rules of the payload, in their order.     *)
OwnCalls == {t \in kinds : Evidence[t].kind = "CONTRACT_CALL" /\ Evidence[t].call # "IN"}
ProtocolParties == {Evidence[t].target : t \in OwnCalls}
ByRule(t) ==
    IF Tx(t) \in FundingTxs THEN "CONFIRMED_FUNDING"
    ELSE IF t \in Ignored THEN "IGNORE"
    ELSE IF t \in Internal \/ (t \in kinds /\ Evidence[t].kind = "BRIDGE") THEN "INTERNAL_TRANSFER"
    ELSE IF t \in OwnCalls \/ Evidence[t].party \in ProtocolParties THEN "INTERNAL_PROTOCOL"
    ELSE "UNRESOLVED"

ListReviewed(a) ==
    /\ a \in Importers /\ job[a].pc = "entries" /\ job[a].entries = {}
    /\ Advance(a, [Idle EXCEPT !.pc = "resolve", !.settled = Stored \ Unresolved,
         !.todo = [t \in {u \in Unresolved : ByRule(u) # "UNRESOLVED"} |-> ByRule(t)]])
    /\ UNCHANGED <<events, kinds, ledger, flows, review, cut, crossed, started>>

--------------------------------------------------------------------------------
(***************************************************************************)
(* resolve_wallet_audit_event.                                             *)
(***************************************************************************)
InReview == {review[h].transfer : h \in {i \in Handlers : review[i].pc # "idle"}}

(* Cash needs an amount, in the currency that is displayed at the moment;  *)
(* only cash in pounds is booked.                                          *)
IsBooked(status, currency) == status \in Cash /\ currency = "GBP"

(* Mutant: cash is taken without an amount.                                *)
MayReview_Empty(status, amount) == status \notin Cash => amount = 0
MayReview(status, amount) == (status \in Cash) <=> (amount > 0)

BeginReview(h, t, status, amount, currency) ==
    /\ review[h].pc = "idle" /\ t \in Stored /\ Start
    /\ MayReview(status, amount)
    /\ events' = [events EXCEPT ![t] =
         [status |-> status, fiat |-> amount, by |-> "REVIEW",
          currency |-> IF status \in Cash THEN currency ELSE "GBP"]]
    /\ review' = IF IsBooked(status, currency)
                 THEN [review EXCEPT ![h] = [pc |-> "ledger", transfer |-> t,
                                             status |-> status, amount |-> amount]]
                 ELSE review
    /\ crossed' = IF t \in InReview THEN crossed \cup {t} ELSE crossed
    /\ UNCHANGED <<kinds, ledger, flows, job, cut>>

LedgerType(status) == IF status = "CONFIRMED_FUNDING" THEN "EXTERNAL_FUNDING"
                      ELSE "EXTERNAL_WITHDRAWAL"
FlowType(status) == IF status = "CONFIRMED_FUNDING" THEN "EXTERNAL_DEPOSIT"
                    ELSE "EXTERNAL_WITHDRAWAL"

WriteLedger(h) ==
    /\ review[h].pc = "ledger"
    /\ ledger' = [ledger EXCEPT ![review[h].transfer] =
                    [type |-> LedgerType(review[h].status), amount |-> review[h].amount]]
    /\ review' = [review EXCEPT ![h].pc = "check"]
    /\ UNCHANGED <<events, kinds, flows, job, cut, crossed, started>>

FlowsOf(h) == flows[review[h].transfer][FlowType(review[h].status)]

(* The performance log gets the cash flow unless it has one of this type.  *)
CheckFlow(h) ==
    /\ review[h].pc = "check"
    /\ IF FlowsOf(h) = 0
       THEN review' = [review EXCEPT ![h].pc = "record"] /\ UNCHANGED cut
       ELSE review' = [review EXCEPT ![h] = Done] /\ cut' = cut \ {review[h].transfer}
    /\ UNCHANGED <<events, kinds, ledger, flows, job, crossed, started>>

RecordFlow(h) ==
    /\ review[h].pc = "record"
    /\ flows' = [flows EXCEPT ![review[h].transfer][FlowType(review[h].status)] =
                   @ + 1]
    /\ review' = [review EXCEPT ![h] = Done]
    /\ cut' = cut \ {review[h].transfer}
    /\ UNCHANGED <<events, kinds, ledger, job, crossed, started>>

(* The process ends; what is stored stays.                                 *)
Crash ==
    /\ \/ \E a \in Automata : job[a].pc # "idle"
       \/ InReview # {}
    /\ job' = [a \in Automata |-> Idle]
    /\ review' = [h \in Handlers |-> Done]
    /\ cut' = cut \cup InReview
    /\ UNCHANGED <<events, kinds, ledger, flows, crossed, started>>

ScanNext(a) ==
    \/ \E listed, context \in SUBSET Transfers : BeginScan(a, listed, context)
    \/ \E t \in Transfers : UpsertEvent(a, t) \/ ResolveEvent(a, t, 0)
    \/ UpsertTransactions(a) \/ ListUnresolved(a) \/ ClassifyUnresolved(a) \/ EndJob(a)

ImportNext(a) ==
    \/ \E replace \in BOOLEAN : BeginImport(a, replace)
    \/ \E e \in Entries : ImportEntry(a, e)
    \/ RejectEntry(a) \/ ListReviewed(a) \/ EndJob(a)
    \/ \E t \in Transfers, amount \in Amounts \cup {0} : ResolveEvent(a, t, amount)

ReviewNext(h) ==
    \/ \E t \in Transfers, status \in Reviews, amount \in Amounts \cup {0},
          currency \in Currencies : BeginReview(h, t, status, amount, currency)
    \/ WriteLedger(h) \/ CheckFlow(h) \/ RecordFlow(h)

Next ==
    \/ \E a \in Scanners : ScanNext(a)
    \/ \E a \in Importers : ImportNext(a)
    \/ \E h \in Handlers : ReviewNext(h)
    \/ Crash

Spec == Init /\ [][Next]_vars

--------------------------------------------------------------------------------
(***************************************************************************)
(* Properties.                                                             *)
(***************************************************************************)

(* "Confirm & update ledger" (app.js): cash the operator confirmed in      *)
(* pounds is in the ledger with that type and amount and once among the    *)
(* performance log's flows, through rescans, imports that replace the      *)
(* baseline, later reviews, reviews of other transfers at the same time    *)
(* and crashes, unless a crash cut the last review of it short or two      *)
(* reviews of this very transfer crossed.  (Cash confirmed while dollars   *)
(* are displayed is not booked at all.)                                    *)
ReviewIsBooked ==
    \A t \in Stored \ (InReview \cup cut \cup crossed) :
       events[t].by = "REVIEW" /\ events[t].status \in Cash /\ events[t].currency = "GBP" =>
          /\ ledger[t] = [type |-> LedgerType(events[t].status), amount |-> events[t].fiat]
          /\ flows[t][FlowType(events[t].status)] = 1

(* Cash is confirmed by the operator or by a rule of the reviewed baseline *)
(* that names its transaction, never by the automation, whatever it has    *)
(* learned about counterparties; and by the operator never without an      *)
(* amount.                                                                 *)
CashNeedsConfirmation ==
    \A t \in Stored : events[t].status \in Cash =>
       \/ events[t].by = "REVIEW" /\ events[t].fiat > 0
       \/ events[t].by = "IMPORT" /\ Tx(t) \in FundingTxs

(* A scan or import never changes an event that was no longer unresolved   *)
(* when it last listed them.                                               *)
ReviewedStays ==
    [][\A a \in Automata, t \in Transfers :
          job'[a] # job[a] /\ t \in job[a].settled => events'[t] = events[t]]_vars
================================================================================
