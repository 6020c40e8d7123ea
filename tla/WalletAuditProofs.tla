--------------------------- MODULE WalletAuditProofs ---------------------------
(***************************************************************************)
(* Cash is confirmed by the operator alone, what is decided stays decided, *)
(* and what is confirmed is booked once, for any transfers, rules, scans   *)
(* and imports.                                                            *)
(***************************************************************************)
EXTENDS WalletAudit, TLAPS

LEMMA MaxIsAmount == Max(Amounts) \in Amounts
<1>1. \E most \in Amounts : \A n \in Amounts : most >= n
  BY AmountsAssumption
<1>2. Max(Amounts) = CHOOSE most \in Amounts : \A n \in Amounts : most >= n
  BY DEF Max
<1>3. QED
  BY <1>1, <1>2

LEMMA MaxIsNat == Max(Amounts) \in Nat
BY MaxIsAmount, AmountsAssumption

LEMMA TodoIs ==
    ASSUME NEW S \in SUBSET Transfers, NEW f \in [S -> Statuses]
    PROVE  f \in Todo
BY DEF Todo

LEMMA TodoHas ==
    ASSUME NEW f \in Todo
    PROVE  DOMAIN f \subseteq Transfers /\ f \in [DOMAIN f -> Statuses]
<1>1. PICK S \in SUBSET Transfers : f \in [S -> Statuses]
  BY DEF Todo
<1>2. QED
  BY <1>1

LEMMA EmptyTodo == <<>> \in Todo
<1>1. <<>> \in [{} -> Statuses]
  OBVIOUS
<1>2. QED
  BY <1>1, TodoIs

LEMMA DropTodo ==
    ASSUME NEW f \in Todo, NEW t
    PROVE  /\ Drop(f, t) \in Todo /\ DOMAIN Drop(f, t) = DOMAIN f \ {t}
           /\ \A u \in DOMAIN f \ {t} : Drop(f, t)[u] = f[u]
<1>1. DOMAIN f \subseteq Transfers /\ f \in [DOMAIN f -> Statuses]
  BY TodoHas
<1>2. Drop(f, t) \in [DOMAIN f \ {t} -> Statuses]
  BY <1>1 DEF Drop
<1>3. QED
  BY <1>1, <1>2, TodoIs DEF Drop

(* The automation takes everything for internal or leaves it open.         *)
LEMMA AutomaticIs ==
    ASSUME NEW t \in Transfers, NEW rows, NEW context
    PROVE  Automatic(t, rows, context) \in Statuses \ Cash
<1>1. Structural(t, rows) \in {"INTERNAL_PROTOCOL", "INTERNAL_TRANSFER", "INTERNAL_CONVERSION",
                               "UNRESOLVED"}
  BY DEF Structural
<1>2. \A kind \in DOMAIN ByKind :
         ByKind[kind] \in {"INTERNAL_PROTOCOL", "INTERNAL_TRANSFER", "INTERNAL_CONVERSION"}
  BY DEF ByKind
<1>3. QED
  BY <1>1, <1>2 DEF Automatic, Statuses, Reviews, Cash

LEMMA ByRuleIs ==
    ASSUME NEW t \in Transfers
    PROVE  ByRule(t) \in Statuses /\ (ByRule(t) \in Cash => Tx(t) \in FundingTxs)
BY DEF ByRule, Statuses, Reviews, Cash

(***************************************************************************)
(* Jobs: what scans and imports have in mind for the events they listed.   *)
(***************************************************************************)
JobOK(a) ==
    /\ job[a].settled \subseteq Stored
    /\ job[a].pc \in {"classify", "resolve"} => DOMAIN job[a].todo \cap job[a].settled = {}
    /\ a \in Scanners /\ job[a].pc \in {"upsert", "resolve"} =>
          \A t \in DOMAIN job[a].todo : job[a].todo[t] \notin Cash
    /\ job[a].pc = "resolve" =>
          \A t \in DOMAIN job[a].todo : job[a].todo[t] \in Cash => Tx(t) \in FundingTxs

(* What the status of an event of a transfer needs behind it.              *)
Founded(t, e) ==
    e.status \in Cash => \/ e.by = "REVIEW" /\ e.fiat > 0
                         \/ e.by = "IMPORT" /\ Tx(t) \in FundingTxs

AuditInv == TypeOK /\ CashNeedsConfirmation /\ \A a \in Automata : JobOK(a)

Job == [pc : {"idle", "upsert", "list", "classify", "resolve", "entries"},
        todo : Todo, context : SUBSET Transfers,
        entries : SUBSET Entries, settled : SUBSET Transfers]
Review == [pc : {"idle", "ledger", "check", "record"},
           transfer : Transfers, status : Reviews, amount : Nat]

LEMMA IdleIsJob ==
    /\ Idle \in Job /\ Idle.pc = "idle" /\ Idle.settled = {}
    /\ Idle.todo = <<>> /\ Idle.entries = {} /\ Idle.context = {}
BY EmptyTodo DEF Idle, Job

LEMMA DoneIsReview == Done \in Review /\ Done.pc = "idle"
<1>1. (CHOOSE t \in Transfers : TRUE) \in Transfers
  BY EvidenceAssumption
<1>2. QED
  BY <1>1 DEF Done, Review, Reviews

LEMMA InitAudit == Init => AuditInv
<1> SUFFICES ASSUME Init PROVE AuditInv
  OBVIOUS
<1>1. TypeOK
  <2>1. job \in [Automata -> Job]
    BY IdleIsJob DEF Init
  <2>2. review \in [Handlers -> Review]
    BY DoneIsReview DEF Init
  <2>3. QED
    BY <2>1, <2>2, BoundAssumption DEF Init, TypeOK, Job, Review
<1>2. Stored = {}
  BY DEF Init, Stored
<1>3. \A a \in Automata : JobOK(a)
  BY IdleIsJob DEF Init, JobOK
<1>4. QED
  BY <1>1, <1>2, <1>3 DEF AuditInv, CashNeedsConfirmation

(* One job moves and the events stay.                                      *)
LEMMA JobStepKeeps ==
    ASSUME AuditInv, NEW a \in Automata, NEW new \in Job, Advance(a, new), JobOK(a)',
           UNCHANGED <<events, flows, review, cut, crossed>>, kinds' \in SUBSET Transfers,
           ledger' \in [Transfers \cup Entries -> Entry \cup {NoEntry}],
           started' \in 0..MaxStarted
    PROVE  AuditInv'
<1>1. job \in [Automata -> Job] /\ job' = [job EXCEPT ![a] = new]
  BY DEF AuditInv, TypeOK, Job, Advance
<1>2. TypeOK'
  BY <1>1 DEF AuditInv, TypeOK, Job
<1>3. ASSUME NEW b \in Automata PROVE JobOK(b)'
  <2>1. CASE b = a
    BY <2>1
  <2>2. CASE b # a
    <3>1. job'[b] = job[b] /\ JobOK(b)
      BY <1>1, <2>2 DEF AuditInv
    <3>2. QED
      BY <3>1 DEF JobOK, Stored
  <2>3. QED
    BY <2>1, <2>2
<1>4. CashNeedsConfirmation'
  BY DEF AuditInv, CashNeedsConfirmation, Stored
<1>5. QED
  BY <1>2, <1>3, <1>4 DEF AuditInv

(* One event is written: it is stored from then on, so what was settled    *)
(* stays stored.                                                           *)
LEMMA EventStepKeeps ==
    ASSUME AuditInv, NEW t \in Transfers, NEW e \in Event,
           events' = [events EXCEPT ![t] = e],
           Founded(t, e), crossed' \in SUBSET Transfers,
           job' \in [Automata -> Job],
           \A a \in Automata : JobOK(a)',
           UNCHANGED <<kinds, ledger, flows, cut>>,
           review' \in [Handlers -> Review], started' \in 0..MaxStarted
    PROVE  AuditInv'
<1>1. TypeOK'
  BY DEF AuditInv, TypeOK, Job, Review
<1>2. CashNeedsConfirmation'
  BY DEF AuditInv, TypeOK, CashNeedsConfirmation, Stored, Founded
<1>3. QED
  BY <1>1, <1>2 DEF AuditInv

LEMMA EventIsStored ==
    ASSUME AuditInv, NEW t \in Transfers, NEW e \in Event, events' = [events EXCEPT ![t] = e]
    PROVE  Stored' = Stored \cup {t}
<1>1. e # Absent
  BY DEF Event, Absent, Statuses, Reviews, Cash
<1>2. QED
  BY <1>1 DEF AuditInv, TypeOK, Stored

--------------------------------------------------------------------------------
(***************************************************************************)
(* The steps of a scan.                                                    *)
(***************************************************************************)
LEMMA StartIs == ASSUME AuditInv, Start PROVE started' \in 0..MaxStarted
BY BoundAssumption DEF AuditInv, TypeOK, Start

LEMMA BeginScanKeeps ==
    ASSUME AuditInv, NEW a \in Automata, NEW listed \in SUBSET Transfers,
           NEW context \in SUBSET Transfers, BeginScan(a, listed, context)
    PROVE  AuditInv'
<1> DEFINE todo == [t \in listed |-> Automatic(t, listed, context)]
           new == [Idle EXCEPT !.pc = "upsert", !.context = context,
                               !.settled = Stored \ Unresolved, !.todo = todo]
<1>1. todo \in Todo /\ \A t \in DOMAIN todo : todo[t] \notin Cash
  BY AutomaticIs, TodoIs
<1>2. Stored \ Unresolved \subseteq Transfers
  BY DEF Stored
<1> HIDE DEF todo
<1>3. /\ new \in Job /\ new.pc = "upsert" /\ new.settled = Stored \ Unresolved
      /\ new.todo = todo
  BY <1>1, <1>2, IdleIsJob DEF Job
<1>4. Advance(a, new) /\ UNCHANGED <<events, kinds, ledger, flows, review, cut, crossed>> /\ Start
  BY DEF BeginScan, todo
<1>5. job'[a] = new /\ Stored' = Stored
  BY <1>4 DEF Advance, AuditInv, TypeOK, Stored
<1> HIDE DEF new
<1>6. JobOK(a)'
  BY <1>1, <1>3, <1>5 DEF JobOK
<1>7. QED
  BY <1>3, <1>4, <1>6, StartIs, JobStepKeeps DEF AuditInv, TypeOK

(* Taking one transfer off a job leaves it as good as it was.              *)
LEMMA DropIs ==
    ASSUME AuditInv, NEW a \in Automata, NEW t \in Transfers, t \in DOMAIN job[a].todo,
           NEW e \in Event, events' = [events EXCEPT ![t] = e],
           Advance(a, [job[a] EXCEPT !.todo = Drop(@, t)])
    PROVE  job' \in [Automata -> Job] /\ \A b \in Automata : JobOK(b)'
<1> DEFINE todo == Drop(job[a].todo, t)
           new == [job[a] EXCEPT !.todo = todo]
<1>1. job \in [Automata -> Job] /\ job[a] \in Job /\ job[a].todo \in Todo
  BY DEF AuditInv, TypeOK, Job
<1>2. /\ todo \in Todo /\ DOMAIN todo \subseteq DOMAIN job[a].todo
      /\ \A u \in DOMAIN todo : todo[u] = job[a].todo[u]
  <2>1. /\ todo \in Todo /\ DOMAIN todo = DOMAIN job[a].todo \ {t}
        /\ \A u \in DOMAIN job[a].todo \ {t} : todo[u] = job[a].todo[u]
    BY <1>1, DropTodo, Zenon
  <2> HIDE DEF todo
  <2>2. QED
    BY <2>1
<1> HIDE DEF todo
<1>3. new \in Job /\ new.pc = job[a].pc /\ new.settled = job[a].settled /\ new.todo = todo
  BY <1>1, <1>2 DEF Job
<1>4. job' = [job EXCEPT ![a] = new]
  BY DEF Advance, todo
<1> HIDE DEF new
<1>5. job' \in [Automata -> Job] /\ job'[a] = new
  BY <1>1, <1>3, <1>4
<1>6. Stored \subseteq Stored'
  BY EventIsStored
<1>7. ASSUME NEW b \in Automata PROVE JobOK(b)'
  <2>1. JobOK(b)
    BY DEF AuditInv
  <2>2. CASE b = a
    BY <1>2, <1>3, <1>5, <1>6, <2>1, <2>2 DEF JobOK
  <2>3. CASE b # a
    <3>1. job'[b] = job[b]
      BY <1>1, <1>4, <2>3
    <3>2. QED
      BY <1>6, <2>1, <3>1 DEF JobOK
  <2>4. QED
    BY <2>2, <2>3
<1>8. QED
  BY <1>5, <1>7

LEMMA UpsertEventKeeps ==
    ASSUME AuditInv, NEW a \in Scanners, NEW t \in Transfers, UpsertEvent(a, t)
    PROVE  AuditInv'
<1> DEFINE e == Upserted(t, job[a].todo[t])
<1>1. /\ a \in Automata /\ job[a].pc = "upsert" /\ t \in DOMAIN job[a].todo
      /\ events' = [events EXCEPT ![t] = e] /\ Advance(a, [job[a] EXCEPT !.todo = Drop(@, t)])
      /\ UNCHANGED <<kinds, ledger, flows, review, cut, crossed, started>>
  BY DEF UpsertEvent, Automata
<1>2. job[a].todo[t] \in Statuses \ Cash
  <2>1. job[a].todo \in Todo /\ JobOK(a)
    BY <1>1 DEF AuditInv, TypeOK
  <2>2. QED
    BY <1>1, <2>1, TodoHas DEF JobOK
<1>3. e \in Event /\ Founded(t, e)
  <2>1. CASE t \in Stored
    <3>1. e = events[t] /\ e \in Event
      BY <2>1 DEF Upserted, Stored, AuditInv, TypeOK
    <3>2. QED
      BY <2>1, <3>1 DEF AuditInv, CashNeedsConfirmation, Founded
  <2>2. CASE t \notin Stored
    BY <1>2, <2>2 DEF Upserted, Event, Currencies, Founded
  <2>3. QED
    BY <2>1, <2>2
<1> HIDE DEF e
<1>4. job' \in [Automata -> Job] /\ \A b \in Automata : JobOK(b)'
  BY <1>1, <1>3, DropIs
<1>5. /\ review' \in [Handlers -> Review] /\ started' \in 0..MaxStarted
      /\ crossed' \in SUBSET Transfers
  BY <1>1 DEF AuditInv, TypeOK, Review
<1>6. QED
  BY <1>1, <1>3, <1>4, <1>5, EventStepKeeps

LEMMA ResolveEventKeeps ==
    ASSUME AuditInv, NEW a \in Automata, NEW t \in Transfers, NEW amount \in Nat,
           ResolveEvent(a, t, amount)
    PROVE  AuditInv'
<1> DEFINE e == [status |-> job[a].todo[t], fiat |-> amount, currency |-> "GBP",
                 by |-> IF a \in Scanners THEN "SCAN" ELSE "IMPORT"]
<1>1. /\ job[a].pc = "resolve" /\ t \in DOMAIN job[a].todo
      /\ events' = [events EXCEPT ![t] = e] /\ Advance(a, [job[a] EXCEPT !.todo = Drop(@, t)])
      /\ UNCHANGED <<kinds, ledger, flows, review, cut, crossed, started>>
  BY DEF ResolveEvent
<1>2. /\ job[a].todo[t] \in Statuses
      /\ a \in Scanners => job[a].todo[t] \notin Cash
      /\ job[a].todo[t] \in Cash => Tx(t) \in FundingTxs
  <2>1. job[a].todo \in Todo /\ JobOK(a)
    BY <1>1 DEF AuditInv, TypeOK
  <2>2. QED
    BY <1>1, <2>1, TodoHas DEF JobOK
<1>3. e \in Event /\ Founded(t, e)
  BY <1>2 DEF Event, Currencies, Founded
<1> HIDE DEF e
<1>4. job' \in [Automata -> Job] /\ \A b \in Automata : JobOK(b)'
  BY <1>1, <1>3, DropIs
<1>5. /\ review' \in [Handlers -> Review] /\ started' \in 0..MaxStarted
      /\ crossed' \in SUBSET Transfers
  BY <1>1 DEF AuditInv, TypeOK, Review
<1>6. QED
  BY <1>1, <1>3, <1>4, <1>5, EventStepKeeps

LEMMA UpsertTransactionsKeeps ==
    ASSUME AuditInv, NEW a \in Automata, UpsertTransactions(a)
    PROVE  AuditInv'
<1> DEFINE new == [Idle EXCEPT !.pc = "list"]
<1>1. new \in Job /\ new.pc = "list" /\ new.settled = {}
  BY IdleIsJob DEF Job
<1>2. /\ Advance(a, new) /\ UNCHANGED <<events, ledger, flows, review, cut, crossed, started>>
      /\ kinds' = kinds \cup job[a].context
  BY DEF UpsertTransactions
<1>3. kinds' \in SUBSET Transfers
  BY <1>2 DEF AuditInv, TypeOK
<1> HIDE DEF new
<1>4. job'[a] = new
  BY <1>2 DEF Advance, AuditInv, TypeOK
<1>5. JobOK(a)'
  BY <1>1, <1>4 DEF JobOK
<1>6. QED
  BY <1>1, <1>2, <1>3, <1>5, JobStepKeeps DEF AuditInv, TypeOK

LEMMA ListUnresolvedKeeps ==
    ASSUME AuditInv, NEW a \in Automata, ListUnresolved(a)
    PROVE  AuditInv'
<1> DEFINE todo == [t \in Unresolved |-> "UNRESOLVED"]
           new == [Idle EXCEPT !.pc = "classify", !.context = kinds,
                               !.settled = Stored \ Unresolved, !.todo = todo]
<1>1. Unresolved \subseteq Transfers /\ Stored \ Unresolved \subseteq Transfers
  BY DEF Unresolved, Stored
<1>2. todo \in Todo /\ DOMAIN todo = Unresolved
  BY <1>1, TodoIs DEF Statuses
<1> HIDE DEF todo
<1>3. /\ new \in Job /\ new.pc = "classify" /\ new.settled = Stored \ Unresolved
      /\ new.todo = todo
  BY <1>1, <1>2, IdleIsJob DEF Job, AuditInv, TypeOK
<1>4. Advance(a, new) /\ UNCHANGED <<events, kinds, ledger, flows, review, cut, crossed, started>>
  BY DEF ListUnresolved, todo
<1> HIDE DEF new
<1>5. job'[a] = new /\ Stored' = Stored
  BY <1>4 DEF Advance, AuditInv, TypeOK, Stored
<1>6. JobOK(a)'
  BY <1>2, <1>3, <1>5 DEF JobOK
<1>7. QED
  BY <1>3, <1>4, <1>6, JobStepKeeps DEF AuditInv, TypeOK

LEMMA ClassifyUnresolvedKeeps ==
    ASSUME AuditInv, NEW a \in Automata, ClassifyUnresolved(a)
    PROVE  AuditInv'
<1> DEFINE rows == DOMAIN job[a].todo
           status == [t \in rows |-> Automatic(t, rows, job[a].context)]
           todo == [t \in {u \in rows : status[u] # "UNRESOLVED"} |-> status[t]]
           new == [job[a] EXCEPT !.pc = "resolve", !.context = {}, !.todo = todo]
<1>1. job[a] \in Job /\ JobOK(a) /\ job \in [Automata -> Job] /\ job[a].pc = "classify"
  BY DEF AuditInv, TypeOK, Job, ClassifyUnresolved
<1>2. rows \subseteq Transfers
  BY <1>1, TodoHas DEF Job
<1>3. \A t \in rows : status[t] \in Statuses \ Cash
  BY <1>2, AutomaticIs
<1>4. Advance(a, new) /\ UNCHANGED <<events, kinds, ledger, flows, review, cut, crossed, started>>
  BY DEF ClassifyUnresolved
<1> HIDE DEF status
<1>5. /\ todo \in Todo /\ DOMAIN todo \subseteq rows
      /\ \A t \in DOMAIN todo : todo[t] \notin Cash
  BY <1>2, <1>3, TodoIs
<1> HIDE DEF todo
<1>6. /\ new \in Job /\ new.pc = "resolve" /\ new.settled = job[a].settled /\ new.todo = todo
  BY <1>1, <1>5 DEF Job
<1> HIDE DEF new
<1>7. job'[a] = new /\ Stored' = Stored
  BY <1>1, <1>4 DEF Advance, Stored
<1>8. JobOK(a)'
  BY <1>1, <1>5, <1>6, <1>7 DEF JobOK
<1>9. QED
  BY <1>4, <1>6, <1>8, JobStepKeeps DEF AuditInv, TypeOK

(* A job that ends or is refused has nothing left in mind.                 *)
LEMMA EndKeeps ==
    ASSUME AuditInv, NEW a \in Automata, Advance(a, Idle),
           UNCHANGED <<events, kinds, ledger, flows, review, cut, crossed, started>>
    PROVE  AuditInv'
<1>1. job'[a] = Idle
  BY DEF Advance, AuditInv, TypeOK
<1>2. JobOK(a)'
  BY <1>1, IdleIsJob DEF JobOK
<1>3. QED
  BY <1>2, IdleIsJob, JobStepKeeps DEF AuditInv, TypeOK

--------------------------------------------------------------------------------
(***************************************************************************)
(* The steps of an import and of a review.                                 *)
(***************************************************************************)
LEMMA BeginImportKeeps ==
    ASSUME AuditInv, NEW a \in Automata, NEW replace \in BOOLEAN, BeginImport(a, replace)
    PROVE  AuditInv'
<1> DEFINE new == [Idle EXCEPT !.pc = "entries", !.entries = Entries]
<1>1. new \in Job /\ new.pc = "entries" /\ new.settled = {}
  BY IdleIsJob DEF Job
<1>2. Advance(a, new) /\ UNCHANGED <<events, kinds, flows, review, cut, crossed>> /\ Start
  BY DEF BeginImport
<1>3. ledger' \in [Transfers \cup Entries -> Entry \cup {NoEntry}]
  BY DEF BeginImport, Cleared, AuditInv, TypeOK
<1> HIDE DEF new
<1>4. job'[a] = new
  BY <1>2 DEF Advance, AuditInv, TypeOK
<1>5. JobOK(a)'
  BY <1>1, <1>4 DEF JobOK
<1>6. QED
  BY <1>1, <1>2, <1>3, <1>5, StartIs, JobStepKeeps DEF AuditInv, TypeOK

LEMMA ImportEntryKeeps ==
    ASSUME AuditInv, NEW a \in Automata, NEW e \in Entries, ImportEntry(a, e)
    PROVE  AuditInv'
<1> DEFINE new == [job[a] EXCEPT !.entries = @ \ {e}]
<1>1. job[a] \in Job /\ JobOK(a) /\ job \in [Automata -> Job] /\ job[a].pc = "entries"
  BY DEF AuditInv, TypeOK, Job, ImportEntry
<1>2. new \in Job /\ new.pc = "entries" /\ new.settled = job[a].settled
  BY <1>1 DEF Job
<1>3. Advance(a, new) /\ UNCHANGED <<events, kinds, flows, review, cut, crossed, started>>
  BY DEF ImportEntry
<1>4. ledger' \in [Transfers \cup Entries -> Entry \cup {NoEntry}]
  <2>1. [type |-> "EXTERNAL_FUNDING", amount |-> Max(Amounts)] \in Entry
    BY MaxIsNat DEF Entry, LedgerTypes
  <2>2. QED
    BY <2>1 DEF ImportEntry, AuditInv, TypeOK
<1> HIDE DEF new
<1>5. job'[a] = new /\ Stored' = Stored
  BY <1>1, <1>3 DEF Advance, Stored
<1>6. JobOK(a)'
  BY <1>1, <1>2, <1>5 DEF JobOK
<1>7. QED
  BY <1>2, <1>3, <1>4, <1>6, JobStepKeeps DEF AuditInv, TypeOK

LEMMA ListReviewedKeeps ==
    ASSUME AuditInv, NEW a \in Importers, ListReviewed(a)
    PROVE  AuditInv'
<1> DEFINE rows == {u \in Unresolved : ByRule(u) # "UNRESOLVED"}
           todo == [t \in rows |-> ByRule(t)]
           new == [Idle EXCEPT !.pc = "resolve", !.settled = Stored \ Unresolved, !.todo = todo]
<1>1. rows \subseteq Transfers /\ Stored \ Unresolved \subseteq Transfers
  BY DEF Unresolved, Stored
<1>2. /\ todo \in Todo /\ DOMAIN todo \subseteq Unresolved
      /\ \A t \in DOMAIN todo : todo[t] \in Cash => Tx(t) \in FundingTxs
  BY <1>1, ByRuleIs, TodoIs
<1> HIDE DEF todo
<1>3. /\ new \in Job /\ new.pc = "resolve" /\ new.settled = Stored \ Unresolved
      /\ new.todo = todo
  BY <1>1, <1>2, IdleIsJob DEF Job
<1>4. Advance(a, new) /\ UNCHANGED <<events, kinds, ledger, flows, review, cut, crossed, started>>
  BY DEF ListReviewed, todo
<1> HIDE DEF new
<1>5. /\ a \in Automata /\ a \notin Scanners /\ job'[a] = new /\ Stored' = Stored
  BY <1>4, ActorsAssumption DEF Automata, Advance, AuditInv, TypeOK, Stored
<1>6. JobOK(a)'
  BY <1>2, <1>3, <1>5 DEF JobOK
<1>7. QED
  BY <1>3, <1>4, <1>5, <1>6, JobStepKeeps DEF AuditInv, TypeOK

LEMMA BeginReviewKeeps ==
    ASSUME AuditInv, NEW h \in Handlers, NEW t \in Transfers, NEW status \in Reviews,
           NEW amount \in Nat, NEW currency \in Currencies,
           BeginReview(h, t, status, amount, currency)
    PROVE  AuditInv'
<1> DEFINE e == [status |-> status, fiat |-> amount, by |-> "REVIEW",
                 currency |-> IF status \in Cash THEN currency ELSE "GBP"]
<1>1. e \in Event /\ (status \in Cash => amount > 0) /\ e.status = status /\ e.fiat = amount
      /\ e.by = "REVIEW"
  BY DEF Event, Statuses, Currencies, BeginReview, MayReview
<1>2. /\ events' = [events EXCEPT ![t] = e] /\ Start /\ t \in Stored
      /\ UNCHANGED <<kinds, ledger, flows, job, cut>>
  BY DEF BeginReview
<1> HIDE DEF e
<1>3. Founded(t, e)
  BY <1>1 DEF Founded
<1>4. Stored' = Stored
  BY <1>1, <1>2, EventIsStored
<1>5. job' \in [Automata -> Job] /\ \A a \in Automata : JobOK(a)'
  BY <1>2, <1>4 DEF AuditInv, TypeOK, Job, JobOK
<1>6. review' \in [Handlers -> Review]
  <2>1. [pc |-> "ledger", transfer |-> t, status |-> status, amount |-> amount] \in Review
    BY DEF Review
  <2>2. QED
    BY <2>1 DEF BeginReview, AuditInv, TypeOK, Review
<1>7. crossed' \in SUBSET Transfers
  BY DEF BeginReview, AuditInv, TypeOK
<1>8. QED
  BY <1>1, <1>2, <1>3, <1>5, <1>6, <1>7, StartIs, EventStepKeeps

(* A step that leaves events and jobs alone.                               *)
LEMMA BooksStepKeeps ==
    ASSUME AuditInv, UNCHANGED <<events, kinds, job, crossed, started>>,
           ledger' \in [Transfers \cup Entries -> Entry \cup {NoEntry}],
           flows' \in [Transfers -> [FlowTypes -> Nat]],
           review' \in [Handlers -> Review], cut' \in SUBSET Transfers
    PROVE  AuditInv'
BY DEF AuditInv, TypeOK, Review, CashNeedsConfirmation, Stored, JobOK

LEMMA WriteLedgerKeeps ==
    ASSUME AuditInv, NEW h \in Handlers, WriteLedger(h)
    PROVE  AuditInv'
<1>1. review \in [Handlers -> Review] /\ review[h] \in Review
  BY DEF AuditInv, TypeOK, Review
<1>2. [type |-> LedgerType(review[h].status), amount |-> review[h].amount] \in Entry
  BY <1>1 DEF Review, Entry, LedgerType, LedgerTypes
<1>3. ledger' \in [Transfers \cup Entries -> Entry \cup {NoEntry}]
  BY <1>2 DEF WriteLedger, AuditInv, TypeOK
<1>4. review' \in [Handlers -> Review]
  BY <1>1 DEF WriteLedger, Review
<1>5. QED
  BY <1>3, <1>4, BooksStepKeeps DEF WriteLedger, AuditInv, TypeOK

LEMMA CheckFlowKeeps ==
    ASSUME AuditInv, NEW h \in Handlers, CheckFlow(h)
    PROVE  AuditInv'
<1>1. review \in [Handlers -> Review] /\ review[h] \in Review
  BY DEF AuditInv, TypeOK, Review
<1>2. review' \in [Handlers -> Review] /\ cut' \in SUBSET Transfers
  <2>1. CASE FlowsOf(h) = 0
    <3>1. review' = [review EXCEPT ![h].pc = "record"] /\ cut' = cut
      BY <2>1 DEF CheckFlow
    <3>2. review' \in [Handlers -> Review]
      BY <1>1, <3>1 DEF Review
    <3>3. QED
      BY <3>1, <3>2 DEF AuditInv, TypeOK
  <2>2. CASE FlowsOf(h) # 0
    BY <1>1, <2>2, DoneIsReview DEF CheckFlow, AuditInv, TypeOK
  <2>3. QED
    BY <2>1, <2>2
<1>3. QED
  BY <1>2, BooksStepKeeps DEF CheckFlow, AuditInv, TypeOK

LEMMA FlowTypeIs ==
    ASSUME NEW status
    PROVE  FlowType(status) \in FlowTypes
BY DEF FlowType, FlowTypes

LEMMA RecordFlowIs ==
    ASSUME AuditInv, NEW h \in Handlers, RecordFlow(h)
    PROVE  /\ flows' \in [Transfers -> [FlowTypes -> Nat]]
           /\ \A t \in Transfers, f \in FlowTypes :
                 flows'[t][f] = IF t = review[h].transfer /\ f = FlowType(review[h].status)
                                THEN flows[t][f] + 1 ELSE flows[t][f]
<1>1. review[h] \in Review /\ review[h].transfer \in Transfers
  BY DEF AuditInv, TypeOK, Review
<1>2. FlowType(review[h].status) \in FlowTypes
  BY FlowTypeIs
<1>3. flows \in [Transfers -> [FlowTypes -> Nat]]
  BY DEF AuditInv, TypeOK
<1>4. flows' = [flows EXCEPT ![review[h].transfer][FlowType(review[h].status)] = @ + 1]
  BY DEF RecordFlow
<1>5. QED
  BY <1>1, <1>2, <1>3, <1>4

LEMMA RecordFlowKeeps ==
    ASSUME AuditInv, NEW h \in Handlers, RecordFlow(h)
    PROVE  AuditInv'
<1>1. review' \in [Handlers -> Review] /\ cut' \in SUBSET Transfers
  BY DoneIsReview DEF RecordFlow, AuditInv, TypeOK, Review
<1>2. QED
  BY <1>1, RecordFlowIs, BooksStepKeeps DEF RecordFlow, AuditInv, TypeOK

LEMMA CrashKeeps ==
    ASSUME AuditInv, Crash
    PROVE  AuditInv'
<1>1. job' = [a \in Automata |-> Idle] /\ review' = [h \in Handlers |-> Done]
      /\ cut' = cut \cup InReview /\ UNCHANGED <<events, kinds, ledger, flows, crossed, started>>
  BY DEF Crash
<1>2. InReview \subseteq Transfers
  BY DEF InReview, AuditInv, TypeOK
<1>3. job' \in [Automata -> Job] /\ review' \in [Handlers -> Review]
  BY <1>1, IdleIsJob, DoneIsReview
<1>4. \A a \in Automata : JobOK(a)'
  BY <1>1, IdleIsJob DEF JobOK
<1>5. TypeOK'
  BY <1>1, <1>2, <1>3 DEF AuditInv, TypeOK, Job, Review
<1>6. QED
  BY <1>1, <1>4, <1>5 DEF AuditInv, CashNeedsConfirmation, Stored

LEMMA AuditIsInductive == AuditInv /\ [Next]_vars => AuditInv'
<1> SUFFICES ASSUME AuditInv, [Next]_vars PROVE AuditInv'
  OBVIOUS
<1>1. ASSUME NEW a \in Scanners, ScanNext(a) PROVE AuditInv'
  <2>1. a \in Automata
    BY DEF Automata
  <2>2. ASSUME NEW listed \in SUBSET Transfers, NEW context \in SUBSET Transfers,
               BeginScan(a, listed, context)
        PROVE  AuditInv'
    BY <2>1, <2>2, BeginScanKeeps
  <2>3. ASSUME NEW t \in Transfers, UpsertEvent(a, t) \/ ResolveEvent(a, t, 0) PROVE AuditInv'
    BY <2>1, <2>3, UpsertEventKeeps, ResolveEventKeeps
  <2>4. CASE EndJob(a)
    BY <2>1, <2>4, EndKeeps DEF EndJob
  <2>5. QED
    BY <1>1, <2>1, <2>2, <2>3, <2>4, UpsertTransactionsKeeps, ListUnresolvedKeeps,
       ClassifyUnresolvedKeeps DEF ScanNext
<1>2. ASSUME NEW a \in Importers, ImportNext(a) PROVE AuditInv'
  <2>1. a \in Automata
    BY DEF Automata
  <2>2. ASSUME NEW replace \in BOOLEAN, BeginImport(a, replace) PROVE AuditInv'
    BY <2>1, <2>2, BeginImportKeeps
  <2>3. ASSUME NEW e \in Entries, ImportEntry(a, e) PROVE AuditInv'
    BY <2>1, <2>3, ImportEntryKeeps
  <2>4. ASSUME NEW t \in Transfers, NEW amount \in Amounts \cup {0}, ResolveEvent(a, t, amount)
        PROVE  AuditInv'
    <3>1. amount \in Nat
      BY AmountsAssumption
    <3>2. QED
      BY <2>1, <2>4, <3>1, ResolveEventKeeps
  <2>5. CASE EndJob(a) \/ RejectEntry(a)
    BY <2>1, <2>5, EndKeeps DEF EndJob, RejectEntry
  <2>6. QED
    BY <1>2, <2>2, <2>3, <2>4, <2>5, ListReviewedKeeps DEF ImportNext
<1>3. ASSUME NEW h \in Handlers, ReviewNext(h) PROVE AuditInv'
  <2>1. ASSUME NEW t \in Transfers, NEW status \in Reviews, NEW amount \in Amounts \cup {0},
               NEW currency \in Currencies, BeginReview(h, t, status, amount, currency)
        PROVE  AuditInv'
    <3>1. amount \in Nat
      BY AmountsAssumption
    <3>2. QED
      BY <2>1, <3>1, BeginReviewKeeps
  <2>2. QED
    BY <1>3, <2>1, WriteLedgerKeeps, CheckFlowKeeps, RecordFlowKeeps DEF ReviewNext
<1>4. CASE UNCHANGED vars
  BY <1>4 DEF vars, AuditInv, TypeOK, CashNeedsConfirmation, Stored, JobOK
<1>5. QED
  BY <1>1, <1>2, <1>3, <1>4, CrashKeeps DEF Next

(* Whatever scans and imports have learned, cash is confirmed by the       *)
(* operator with an amount or by the import's rule for its transaction     *)
(* (_classify_scan_rows, _auto_reconcile_unresolved,                       *)
(* reconcile_reviewed_audit, resolve_wallet_audit_event).                  *)
THEOREM CashConfirmed == Spec => []CashNeedsConfirmation
<1>1. AuditInv => CashNeedsConfirmation
  BY DEF AuditInv
<1>2. QED
  BY <1>1, InitAudit, AuditIsInductive, PTL DEF Spec

--------------------------------------------------------------------------------
(***************************************************************************)
(* What was decided when a scan or an import listed the events stays.      *)
(***************************************************************************)
Stays == \A a \in Automata, t \in Transfers :
            job'[a] # job[a] /\ t \in job[a].settled => events'[t] = events[t]

LEMMA EventsSame == ASSUME UNCHANGED events PROVE Stays
BY DEF Stays

LEMMA JobsSame == ASSUME UNCHANGED job PROVE Stays
BY DEF Stays

LEMMA UpsertStays ==
    ASSUME AuditInv, NEW a \in Automata, NEW t \in Transfers, UpsertEvent(a, t)
    PROVE  Stays
<1>1. /\ events' = [events EXCEPT ![t] = Upserted(t, job[a].todo[t])]
      /\ Advance(a, [job[a] EXCEPT !.todo = Drop(@, t)])
  BY DEF UpsertEvent
<1>2. ASSUME NEW b \in Automata, b # a PROVE job'[b] = job[b]
  BY <1>1, <1>2 DEF Advance, AuditInv, TypeOK
<1>3. ASSUME NEW u \in Transfers, u \in job[a].settled PROVE events'[u] = events[u]
  <2>1. u \in Stored
    BY <1>3 DEF AuditInv, JobOK
  <2>2. QED
    BY <1>1, <2>1 DEF Upserted, AuditInv, TypeOK
<1>4. QED
  BY <1>2, <1>3 DEF Stays

LEMMA ResolveStays ==
    ASSUME AuditInv, NEW a \in Automata, NEW t \in Transfers, NEW amount,
           ResolveEvent(a, t, amount)
    PROVE  Stays
<1>1. /\ job[a].pc = "resolve" /\ t \in DOMAIN job[a].todo
      /\ \A u \in Transfers \ {t} : events'[u] = events[u]
      /\ Advance(a, [job[a] EXCEPT !.todo = Drop(@, t)])
  BY DEF ResolveEvent, AuditInv, TypeOK
<1>2. ASSUME NEW b \in Automata, b # a PROVE job'[b] = job[b]
  BY <1>1, <1>2 DEF Advance, AuditInv, TypeOK
<1>3. t \notin job[a].settled
  BY <1>1 DEF AuditInv, JobOK
<1>4. QED
  BY <1>1, <1>2, <1>3 DEF Stays

LEMMA StepStays == AuditInv /\ [Next]_vars => [Stays]_vars
<1> SUFFICES ASSUME AuditInv, Next PROVE Stays
  BY DEF Stays
<1>1. ASSUME NEW a \in Scanners, ScanNext(a) PROVE Stays
  <2>1. ASSUME NEW t \in Transfers, UpsertEvent(a, t) \/ ResolveEvent(a, t, 0) PROVE Stays
    BY <2>1, UpsertStays, ResolveStays DEF Automata
  <2>2. ASSUME NEW listed \in SUBSET Transfers, NEW context \in SUBSET Transfers,
               BeginScan(a, listed, context)
        PROVE  Stays
    BY <2>2, EventsSame DEF BeginScan
  <2>3. CASE UpsertTransactions(a) \/ ListUnresolved(a) \/ ClassifyUnresolved(a) \/ EndJob(a)
    BY <2>3, EventsSame DEF UpsertTransactions, ListUnresolved, ClassifyUnresolved, EndJob
  <2>4. QED
    BY <1>1, <2>1, <2>2, <2>3 DEF ScanNext
<1>2. ASSUME NEW a \in Importers, ImportNext(a) PROVE Stays
  <2>1. ASSUME NEW t \in Transfers, NEW amount, ResolveEvent(a, t, amount) PROVE Stays
    BY <2>1, ResolveStays DEF Automata
  <2>2. CASE \E replace \in BOOLEAN : BeginImport(a, replace)
    BY <2>2, EventsSame DEF BeginImport
  <2>3. CASE \E e \in Entries : ImportEntry(a, e)
    BY <2>3, EventsSame DEF ImportEntry
  <2>4. CASE RejectEntry(a) \/ ListReviewed(a) \/ EndJob(a)
    BY <2>4, EventsSame DEF RejectEntry, ListReviewed, EndJob
  <2>5. QED
    BY <1>2, <2>1, <2>2, <2>3, <2>4 DEF ImportNext
<1>3. ASSUME NEW h \in Handlers, ReviewNext(h) PROVE Stays
  <2>1. CASE \E t \in Transfers, status \in Reviews, amount \in Amounts \cup {0},
                currency \in Currencies : BeginReview(h, t, status, amount, currency)
    BY <2>1, JobsSame DEF BeginReview
  <2>2. CASE WriteLedger(h) \/ CheckFlow(h) \/ RecordFlow(h)
    BY <2>2, JobsSame DEF WriteLedger, CheckFlow, RecordFlow
  <2>3. QED
    BY <1>3, <2>1, <2>2 DEF ReviewNext
<1>4. CASE Crash
  BY <1>4, EventsSame DEF Crash
<1>5. QED
  BY <1>1, <1>2, <1>3, <1>4 DEF Next

(* A scan or an import never changes an event that was no longer           *)
(* unresolved when it last listed them (scan_wallet_audit,                 *)
(* reconcile_reviewed_audit).                                              *)
THEOREM DecidedStays == Spec => ReviewedStays
<1>1. [][Stays]_vars <=> ReviewedStays
  BY DEF ReviewedStays, Stays
<1>2. QED
  BY <1>1, InitAudit, AuditIsInductive, StepStays, PTL DEF Spec

--------------------------------------------------------------------------------
(***************************************************************************)
(* The books.  While no two reviews of a transfer cross, a review of it    *)
(* knows what it has written so far, and a flow that it is about to record *)
(* is not there.                                                           *)
(***************************************************************************)
Busy(h) == review[h].pc # "idle"

Apart ==
    \A g, h \in Handlers :
       g # h /\ Busy(g) /\ Busy(h) /\ review[g].transfer = review[h].transfer =>
          review[h].transfer \in crossed

Progress(h) ==
    LET t == review[h].transfer
        status == review[h].status
    IN  /\ t \in Stored
        /\ events[t].by = "REVIEW" => events[t].status = status /\ events[t].fiat = review[h].amount
        /\ review[h].pc \in {"check", "record"} =>
              ledger[t] = [type |-> LedgerType(status), amount |-> review[h].amount]
        /\ review[h].pc = "record" => flows[t][FlowType(status)] = 0

BookingOK(h) == Busy(h) /\ review[h].transfer \notin crossed => Progress(h)

FlowsOnce == \A t \in Transfers \ crossed, f \in FlowTypes : flows[t][f] <= 1

Booked(t) ==
    events[t].by = "REVIEW" /\ events[t].status \in Cash /\ events[t].currency = "GBP" =>
       /\ ledger[t] = [type |-> LedgerType(events[t].status), amount |-> events[t].fiat]
       /\ flows[t][FlowType(events[t].status)] = 1

BookInv == Apart /\ FlowsOnce /\ ReviewIsBooked /\ \A h \in Handlers : BookingOK(h)

LEMMA BookedIs == ReviewIsBooked <=> \A t \in Stored \ (InReview \cup cut \cup crossed) : Booked(t)
BY DEF ReviewIsBooked, Booked

LEMMA InitBooks == Init => BookInv
<1> SUFFICES ASSUME Init PROVE BookInv
  OBVIOUS
<1>1. FlowsOnce
  BY DEF Init, FlowsOnce
<1>2. ReviewIsBooked
  BY DEF Init, ReviewIsBooked, Stored
<1>3. \A h \in Handlers : ~Busy(h)
  BY DoneIsReview DEF Init, Busy
<1>4. QED
  BY <1>1, <1>2, <1>3 DEF BookInv, Apart, BookingOK

(* Scans and imports write events that no review speaks for, and no ledger *)
(* entry of a transfer.                                                    *)
LEMMA JobsKeepBooks ==
    ASSUME AuditInv, BookInv, UNCHANGED <<flows, review, cut, crossed>>,
           \A t \in Transfers : \/ events'[t] = events[t]
                                \/ events'[t] \in Event /\ events'[t].by # "REVIEW",
           \A t \in Transfers : ledger'[t] = ledger[t]
    PROVE  BookInv'
<1>1. FlowsOnce' /\ Apart'
  BY DEF BookInv, FlowsOnce, Apart, Busy
<1>2. Stored \subseteq Stored'
  BY DEF Stored, Event, Absent, Statuses, Reviews, Cash
<1>3. ASSUME NEW t \in Stored' \ (InReview' \cup cut' \cup crossed') PROVE Booked(t)'
  <2>1. t \in Transfers
    BY <1>3 DEF Stored
  <2>2. CASE events'[t] = events[t]
    <3>1. t \in Stored \ (InReview \cup cut \cup crossed) /\ ledger'[t] = ledger[t]
      BY <1>3, <2>1, <2>2 DEF Stored, InReview
    <3>2. Booked(t)
      BY <3>1, BookedIs DEF BookInv
    <3>3. QED
      BY <2>2, <3>1, <3>2 DEF Booked
  <2>3. CASE events'[t].by # "REVIEW"
    BY <2>3 DEF Booked
  <2>4. QED
    BY <2>1, <2>2, <2>3
<1>4. ReviewIsBooked'
  BY <1>3 DEF ReviewIsBooked, Booked
<1>5. ASSUME NEW h \in Handlers PROVE BookingOK(h)'
  <2>1. BookingOK(h) /\ review'[h] = review[h] /\ review[h].transfer \in Transfers
    BY DEF BookInv, AuditInv, TypeOK
  <2>2. QED
    BY <1>2, <2>1 DEF BookingOK, Progress, Busy
<1>6. QED
  BY <1>1, <1>4, <1>5 DEF BookInv

LEMMA ResolveKeepsBooks ==
    ASSUME AuditInv, BookInv, NEW a \in Automata, NEW t \in Transfers, NEW amount \in Nat,
           ResolveEvent(a, t, amount)
    PROVE  BookInv'
<1> DEFINE e == [status |-> job[a].todo[t], fiat |-> amount, currency |-> "GBP",
                 by |-> IF a \in Scanners THEN "SCAN" ELSE "IMPORT"]
<1>1. /\ events' = [events EXCEPT ![t] = e] /\ t \in DOMAIN job[a].todo
      /\ UNCHANGED <<ledger, flows, review, cut, crossed>>
  BY DEF ResolveEvent
<1>2. job[a].todo[t] \in Statuses
  BY <1>1, TodoHas DEF AuditInv, TypeOK
<1>3. e \in Event /\ e.by # "REVIEW"
  BY <1>2 DEF Event, Currencies
<1> HIDE DEF e
<1>4. ASSUME NEW u \in Transfers
      PROVE  \/ events'[u] = events[u]
             \/ events'[u] \in Event /\ events'[u].by # "REVIEW"
  BY <1>1, <1>3 DEF AuditInv, TypeOK
<1>5. QED
  BY <1>1, <1>4, JobsKeepBooks

LEMMA ScanKeepsBooks ==
    ASSUME AuditInv, BookInv, NEW a \in Automata, ScanNext(a)
    PROVE  BookInv'
<1>1. ASSUME NEW t \in Transfers, UpsertEvent(a, t) PROVE BookInv'
  <2>1. /\ events' = [events EXCEPT ![t] = Upserted(t, job[a].todo[t])]
        /\ job[a].pc = "upsert" /\ t \in DOMAIN job[a].todo
        /\ UNCHANGED <<ledger, flows, review, cut, crossed>>
    BY <1>1 DEF UpsertEvent
  <2>2. job[a].todo[t] \in Statuses
    BY <2>1, TodoHas DEF AuditInv, TypeOK
  <2>3. ASSUME NEW u \in Transfers
        PROVE  \/ events'[u] = events[u]
               \/ events'[u] \in Event /\ events'[u].by # "REVIEW"
    BY <2>1, <2>2 DEF Upserted, Event, Currencies, AuditInv, TypeOK
  <2>4. QED
    BY <2>1, <2>3, JobsKeepBooks
<1>2. ASSUME NEW t \in Transfers, ResolveEvent(a, t, 0) PROVE BookInv'
  BY <1>2, ResolveKeepsBooks
<1>3. CASE UNCHANGED <<events, ledger, flows, review, cut, crossed>>
  BY <1>3, JobsKeepBooks
<1>4. QED
  BY <1>1, <1>2, <1>3
     DEF ScanNext, BeginScan, UpsertTransactions, ListUnresolved, ClassifyUnresolved, EndJob

LEMMA ImportKeepsBooks ==
    ASSUME AuditInv, BookInv, NEW a \in Importers, ImportNext(a)
    PROVE  BookInv'
<1>1. a \in Automata /\ ledger \in [Transfers \cup Entries -> Entry \cup {NoEntry}]
  BY DEF Automata, AuditInv, TypeOK
<1>2. ASSUME NEW replace \in BOOLEAN, BeginImport(a, replace) PROVE BookInv'
  <2>1. \A t \in Transfers : ledger'[t] = ledger[t]
    BY <1>1, <1>2, ActorsAssumption DEF BeginImport, Cleared
  <2>2. QED
    BY <1>2, <2>1, JobsKeepBooks DEF BeginImport
<1>3. ASSUME NEW e \in Entries, ImportEntry(a, e) PROVE BookInv'
  <2>1. \A t \in Transfers : ledger'[t] = ledger[t]
    BY <1>1, <1>3, ActorsAssumption DEF ImportEntry
  <2>2. QED
    BY <1>3, <2>1, JobsKeepBooks DEF ImportEntry
<1>4. ASSUME NEW t \in Transfers, NEW amount \in Amounts \cup {0}, ResolveEvent(a, t, amount)
      PROVE  BookInv'
  <2>1. amount \in Nat
    BY AmountsAssumption
  <2>2. QED
    BY <1>1, <1>4, <2>1, ResolveKeepsBooks
<1>5. CASE RejectEntry(a) \/ ListReviewed(a) \/ EndJob(a)
  BY <1>5, JobsKeepBooks DEF RejectEntry, ListReviewed, EndJob
<1>6. QED
  BY <1>2, <1>3, <1>4, <1>5 DEF ImportNext

(* One handler moves, with one transfer: of other transfers nothing        *)
(* changes, and no other handler is with this one unless they crossed.     *)
LEMMA ReviewStepKeepsBooks ==
    ASSUME AuditInv, BookInv, NEW h \in Handlers, NEW x \in Transfers, NEW new \in Review,
           \A t \in Transfers \ {x} :
              /\ events'[t] = events[t] /\ ledger'[t] = ledger[t] /\ flows'[t] = flows[t]
              /\ (t \in cut <=> t \in cut') /\ (t \in crossed <=> t \in crossed'),
           crossed \subseteq crossed', review' = [review EXCEPT ![h] = new],
           Busy(h) => review[h].transfer = x, new.pc # "idle" => new.transfer = x,
           x \notin crossed' =>
              \A g \in Handlers \ {h} : Busy(g) => review[g].transfer # x,
           FlowsOnce', BookingOK(h)',
           x \in Stored' \ (InReview' \cup cut' \cup crossed') => Booked(x)'
    PROVE  BookInv'
<1>1. /\ review \in [Handlers -> Review] /\ review'[h] = new
      /\ \A g \in Handlers \ {h} : review'[g] = review[g] /\ (Busy(g)' <=> Busy(g))
  BY DEF AuditInv, TypeOK, Review, Busy
<1>2. \A t \in Transfers \ {x} : t \in InReview => t \in InReview'
  BY <1>1 DEF InReview, Busy
<1>3. ASSUME NEW t \in Stored' \ (InReview' \cup cut' \cup crossed') PROVE Booked(t)'
  <2>1. t \in Transfers
    BY DEF Stored
  <2>2. CASE t # x
    <3>1. t \in Stored \ (InReview \cup cut \cup crossed)
      BY <1>2, <1>3, <2>1, <2>2 DEF Stored
    <3>2. Booked(t)
      BY <3>1, BookedIs DEF BookInv
    <3>3. QED
      BY <2>1, <2>2, <3>2 DEF Booked
  <2>3. QED
    BY <1>3, <2>2
<1>4. ReviewIsBooked'
  BY <1>3 DEF ReviewIsBooked, Booked
<1>5. Apart'
  <2>1. SUFFICES ASSUME NEW g \in Handlers, NEW k \in Handlers, g # k, Busy(g)', Busy(k)',
                        review'[g].transfer = review'[k].transfer
                 PROVE  review'[k].transfer \in crossed'
    BY DEF Apart
  <2>2. CASE g # h /\ k # h
    BY <1>1, <2>1, <2>2 DEF BookInv, Apart
  <2>3. CASE g = h
    BY <1>1, <2>1, <2>3 DEF Busy
  <2>4. CASE k = h
    BY <1>1, <2>1, <2>4 DEF Busy
  <2>5. QED
    BY <2>2, <2>3, <2>4
<1>6. ASSUME NEW g \in Handlers PROVE BookingOK(g)'
  <2>1. CASE g = h
    BY <2>1
  <2>2. CASE g # h
    <3>1. BookingOK(g) /\ review'[g] = review[g] /\ review[g].transfer \in Transfers
      BY <1>1, <2>2 DEF BookInv, Review
    <3>2. SUFFICES ASSUME Busy(g)', review'[g].transfer \notin crossed' PROVE Progress(g)'
      BY DEF BookingOK
    <3>3. Busy(g) /\ review[g].transfer # x
      BY <1>1, <2>2, <3>1, <3>2
    <3>4. Progress(g)
      BY <3>1, <3>2, <3>3 DEF BookingOK
    <3>5. QED
      BY <3>1, <3>3, <3>4 DEF Progress, Stored
  <2>3. QED
    BY <2>1, <2>2
<1>7. QED
  BY <1>4, <1>5, <1>6 DEF BookInv

(* A handler at work is alone with its transfer unless reviews crossed.    *)
LEMMA AloneWith ==
    ASSUME AuditInv, BookInv, NEW h \in Handlers, Busy(h), NEW x, x = review[h].transfer,
           crossed' = crossed
    PROVE  x \notin crossed' => \A g \in Handlers \ {h} : Busy(g) => review[g].transfer # x
BY DEF BookInv, Apart

LEMMA BeginReviewKeepsBooks ==
    ASSUME AuditInv, BookInv, NEW h \in Handlers, NEW t \in Transfers,
           NEW status \in Reviews, NEW amount \in Nat, NEW currency \in Currencies,
           BeginReview(h, t, status, amount, currency)
    PROVE  BookInv'
<1> DEFINE e == [status |-> status, fiat |-> amount, by |-> "REVIEW",
                 currency |-> IF status \in Cash THEN currency ELSE "GBP"]
           begun == [pc |-> "ledger", transfer |-> t, status |-> status, amount |-> amount]
<1>1. /\ events' = [events EXCEPT ![t] = e] /\ ~Busy(h) /\ t \in Stored
      /\ ledger' = ledger /\ flows' = flows /\ cut' = cut
      /\ crossed' = IF t \in InReview THEN crossed \cup {t} ELSE crossed
      /\ review' = IF IsBooked(status, currency) THEN [review EXCEPT ![h] = begun] ELSE review
  BY DEF BeginReview, Busy
<1>2. /\ e.status = status /\ e.by = "REVIEW" /\ e.fiat = amount
      /\ (status \in Cash => e.currency = currency) /\ e \in Event
  BY DEF Event, Statuses, Currencies
<1> HIDE DEF e
<1>3. /\ events'[t] = e /\ \A u \in Transfers \ {t} : events'[u] = events[u]
      /\ Stored' = Stored
  <2>1. events'[t] = e /\ \A u \in Transfers \ {t} : events'[u] = events[u]
    BY <1>1 DEF AuditInv, TypeOK
  <2>2. Stored' = Stored \cup {t}
    BY <1>1, <1>2, EventIsStored
  <2>3. QED
    BY <1>1, <2>1, <2>2
<1>4. FlowsOnce' /\ crossed \subseteq crossed'
  BY <1>1 DEF BookInv, FlowsOnce
<1>5. review \in [Handlers -> Review] /\ review[h] \in Review /\ begun \in Review
  BY DEF AuditInv, TypeOK, Review
<1>6. t \notin crossed' => \A g \in Handlers \ {h} : Busy(g) => review[g].transfer # t
  <2>1. t \notin crossed' => t \notin InReview
    BY <1>1
  <2>2. QED
    BY <2>1 DEF InReview, Busy
<1>7. \A u \in Transfers \ {t} : u \in crossed <=> u \in crossed'
  BY <1>1
<1>8. CASE IsBooked(status, currency)
  <2>1. review' = [review EXCEPT ![h] = begun] /\ review'[h] = begun
    BY <1>1, <1>5, <1>8
  <2>2. Progress(h)'
    BY <1>1, <1>2, <1>3, <2>1 DEF Progress
  <2>3. BookingOK(h)' /\ t \in InReview'
    BY <2>1, <2>2 DEF BookingOK, InReview
  <2>4. /\ \A u \in Transfers \ {t} :
              /\ events'[u] = events[u] /\ ledger'[u] = ledger[u] /\ flows'[u] = flows[u]
              /\ (u \in cut <=> u \in cut') /\ (u \in crossed <=> u \in crossed')
        /\ begun.transfer = t
    BY <1>1, <1>3, <1>7
  <2> HIDE DEF begun
  <2>5. QED
    BY <1>1, <1>4, <1>5, <1>6, <2>1, <2>3, <2>4, ReviewStepKeepsBooks
<1>9. CASE ~IsBooked(status, currency)
  <2>1. review' = review /\ review' = [review EXCEPT ![h] = review[h]]
    BY <1>1, <1>5, <1>9
  <2>2. BookingOK(h)'
    BY <1>1, <2>1 DEF BookingOK, Busy
  <2>3. Booked(t)'
    BY <1>2, <1>3, <1>9 DEF Booked, IsBooked
  <2>4. \A u \in Transfers \ {t} :
              /\ events'[u] = events[u] /\ ledger'[u] = ledger[u] /\ flows'[u] = flows[u]
              /\ (u \in cut <=> u \in cut') /\ (u \in crossed <=> u \in crossed')
    BY <1>1, <1>3, <1>7
  <2>5. review[h].pc = "idle"
    BY <1>1 DEF Busy
  <2>6. QED
    BY <1>1, <1>4, <1>5, <1>6, <2>1, <2>2, <2>3, <2>4, <2>5, ReviewStepKeepsBooks
<1>10. QED
  BY <1>8, <1>9

LEMMA WriteLedgerKeepsBooks ==
    ASSUME AuditInv, BookInv, NEW h \in Handlers, WriteLedger(h)
    PROVE  BookInv'
<1>0. PICK x \in Transfers : x = review[h].transfer
  BY DEF AuditInv, TypeOK
<1> DEFINE entry == [type |-> LedgerType(review[h].status), amount |-> review[h].amount]
           new == [review[h] EXCEPT !.pc = "check"]
<1>1. /\ Busy(h) /\ ledger' = [ledger EXCEPT ![x] = entry] /\ review' = [review EXCEPT ![h] = new]
      /\ events' = events /\ flows' = flows /\ cut' = cut /\ crossed' = crossed
      /\ review[h].pc = "ledger"
  BY <1>0 DEF WriteLedger, Busy
<1>2. /\ review \in [Handlers -> Review] /\ review[h] \in Review
      /\ ledger \in [Transfers \cup Entries -> Entry \cup {NoEntry}]
  BY DEF AuditInv, TypeOK, Review
<1>3. /\ new \in Review /\ new.pc = "check" /\ new.transfer = x
      /\ new.status = review[h].status /\ new.amount = review[h].amount
  BY <1>0, <1>2 DEF Review
<1> HIDE DEF entry, new
<1>4. ledger'[x] = entry /\ (\A t \in Transfers \ {x} : ledger'[t] = ledger[t]) /\ review'[h] = new
  BY <1>1, <1>2
<1>5. Stored' = Stored
  BY <1>1 DEF Stored
<1>6. BookingOK(h)'
  <2>1. SUFFICES ASSUME x \notin crossed PROVE Progress(h)'
    BY <1>1, <1>3, <1>4 DEF BookingOK
  <2>2. Progress(h)
    BY <1>0, <1>1, <2>1 DEF BookInv, BookingOK
  <2>3. QED
    BY <1>0, <1>1, <1>3, <1>4, <1>5, <2>2 DEF Progress, entry
<1>7. x \in InReview' /\ FlowsOnce'
  BY <1>1, <1>3, <1>4 DEF InReview, BookInv, FlowsOnce
<1>8. x \notin crossed' => \A g \in Handlers \ {h} : Busy(g) => review[g].transfer # x
  BY <1>0, <1>1, AloneWith
<1>9. QED
  BY <1>0, <1>1, <1>3, <1>4, <1>6, <1>7, <1>8, ReviewStepKeepsBooks

(* A review that ends has written the entry, and the flow is there once.   *)
LEMMA DoneKeepsBooks ==
    ASSUME AuditInv, BookInv, NEW h \in Handlers,
           review[h].pc \in {"check", "record"}, review' = [review EXCEPT ![h] = Done],
           cut' = cut \ {review[h].transfer}, events' = events, ledger' = ledger,
           crossed' = crossed, FlowsOnce',
           \A t \in Transfers \ {review[h].transfer} : flows'[t] = flows[t],
           review[h].transfer \notin crossed =>
              flows'[review[h].transfer][FlowType(review[h].status)] = 1
    PROVE  BookInv'
<1>0. PICK x \in Transfers : x = review[h].transfer
  BY DEF AuditInv, TypeOK
<1>1. review'[h] = Done /\ Busy(h) /\ Done \in Review /\ Done.pc = "idle"
  BY DoneIsReview DEF AuditInv, TypeOK, Busy
<1>2. BookingOK(h)'
  BY <1>1 DEF BookingOK, Busy
<1>3. ASSUME x \notin crossed PROVE Booked(x)'
  <2>1. SUFFICES ASSUME events[x].by = "REVIEW", events[x].status \in Cash
                 PROVE  /\ ledger[x] = [type |-> LedgerType(events[x].status),
                                         amount |-> events[x].fiat]
                        /\ flows'[x][FlowType(events[x].status)] = 1
    BY DEF Booked
  <2>2. Progress(h)
    BY <1>0, <1>1, <1>3 DEF BookInv, BookingOK
  <2>3. events[x].status = review[h].status /\ events[x].fiat = review[h].amount
    BY <1>0, <2>1, <2>2 DEF Progress
  <2>4. QED
    BY <1>0, <1>3, <2>2, <2>3 DEF Progress
<1>4. \A t \in Transfers \ {x} :
         /\ events'[t] = events[t] /\ ledger'[t] = ledger[t] /\ flows'[t] = flows[t]
         /\ (t \in cut <=> t \in cut') /\ (t \in crossed <=> t \in crossed')
  BY <1>0
<1>5. x \notin crossed' => \A g \in Handlers \ {h} : Busy(g) => review[g].transfer # x
  BY <1>0, <1>1, AloneWith
<1>6. QED
  BY <1>0, <1>1, <1>2, <1>3, <1>4, <1>5, ReviewStepKeepsBooks

LEMMA CheckFlowKeepsBooks ==
    ASSUME AuditInv, BookInv, NEW h \in Handlers, CheckFlow(h)
    PROVE  BookInv'
<1>0. PICK x \in Transfers : x = review[h].transfer
  BY DEF AuditInv, TypeOK
<1>1. /\ review \in [Handlers -> Review] /\ review[h] \in Review
      /\ flows \in [Transfers -> [FlowTypes -> Nat]]
  BY DEF AuditInv, TypeOK, Review
<1>2. /\ review[h].pc = "check" /\ Busy(h)
      /\ events' = events /\ ledger' = ledger /\ flows' = flows /\ crossed' = crossed
  BY DEF CheckFlow, Busy
<1>3. FlowsOnce' /\ Stored' = Stored
  BY <1>2 DEF BookInv, FlowsOnce, Stored
<1>4. CASE FlowsOf(h) = 0
  <2> DEFINE new == [review[h] EXCEPT !.pc = "record"]
  <2>1. review' = [review EXCEPT ![h] = new] /\ cut' = cut
    BY <1>4 DEF CheckFlow
  <2>2. /\ new \in Review /\ new.pc = "record" /\ new.transfer = x
        /\ new.status = review[h].status /\ new.amount = review[h].amount
    BY <1>0, <1>1 DEF Review
  <2> HIDE DEF new
  <2>3. review'[h] = new
    BY <1>1, <2>1
  <2>4. BookingOK(h)'
    <3>1. SUFFICES ASSUME x \notin crossed PROVE Progress(h)'
      BY <1>2, <2>2, <2>3 DEF BookingOK
    <3>2. Progress(h)
      BY <1>0, <1>2, <3>1 DEF BookInv, BookingOK
    <3>3. QED
      BY <1>0, <1>2, <1>3, <1>4, <2>2, <2>3, <3>2 DEF Progress, FlowsOf
  <2>5. x \in InReview'
    BY <2>2, <2>3 DEF InReview
  <2>6. x \notin crossed' => \A g \in Handlers \ {h} : Busy(g) => review[g].transfer # x
    BY <1>0, <1>2, AloneWith
  <2>7. QED
    BY <1>0, <1>2, <1>3, <2>1, <2>2, <2>4, <2>5, <2>6, ReviewStepKeepsBooks
<1>5. CASE FlowsOf(h) # 0
  <2>1. review' = [review EXCEPT ![h] = Done] /\ cut' = cut \ {x}
    BY <1>0, <1>5 DEF CheckFlow
  <2>2. ASSUME x \notin crossed PROVE flows[x][FlowType(review[h].status)] = 1
    <3>1. FlowType(review[h].status) \in FlowTypes
      BY FlowTypeIs
    <3>2. /\ flows[x][FlowType(review[h].status)] \in Nat
          /\ flows[x][FlowType(review[h].status)] <= 1
      BY <1>1, <2>2, <3>1 DEF BookInv, FlowsOnce
    <3>3. QED
      BY <1>0, <1>5, <3>2 DEF FlowsOf
  <2>3. QED
    BY <1>0, <1>2, <1>3, <2>1, <2>2, DoneKeepsBooks
<1>6. QED
  BY <1>4, <1>5

LEMMA RecordFlowKeepsBooks ==
    ASSUME AuditInv, BookInv, NEW h \in Handlers, RecordFlow(h)
    PROVE  BookInv'
<1>0. PICK x \in Transfers : x = review[h].transfer
  BY DEF AuditInv, TypeOK
<1> DEFINE f == FlowType(review[h].status)
<1>1. f \in FlowTypes /\ flows \in [Transfers -> [FlowTypes -> Nat]]
  BY FlowTypeIs DEF AuditInv, TypeOK
<1>2. /\ review[h].pc = "record" /\ Busy(h) /\ review' = [review EXCEPT ![h] = Done]
      /\ cut' = cut \ {x} /\ events' = events /\ ledger' = ledger /\ crossed' = crossed
  BY <1>0 DEF RecordFlow, Busy
<1>3. x \notin crossed => flows[x][f] = 0
  BY <1>0, <1>2 DEF BookInv, BookingOK, Progress
<1>4. /\ flows' = [flows EXCEPT ![x][f] = @ + 1]
      /\ (x \notin crossed => flows'[x][f] = 1) /\ \A t \in Transfers \ {x} : flows'[t] = flows[t]
  BY <1>0, <1>1, <1>3 DEF RecordFlow
<1>5. FlowsOnce'
  <2>1. ASSUME NEW t \in Transfers \ crossed, NEW g \in FlowTypes PROVE flows'[t][g] <= 1
    <3>1. flows[t][g] <= 1
      BY DEF BookInv, FlowsOnce
    <3>2. QED
      BY <1>0, <1>1, <1>3, <3>1, RecordFlowIs
  <2>2. QED
    BY <1>2, <2>1 DEF FlowsOnce
<1>6. QED
  BY <1>0, <1>2, <1>4, <1>5, DoneKeepsBooks

(* A crash cuts short the reviews under way, which are excused from then on. *)
LEMMA CrashKeepsBooks ==
    ASSUME AuditInv, BookInv, Crash
    PROVE  BookInv'
<1>1. /\ review' = [h \in Handlers |-> Done] /\ cut' = cut \cup InReview
      /\ UNCHANGED <<events, ledger, flows, crossed>>
  BY DEF Crash
<1>2. FlowsOnce' /\ Stored' = Stored
  BY <1>1 DEF BookInv, FlowsOnce, Stored
<1>3. \A h \in Handlers : ~Busy(h)'
  BY <1>1, DoneIsReview DEF Busy
<1>4. ReviewIsBooked'
  BY <1>1, <1>2 DEF BookInv, ReviewIsBooked
<1>5. QED
  BY <1>2, <1>3, <1>4 DEF BookInv, Apart, BookingOK

LEMMA BooksAreInductive ==
    ASSUME AuditInv, BookInv, [Next]_vars
    PROVE  BookInv'
<1>1. ASSUME NEW a \in Scanners, ScanNext(a) PROVE BookInv'
  BY <1>1, ScanKeepsBooks DEF Automata
<1>2. ASSUME NEW a \in Importers, ImportNext(a) PROVE BookInv'
  BY <1>2, ImportKeepsBooks
<1>3. ASSUME NEW h \in Handlers, ReviewNext(h) PROVE BookInv'
  <2>1. ASSUME NEW t \in Transfers, NEW status \in Reviews, NEW amount \in Amounts \cup {0},
               NEW currency \in Currencies, BeginReview(h, t, status, amount, currency)
        PROVE  BookInv'
    <3>1. amount \in Nat
      BY AmountsAssumption
    <3>2. QED
      BY <2>1, <3>1, BeginReviewKeepsBooks
  <2>2. QED
    BY <1>3, <2>1, WriteLedgerKeepsBooks, CheckFlowKeepsBooks, RecordFlowKeepsBooks DEF ReviewNext
<1>4. CASE UNCHANGED vars
  BY <1>4, JobsKeepBooks DEF vars
<1>5. QED
  BY <1>1, <1>2, <1>3, <1>4, CrashKeepsBooks DEF Next

(* For any number of threads: cash the operator confirmed in pounds is in  *)
(* the ledger with its type and amount and once among the flows, through   *)
(* scans, imports, later reviews, reviews of other transfers and crashes,  *)
(* unless a crash cut its last review short or two reviews of it crossed   *)
(* (resolve_wallet_audit_event).                                           *)
THEOREM ReviewBooked == Spec => []ReviewIsBooked
<1>1. Init => AuditInv /\ BookInv
  BY InitAudit, InitBooks
<1>2. AuditInv /\ BookInv /\ [Next]_vars => AuditInv' /\ BookInv'
  BY AuditIsInductive, BooksAreInductive
<1>3. BookInv => ReviewIsBooked
  BY DEF BookInv
<1>4. QED
  BY <1>1, <1>2, <1>3, PTL DEF Spec
================================================================================
