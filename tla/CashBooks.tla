-------------------------------- MODULE CashBooks -------------------------------
(***************************************************************************)
(* The two books of the investor's money: the review of wallet transfers   *)
(* with its cash ledger (WalletAudit) and the performance log              *)
(* (PerformanceLog).  The log takes the flows a review records as external *)
(* flows of their day; which amounts they have is its own, so a behaviour  *)
(* is one of either.                                                       *)
(***************************************************************************)
EXTENDS WalletAudit, PerformanceLog

VARIABLE book
bookVars == <<book, vars, logVars>>

BooksTypeOK == book \in {"ledger", "log"} /\ TypeOK /\ LogTypeOK
BooksInit == book \in {"ledger", "log"} /\ Init /\ LogInit
BooksNext ==
    \/ book = "ledger" /\ Next /\ UNCHANGED <<book, logVars>>
    \/ book = "log" /\ LogNext /\ UNCHANGED <<book, vars>>

BooksSpec == BooksInit /\ [][BooksNext]_bookVars
================================================================================
