------------------------------- MODULE ExecutionDesk ------------------------------
(***************************************************************************)
(* The browser page with which the operator opens a position (OpenDesk) or *)
(* closes one (CloseDesk).  The two share no state that is modelled: an    *)
(* execution uses one of them.                                             *)
(***************************************************************************)
EXTENDS OpenDesk, CloseDesk

VARIABLE page
vars == <<page, deskVars, closeVars>>

TypeOK == page \in {"open", "close"} /\ DeskTypeOK /\ CloseTypeOK
Init == page \in {"open", "close"} /\ DeskInit /\ CloseInit

OnOpen(A) == page = "open" /\ A /\ UNCHANGED <<page, closeVars>>
Next ==
    \/ OnOpen(DeskNext)
    \/ page = "close" /\ CloseNext /\ UNCHANGED <<page, deskVars>>

(* The page polls for its receipts while it builds.  An operator who wants *)
(* the position sends a call that is offered again and again, with nothing *)
(* pending, or else rechecks.                                              *)
PressOffered(kind) == Waiting = {} /\ opened = 0 /\ \E s \in Slots : Send(s, kind)
Recheck == Waiting = {} /\ \E b \in Builds : BeginBuild(b)

Fairness ==
    /\ \A b \in Builds : WF_vars(OnOpen(BuildNext(b)))
    /\ \A s \in Slots : SF_vars(OnOpen(TxNext(s)))
    /\ \A kind \in Calls : SF_vars(OnOpen(PressOffered(kind)))
    /\ SF_vars(OnOpen(Recheck))

Spec == Init /\ [][Next]_vars
FairSpec == Spec /\ Fairness

--------------------------------------------------------------------------------
(* The comment on the wrap speaks of "trapping Execution Desk forever in   *)
(* AWAITING_PREREQUISITES": an operator who does what the page offers gets *)
(* the position opened, whatever else was pressed before and after a       *)
(* bounded number of failures, unless the WETH stays short by an amount    *)
(* that is too small to be wrapped.                                        *)
DeskNotTrapped == <>(page = "close" \/ opened > 0) \/ <>[]Short
================================================================================
