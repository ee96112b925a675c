---------------------------- MODULE PeriodReview ----------------------------
(***************************************************************************)
(* What the monthly close promises about one period of one household,      *)
(* whatever requests overlap: the household's facts change freely, a run   *)
(* records which facts it examined, and the period becomes trusted only    *)
(* while the examined facts are still the facts.  A trusted period leaves  *)
(* that state only by being reopened.  MonthlyClose implements it.         *)
(***************************************************************************)
CONSTANTS FirstFacts, Nothing   \* the first facts; what was examined before any run

VARIABLES facts,     \* the financial facts of the household
          examined,  \* the facts the last run looked at
          status     \* "none", "review_required" or "trusted"

reviewVars == <<facts, examined, status>>

ReviewInit ==
    /\ facts = FirstFacts
    /\ examined = Nothing
    /\ status = "none"

(* Transactions, accounts, obligations change at any time, trusted or not. *)
Change ==
    /\ facts' # facts
    /\ UNCHANGED <<examined, status>>

Examine ==
    /\ status # "trusted"
    /\ examined' = facts
    /\ status' = "review_required"
    /\ UNCHANGED facts

Trust ==
    /\ status = "review_required"
    /\ examined = facts
    /\ status' = "trusted"
    /\ UNCHANGED <<facts, examined>>

Reopen ==
    /\ status = "trusted"
    /\ status' = "review_required"
    /\ UNCHANGED <<facts, examined>>

ReviewNext == Change \/ Examine \/ Trust \/ Reopen

ReviewSpec == ReviewInit /\ [][ReviewNext]_reviewVars
=============================================================================
