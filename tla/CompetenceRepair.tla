--------------------------- MODULE CompetenceRepair ---------------------------
(***************************************************************************)
(* The month a card purchase belongs to, and the repair of the purchases   *)
(* an older version filed under the wrong one (card_competence.py,         *)
(* card_competence_repair.py and the /maintenance/card-competence          *)
(* endpoints).  An administrator previews the candidates, then applies the *)
(* repair to a chosen subset, or reverts it, naming the household revision *)
(* of the preview; duplicates are flagged and resolved and months are      *)
(* trusted and reopened in between.                                        *)
(*                                                                         *)
(* apply and rollback take the lock of the revision before they read and   *)
(* hold it to the commit, and so do trust and reopen: each is one step.    *)
(* The preview is a step of its own, and what it read may be old.          *)
(***************************************************************************)
EXTENDS Naturals, Sequences, FiniteSets

CONSTANTS
    Purchases,   \* transactions of type expense
    Admins,
    LastMonth,   \* months are 0..LastMonth
    DaysIn,      \* the length of each month
    MaxDay,      \* the largest day of a cycle, beyond every month's length
    Closable,    \* bound: the periods a run trusts
    MaxRevision  \* bound: changes of the books a run explores

ASSUME CompetenceAssumption ==
    /\ LastMonth \in Nat \ {0} /\ MaxDay \in Nat \ {0} /\ MaxRevision \in Nat
    /\ Closable \subseteq 0 .. LastMonth + 2
    /\ DaysIn \in [0 .. LastMonth -> 1 .. MaxDay]

Months == 0 .. LastMonth
\* A competence may fall two months after the purchase.
Periods == 0 .. LastMonth + 2
NoPreview == MaxRevision + 1

VARIABLES
    cycle,     \* the card's closing and due day, both configured
    purchase,  \* [Purchases -> the row's columns]
    repairs,   \* [Purchases -> the repair events of the audit trail]
    trusted,   \* the periods whose monthly close is trusted
    shown,     \* [Periods -> the purchases of the current snapshot]
    revision,  \* HouseholdFinancialRevision.revision
    preview    \* [Admins -> the revision an administrator's page shows]

crVars == <<cycle, purchase, repairs, trusted, shown, revision, preview>>

-----------------------------------------------------------------------------
(* card_invoice_competence: after the closing day a purchase is on the next *)
(* invoice, and the month of an invoice is the one it is due in.            *)
\* A mutant: the closing day itself is already on the next invoice.
ClosesSameDay(month, day) == IF day >= cycle.closing THEN month + 1 ELSE month
ClosingMonth(month, day) == IF day > cycle.closing THEN month + 1 ELSE month
DueShift == IF cycle.due < cycle.closing THEN 1 ELSE 0
Competence(month, day) == ClosingMonth(month, day) + DueShift

\* card_invoice_window, from the month of an invoice back to its days.
Clipped(month) == IF cycle.closing < DaysIn[month] THEN cycle.closing ELSE DaysIn[month]
Falls(month, day, closing) ==
    /\ day <= DaysIn[month]
    /\ \/ month = closing /\ day <= Clipped(month)
       \/ month + 1 = closing /\ day > Clipped(month)
Window(period) ==
    {day \in Months \X (1 .. MaxDay) : Falls(day[1], day[2], period - DueShift)}

Expected(p) == Competence(purchase[p].month, purchase[p].day)

-----------------------------------------------------------------------------
InPeriod(rows, period) == {p \in Purchases : rows[p].competence = period}

\* Rows an older version wrote carry the month they were booked in; the current
\* code resolves the competence from the cycle.
CrInit ==
    /\ cycle \in [closing : 1 .. MaxDay, due : {1, MaxDay}]
    /\ purchase \in [Purchases -> {r \in [month : {0}, day : {1, DaysIn[0]},
                         inScope : BOOLEAN, suspect : {FALSE}, competence : Periods] :
                         r.competence \in {r.month, Competence(r.month, r.day)}}]
    /\ repairs = [p \in Purchases |-> <<>>]
    /\ trusted = {}
    /\ shown = [m \in Periods |-> InPeriod(purchase, m)]
    /\ revision = 0
    /\ preview = [a \in Admins |-> NoPreview]

\* _candidate_rows and find_card_competence_candidates: what a preview lists.
Misfiled == {p \in Purchases : purchase[p].inScope /\ purchase[p].competence # Expected(p)}

(* _blocked_reasons of a repair: a duplicate that is open or settled, or a  *)
(* trusted close over the period it leaves or the one it enters.            *)
TrustedClose(periods) == periods \cap trusted # {}
Blocked(p) == purchase[p].suspect \/ TrustedClose({purchase[p].competence, Expected(p)})

Preview(a) ==
    /\ preview' = [preview EXCEPT ![a] = revision]
    /\ UNCHANGED <<cycle, purchase, repairs, trusted, shown, revision>>

(* Every period a batch takes a purchase from or gives it to has its       *)
(* snapshot built again before the commit.                                  *)
\* A mutant: only the months that gain a purchase.
Entered(chosen, to) == {to[p] : p \in chosen}
Touched(chosen, to) == {purchase[p].competence : p \in chosen} \cup {to[p] : p \in chosen}

Refile(chosen, to) ==
    /\ purchase' = [p \in Purchases |->
            IF p \in chosen THEN [purchase[p] EXCEPT !.competence = to[p]] ELSE purchase[p]]
    /\ shown' = [m \in Periods |->
            IF m \in Touched(chosen, to) THEN InPeriod(purchase', m) ELSE shown[m]]
    /\ revision < MaxRevision
    /\ revision' = revision + 1

\* apply_card_competence_repair: all the named purchases or none, whatever the
\* preview listed.
Apply(a, chosen) ==
    /\ chosen # {}
    /\ preview[a] = revision
    /\ chosen \subseteq Misfiled
    /\ \A p \in chosen : ~Blocked(p)
    /\ Refile(chosen, [p \in chosen |-> Expected(p)])
    /\ repairs' = [p \in Purchases |-> IF p \in chosen
            THEN Append(repairs[p], [before |-> purchase[p].competence, after |-> Expected(p)])
            ELSE repairs[p]]
    /\ UNCHANGED <<cycle, trusted, preview>>

LastRepair(p) == repairs[p][Len(repairs[p])]

\* The last repair of the audit trail still describes the row.
Revertible(p) == repairs[p] # <<>> /\ purchase[p].competence = LastRepair(p).after

\* A mutant: only the close of the month the purchase is in.
ShutWhereItIs(p) == TrustedClose({LastRepair(p).after})
Shut(p) == TrustedClose({LastRepair(p).before, LastRepair(p).after})

\* rollback_card_competence_repair: back to what the audit trail says it was.
Rollback(a, chosen) ==
    /\ chosen # {}
    /\ preview[a] = revision
    /\ \A p \in chosen : Revertible(p) /\ ~Shut(p)
    /\ Refile(chosen, [p \in chosen |-> LastRepair(p).before])
    /\ UNCHANGED <<cycle, repairs, trusted, preview>>

-----------------------------------------------------------------------------
(* The rest of the system, as far as the repair sees it.                    *)
Bumped == revision < MaxRevision /\ revision' = revision + 1

\* A purchase is flagged as a possible duplicate, or the doubt is settled.
Doubt(p) ==
    /\ Bumped
    /\ purchase' = [purchase EXCEPT ![p].suspect = ~@]
    /\ UNCHANGED <<cycle, repairs, trusted, shown, preview>>

\* trust and reopen of a month; the run before trusting builds its snapshot.
Trust(m) ==
    /\ m \notin trusted
    /\ trusted' = trusted \cup {m}
    /\ shown' = [shown EXCEPT ![m] = InPeriod(purchase, m)]
    /\ UNCHANGED <<cycle, purchase, repairs, revision, preview>>

Reopen(m) ==
    /\ m \in trusted
    /\ trusted' = trusted \ {m}
    /\ UNCHANGED <<cycle, purchase, repairs, shown, revision, preview>>

CrNext ==
    \/ \E a \in Admins : Preview(a)
    \/ \E a \in Admins, chosen \in SUBSET Purchases :
           Apply(a, chosen) \/ Rollback(a, chosen)
    \/ \E p \in Purchases : Doubt(p)
    \/ \E m \in Closable : Trust(m) \/ Reopen(m)

CrSpec == CrInit /\ [][CrNext]_crVars

-----------------------------------------------------------------------------
(* Properties.                                                             *)

CrTypeOK ==
    /\ cycle \in [closing : 1 .. MaxDay, due : 1 .. MaxDay]
    /\ purchase \in [Purchases -> [month : Months, day : 1 .. MaxDay, inScope : BOOLEAN,
                                   suspect : BOOLEAN, competence : Periods]]
    /\ \A p \in Purchases : repairs[p] \in Seq([before : Periods, after : Periods])
    /\ trusted \subseteq Periods
    /\ shown \in [Periods -> SUBSET Purchases]
    /\ revision \in 0 .. MaxRevision
    /\ preview \in [Admins -> 0 .. NoPreview]

(* The two directions of the cycle agree whatever its days and however      *)
(* short the month: a purchase lies in the window of the invoice its date   *)
(* resolves to, and in no other (card_invoice_window against                *)
(* card_invoice_competence).                                                *)
WindowHoldsThePurchase ==
    \A m \in Months, d \in 1 .. MaxDay, period \in Periods :
        d <= DaysIn[m] => (<<m, d>> \in Window(period) <=> period = Competence(m, d))

(* While a month stays trusted no repair and no rollback takes a purchase   *)
(* out of it or puts one into it, although the preview may be older than    *)
(* the close (_trusted_close_reasons, on both sides of the move).           *)
TrustedMonthKeepsItsPurchases ==
    [][\A m \in trusted : m \in trusted' => InPeriod(purchase', m) = InPeriod(purchase, m)]_crVars

(* No purchase is counted in the snapshots of two months, or of none,       *)
(* through any sequence of repairs and rollbacks: both ends of every move   *)
(* are built again (apply_card_competence_repair, "recompute").             *)
ShownInOneMonth == \A p \in Purchases : Cardinality({m \in Periods : p \in shown[m]}) = 1

(* Both together: a month's invoice holds the purchases of its days.        *)
MonthsHoldTheirPurchases == WindowHoldsThePurchase /\ ShownInOneMonth
=============================================================================
