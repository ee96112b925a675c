------------------------------ MODULE MCPayments ------------------------------
(* What the household pays, checked on small instances: the links between  *)
(* card payments and invoices, the invoices themselves, and the            *)
(* obligations.  The three share no state in the models, so one run steps  *)
(* through one of them, chosen in the initial state, and covers them all.  *)
EXTENDS CardPayments, CardInvoices, Ledger, TLC

CONSTANTS Parts,              \* the parts a run explores
          d1, i1, i2, l1, cc, \* a debit, two invoices, a leg, a bank account
          k1,                 \* a card
          p1, p2, r1,         \* two purchases on the card, a credit
          o1, o2              \* two obligations

VARIABLE part
mcVars == <<cpVars, ciVars, lgVars, part>>

MCRank == d1 :> 2 @@ i1 :> 1 @@ i2 :> 4 @@ l1 :> 3
MCAmount == d1 :> 5 @@ i1 :> 5 @@ i2 :> 6
MCAccount == d1 :> cc
MCCardOf == i1 :> k1 @@ i2 :> k1
MCClose == {<<d1, i1>>, <<d1, i2>>}
MCValue == p1 :> 10 @@ p2 :> 4 @@ r1 :> 4
MCDue == o1 :> 1 @@ o2 :> 1
PaymentsSymmetry == Permutations(Obligations) \cup Permutations(PayRequests)

MCInit == part \in Parts /\ CpInit /\ CiInit /\ LgInit

MCNext ==
    \/ part = "links" /\ CpNext /\ UNCHANGED <<ciVars, lgVars, part>>
    \/ part = "invoices" /\ CiNext /\ UNCHANGED <<cpVars, lgVars, part>>
    \/ part = "obligations" /\ LgNext /\ UNCHANGED <<cpVars, ciVars, part>>
    \* A run's requests may be used up, but for those on links, which never stop.
    \/ part # "links" /\ UNCHANGED mcVars

MCSpec == MCInit /\ [][MCNext]_mcVars

(* The rows, links, locks, invoices and obligations are of their types, and *)
(* the foreign keys point at rows.                                          *)
PaymentsTypeOK == CpTypeOK /\ CiTypeOK /\ LgTypeOK
=============================================================================
