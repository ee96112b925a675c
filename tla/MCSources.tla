------------------------------- MODULE MCSources -------------------------------
(* Where the household's figures come from, checked on small instances:    *)
(* batches of documents, the reading of one, the initial load, what was    *)
(* put into investments, a fund's quotas, and the projection.  The parts   *)
(* share no state in the models, so one run steps through one of them,     *)
(* chosen in the initial state, and covers them all.                       *)
EXTENDS Imports, DocumentReading, InitialLoad, Investments, FundQuotes,
        Projection, TLC

CONSTANTS Parts,             \* the parts a run explores
          g1, g2,            \* two processes of the initial load
          ob, ba, d1, d2     \* an obligation, a balance, two documents

VARIABLE part
mcVars == <<imVars, drVars, ilVars, invVars, fqVars, pjVars, part>>

\* Two contents, the second of them larger.
MCSize == [f \in {"f1", "f2"} |-> IF f = "f1" THEN 1 ELSE 2]
\* Documents of a few lines.
MCAmounts == {-2, 1}
\* The first statement of the manifest declares the balance it also seeds.
MCCloses == d1 :> ba @@ d2 :> Nobody
\* One asset, two transfers.
MCAmountOf == [x \in {"x1", "x2"} |-> IF x = "x1" THEN 2 ELSE 3]
\* Two quota days, either side of a month's end.
MCMonthOf == <<1, 2>>
MCQuota == <<2, 3>>
MCDeltas == {-2, -1, 1}

\* A bill of two months, one that occurs once, and one that was given a count
\* although it does not recur.
MCBillTerms == {[due |-> 1, every |-> 1, count |-> 2], [due |-> 2, every |-> 0, count |-> 1],
                [due |-> 2, every |-> 0, count |-> 3]}
\* A month without evidence; with a confirmed balance; with transfers; with
\* more withdrawn than there was; with a balance confirmed within it, and a
\* transfer after.
NoEvidence == [seen |-> NoAmount, deposit |-> 0, used |-> 0, within |-> NoAmount, after |-> 0]
MCEvidence == {NoEvidence, [NoEvidence EXCEPT !.seen = 25], [NoEvidence EXCEPT !.deposit = 15],
               [NoEvidence EXCEPT !.used = 40],
               [NoEvidence EXCEPT !.used = 15, !.within = 10, !.after = -15]}
MCCardDue == <<0, 9, 0, 0, 0>>
MCPartsOf == [g \in {"p1"} |-> 3]

MCInit ==
    /\ part \in Parts
    /\ DrInit /\ (part # "reading" => form = "statement")
    /\ ImInit /\ IlInit /\ InvInit /\ FqInit
    /\ PjInit /\ (part # "projection" => snapshot = SnapshotOf(NoEvidence, NoSnapshot))

MCNext ==
    \/ part = "imports" /\ ImNext /\ UNCHANGED <<drVars, ilVars, invVars, fqVars, pjVars, part>>
    \/ part = "reading" /\ DrNext /\ UNCHANGED <<imVars, ilVars, invVars, fqVars, pjVars, part>>
    \/ part = "load" /\ IlNext /\ UNCHANGED <<imVars, drVars, invVars, fqVars, pjVars, part>>
    \/ part = "investments" /\ InvNext /\ UNCHANGED <<imVars, drVars, ilVars, fqVars, pjVars, part>>
    \/ part = "quotes" /\ FqNext /\ UNCHANGED <<imVars, drVars, ilVars, invVars, pjVars, part>>
    \/ part = "projection" /\ PjNext
         /\ UNCHANGED <<imVars, drVars, ilVars, invVars, fqVars, part>>

MCSpec == MCInit /\ [][MCNext]_mcVars

(* Documents, rows, loads, assets and valuations are of their types and    *)
(* within the limits the code gives them.                                  *)
SourcesTypeOK ==
    ImTypeOK /\ DrTypeOK /\ IlTypeOK /\ InvTypeOK /\ FqTypeOK /\ PjTypeOK

(* What was put into investments, and what the fund's quotas are worth,    *)
(* add up: the cost of an asset and the units of the fund follow the       *)
(* events recorded (investment_valuations, privilege_valuation.py).        *)
InvestmentsAddUp == FundingAddsUp /\ HoldingsAddUp

(* The projection adds up (ForecastAddsUp, of the projection's own runs).  *)
ProjectionAddsUp == part = "projection" => ForecastAddsUp
=============================================================================
