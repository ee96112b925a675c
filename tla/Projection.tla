----------------------------- MODULE Projection -----------------------------
(***************************************************************************)
(* The projection of the household's liquidity (api.py, _forecast_* and    *)
(* _build_projection_gate_checks; projection_engine.py), the validator     *)
(* that recalculates it, and the month's snapshot it starts from           *)
(* (financial_engine.py, financial_snapshots.py).                          *)
(*                                                                         *)
(* The state is what the projection reads: obligations, the instalments    *)
(* seen so far, salary credits, and the snapshot of the current month.     *)
(* Amounts are cents and months are counted.  The code feeds no commission *)
(* to it, so its three scenarios are one.  What closed card invoices owe   *)
(* is in CardInvoices and a constant here; extra payroll is left out.      *)
(***************************************************************************)
EXTENDS Integers, Sequences, FiniteSets, FiniteSetsExt

CONSTANTS LastMonth,    \* bound: the projection ends with it
          LastToday,    \* bound: the month in which the run stops
          Bills,        \* obligations
          BillTerms,    \* first month, months between, and number of each
          BillValue,
          Goods,        \* purchases in instalments, first billed in month 1
          PartsOf,        \* the number of instalments of each
          PartValues,   \* what a statement may print as the instalment
          Salary,       \* monthly_salary_net
          Pays,         \* amounts of credits
          Evidence,     \* what a month brings: balances and transfers
          ProfileBalance,     \* profile.investment_balance
          Cap, CardDue, \* cash cap; what closed invoices owe, by month
          RatePercent,  \* the monthly net rate of the investment
          MaxEdits,     \* bound: facts entered
          NoAmount

ASSUME ProjectionBounds ==
    LastMonth \in Nat /\ LastToday \in 1 .. LastMonth - 1 /\ MaxEdits \in Nat
ASSUME ProjectionRows ==
    /\ IsFiniteSet(Bills) /\ PartsOf \in [Goods -> Nat]
    /\ BillTerms # {} /\ BillTerms \subseteq [due : Nat, every : Nat, count : Nat \ {0}]
    /\ Evidence \subseteq [seen : Nat \cup {NoAmount}, deposit : Nat, used : Nat,
                           within : Nat \cup {NoAmount}, after : Int]
ASSUME ProjectionAmounts ==
    /\ BillValue \in Nat /\ PartValues \subseteq Nat /\ Salary \in Nat /\ Pays \subseteq Nat
    /\ ProfileBalance \in Nat /\ Cap \in Nat /\ RatePercent \in 0 .. 100 /\ NoAmount \notin Int
    /\ CardDue \in [1 .. LastMonth -> Nat]

VARIABLES month,    \* the current month: the projection starts after it
          bills,    \* Obligation rows
          parcels,  \* rows of instalments that are not excluded
          credits,  \* income rows, in the order recorded
          snapshot, \* the current month's snapshot
          edits     \* bound: facts entered so far

pjVars == <<month, bills, parcels, credits, snapshot, edits>>

Months == 1 .. LastMonth
NoCompetence == 0
NoBill == [status |-> "new", terms |-> CHOOSE t \in BillTerms : TRUE]
Parcels == [of : Goods, current : Nat, booked : Months,
            competence : Months \cup {NoCompetence}, amount : PartValues]
CreditRows == [month : Months, amount : Pays, marked : BOOLEAN, counts : BOOLEAN]

PjTypeOK ==
    /\ month \in 1 .. LastToday
    /\ bills \in [Bills -> [status : {"new", "pending", "paid", "cancelled"}, terms : BillTerms]]
    /\ parcels \subseteq Parcels /\ IsFiniteSet(parcels)
    /\ credits \in Seq(CreditRows)
    /\ snapshot \in [opening : Nat, debt : Nat, deposit : Nat, used : Nat, balance : Nat,
                     deficit : Nat, confirmed : Nat \cup {NoAmount}, atStart : BOOLEAN,
                     trusted : BOOLEAN]
    /\ edits \in 0 .. MaxEdits

-----------------------------------------------------------------------------
(* Obligations.  A paid one is no longer forecast, and what is overdue     *)
(* falls in the first month shown.                                         *)
Larger(x, y) == IF x > y THEN x ELSE y
Smaller(x, y) == IF x < y THEN x ELSE y
Start == month + 1

Occurrences(t) == IF t.every = 0 THEN {0} ELSE 0 .. t.count - 1
\* A mutant: an overdue occurrence keeps its month.
DueInItsMonth(t, i) == t.due + i * t.every
DueMonth(t, i) == Larger(t.due + i * t.every, Start)

SumOf(f, S) == MapThenSumSet(LAMBDA x : f[x], S)
Owing == {b \in Bills : bills[b].status = "pending"}
FallingIn(t, m) == {i \in Occurrences(t) : DueMonth(t, i) = m}
ObligationsIn(m) ==
    SumOf([b \in Bills |-> BillValue * Cardinality(FallingIn(bills[b].terms, m))], Owing)

(* Instalments.  Observations of one purchase are one series, told apart   *)
(* by the month its first instalment would fall in; the last one observed  *)
(* says what remains.                                                      *)
Anchor(r) == IF r.competence = NoCompetence THEN r.booked ELSE r.competence
Origin(r) == Anchor(r) - (Larger(1, r.current) - 1)
Series(r) == <<r.of, r.amount, Origin(r)>>
SeenAfter(r, s) == r.booked > s.booked \/ (r.booked = s.booked /\ r.current > s.current)
LastSeen(k) ==
    CHOOSE r \in parcels : /\ Series(r) = k
                           /\ ~\E s \in parcels : Series(s) = k /\ SeenAfter(s, r)
Remaining(r) == Anchor(r) + 1 .. Anchor(r) + Larger(0, PartsOf[r.of] - r.current)
Forecasting(m) == {r \in {LastSeen(k) : k \in {Series(r) : r \in parcels}} : m \in Remaining(r)}
InstallmentsIn(m) == SumOf([r \in Forecasting(m) |-> r.amount], Forecasting(m))

(* The salary of a month: the one credit recognised as it, or the amount   *)
(* configured; never one of several.                                       *)
LikeSalary(m) ==
    {n \in DOMAIN credits : /\ credits[n].month = m /\ credits[n].counts
                            /\ credits[n].amount - Salary \in -1 .. 1
                            /\ credits[n].marked}
SalaryIn(m) ==
    IF Salary > 0 /\ Cardinality(LikeSalary(m)) = 1
    THEN credits[CHOOSE n \in LikeSalary(m) : TRUE].amount
    ELSE Salary

-----------------------------------------------------------------------------
(* The month of liquidity that follows one of balance and deficit: a       *)
(* deficit is paid before anything is kept, and a loss takes the balance   *)
(* before it makes a deficit.                                              *)
Position(balance, deficit, used) == [balance |-> balance, deficit |-> deficit, used |-> used]
Settle(p, result, earned) ==
    LET all == result + earned IN
    IF p.deficit > 0
    THEN IF all >= 0
         THEN LET repaid == Smaller(p.deficit, all) IN
              Position(IF repaid = p.deficit THEN all - repaid ELSE 0, p.deficit - repaid, 0)
         ELSE Position(0, p.deficit - all, 0)
    ELSE IF all >= 0 THEN Position(p.balance + all, 0, 0)
         ELSE LET used == Smaller(p.balance, -all) IN
              Position(p.balance - used, -all - used, used)
(* Half a cent is rounded up.                                              *)
Earned(p) == IF p.deficit = 0 THEN (p.balance * RatePercent + 50) \div 100 ELSE 0
Result(m) == SalaryIn(m) - (ObligationsIn(m) + InstallmentsIn(m) + CardDue[m] + Cap)
Seed == Position(snapshot.balance, snapshot.deficit, 0)

(* build_projection: the position at the end of each month.                *)
Projected[m \in month .. LastMonth] ==
    IF m = month THEN Seed
    ELSE Settle(Projected[m - 1], Result(m), Earned(Projected[m - 1]))

(* independently_calculate: the validator's branches come down to the sign *)
(* of what is left once a deficit is paid.                                 *)
Validated[m \in month .. LastMonth] ==
    IF m = month THEN Seed
    ELSE LET p == Validated[m - 1]
             opening == IF p.deficit = 0 THEN p.balance ELSE 0
             available == Result(m) + Earned(p)
             net == opening - p.deficit + available IN
         Position(Larger(net, 0), Larger(-net, 0),
                  IF p.deficit = 0 THEN Smaller(opening, Larger(-available, 0)) ELSE 0)

(* What INV-005 and INV-006 recalculate of the first month shown: a loss   *)
(* consumes the balance first, and a deficit is folded into the result.    *)
Consumed(opening, result) ==
    LET used == Smaller(opening, Larger(-result, 0)) IN
    Position(IF result >= 0 THEN opening + result ELSE opening - used,
             Larger(-result, 0) - used, used)
FirstMonth == Consumed(IF Seed.deficit > 0 THEN 0 ELSE Seed.balance,
                       Result(Start) + Earned(Seed) - Seed.deficit)

-----------------------------------------------------------------------------
(* A realised month moves only by transfers that are evidenced: its result *)
(* moves nothing (reconcile_actual_liquidity).                             *)
Realised(opening, debt, deposit, used) ==
    LET repaid == Smaller(debt, deposit)
        raw == opening + deposit - repaid - used IN
    IF debt > repaid THEN Position(0, debt - repaid + used, used)
    ELSE Position(Larger(raw, 0), Larger(-raw, 0), used)

(* The month's opening is the last balance confirmed after the first day   *)
(* of the month before, and by its own; else what that month closed with,  *)
(* if trusted; else what the profile declares.  A balance confirmed within *)
(* the month, and what moved after it, replace the closing.                *)
Opening(e, before) ==
    IF e.seen # NoAmount THEN e.seen
    ELSE IF before.confirmed # NoAmount THEN before.confirmed
    ELSE IF before.trusted THEN before.balance ELSE ProfileBalance
Carried(before) == IF before.trusted THEN before.deficit ELSE 0
Anchored(e) == Position(Larger(e.within + e.after, 0), Larger(-(e.within + e.after), 0), 0)
SnapshotOf(e, before) ==
    LET opening == Opening(e, before)
        debt == Carried(before)
        closed == IF e.within # NoAmount THEN Anchored(e)
                  ELSE Realised(opening, debt, e.deposit, e.used) IN
    [opening |-> opening, debt |-> debt, deposit |-> e.deposit, used |-> e.used,
     balance |-> closed.balance, deficit |-> closed.deficit, confirmed |-> e.within,
     atStart |-> e.seen # NoAmount,
     trusted |-> e.seen # NoAmount \/ before.trusted \/ e.within # NoAmount]

NoSnapshot == [trusted |-> FALSE, balance |-> 0, deficit |-> 0, confirmed |-> NoAmount]

-----------------------------------------------------------------------------
PjInit ==
    /\ month = 1
    /\ bills = [b \in Bills |-> NoBill]
    /\ parcels = {}
    /\ credits = <<>>
    /\ snapshot \in {SnapshotOf(e, NoSnapshot) : e \in Evidence}
    /\ edits = 0

Edit == edits < MaxEdits /\ edits' = edits + 1

CreateBill == \E b \in Bills, t \in BillTerms :
    /\ bills[b].status = "new"
    /\ bills' = [bills EXCEPT ![b] = [status |-> "pending", terms |-> t]]
    /\ Edit
    /\ UNCHANGED <<month, parcels, credits, snapshot>>

ChangeBill(b, from, to) ==
    /\ bills[b].status = from
    /\ bills' = [bills EXCEPT ![b].status = to]
    /\ Edit
    /\ UNCHANGED <<month, parcels, credits, snapshot>>
(* Only a bill that occurs once can be paid.                               *)
PayBill == \E b \in Bills :
    bills[b].terms.every = 0 /\ bills[b].terms.count = 1 /\ ChangeBill(b, "pending", "paid")
UnpayBill == \E b \in Bills : ChangeBill(b, "paid", "pending")
CancelBill == \E b \in Bills : ChangeBill(b, "pending", "cancelled")

(* An instalment is recorded: with the day of the purchase or the month of *)
(* its invoice, which is that of its number; older rows, and files that    *)
(* tell no invoice, have no competence but the month they were booked in.  *)
Observe == \E g \in Goods, amount \in PartValues : \E k \in 1 .. PartsOf[g] :
    \E booked \in {1, k}, competence \in {k, NoCompetence} :
        LET r == [of |-> g, current |-> k, booked |-> booked,
                  competence |-> competence, amount |-> amount] IN
        /\ k <= month + 1
        /\ r \notin parcels
        /\ parcels' = parcels \cup {r}
        /\ Edit
        /\ UNCHANGED <<month, bills, credits, snapshot>>

(* A row is excluded: deleted, merged or set aside.                        *)
ExcludeParcel == \E r \in parcels :
    /\ parcels' = parcels \ {r}
    /\ Edit
    /\ UNCHANGED <<month, bills, credits, snapshot>>

(* A month closed late is projected from when its successor already has    *)
(* income: the credit of the first month shown.                            *)
RecordCredit == \E amount \in Pays, marked \in BOOLEAN :
    /\ credits' = Append(credits, [month |-> Start, amount |-> amount,
                                   marked |-> marked, counts |-> TRUE])
    /\ Edit
    /\ UNCHANGED <<month, bills, parcels, snapshot>>

ExcludeCredit == \E n \in DOMAIN credits :
    /\ credits[n].counts
    /\ credits' = [credits EXCEPT ![n].counts = FALSE]
    /\ Edit
    /\ UNCHANGED <<month, bills, parcels, snapshot>>

TurnMonth == \E e \in Evidence :
    /\ month < LastToday
    /\ month' = month + 1
    /\ snapshot' = SnapshotOf(e, snapshot)
    /\ UNCHANGED <<bills, parcels, credits, edits>>

PjNext == \/ CreateBill \/ PayBill \/ UnpayBill \/ CancelBill
          \/ Observe \/ ExcludeParcel \/ RecordCredit \/ ExcludeCredit \/ TurnMonth

PjSpec == PjInit /\ [][PjNext]_pjVars

-----------------------------------------------------------------------------
Shown == Start .. LastMonth

(* Every instalment of a purchase is recorded in the month of its invoice, *)
(* with one amount, and no later one was booked before an earlier one.     *)
InOrder(g) ==
    \A r, s \in {q \in parcels : q.of = g} :
        /\ Anchor(r) = r.current
        /\ r.amount = s.amount
        /\ r.current > s.current => r.booked >= s.booked

LastPart(g) == Max({0} \cup {r.current : r \in {q \in parcels : q.of = g}})

(* Each occurrence of an unpaid obligation that falls within the horizon   *)
(* is in one month of the projection, however late it is; an obligation    *)
(* that does not recur occurs once, whatever number it was given.          *)
BillsForecastOnce ==
    SumOf([m \in Shown |-> ObligationsIn(m)], Shown)
      = BillValue * Cardinality({o \in Bills \X (0 .. LastMonth) :
            LET bill == bills[o[1]]  t == bill.terms IN
            /\ bill.status = "pending" /\ t.due + o[2] * t.every <= LastMonth
            /\ o[2] = 0 \/ (t.every > 0 /\ o[2] < t.count)})

(* What is left of a purchase after its last recorded instalment is in the *)
(* projection once, however often it was recorded.                         *)
PartsForecastOnce ==
    (\A g \in Goods : InOrder(g)) =>
        \A m \in Shown :
            InstallmentsIn(m) = SumOf(
                [g \in Goods |-> (CHOOSE r \in parcels : r.of = g).amount],
                {g \in Goods : LastPart(g) > 0 /\ m \in LastPart(g) + 1 .. PartsOf[g]})

(* A month is projected with one salary: the credit of a month that has    *)
(* one like it, and the estimate where two could be it; with none, if none *)
(* is configured.                                                          *)
SalaryForecastOnce ==
    \A m \in Shown :
        LET like == {n \in DOMAIN credits : /\ credits[n].counts /\ credits[n].month = m
                                           /\ credits[n].marked /\ credits[n].amount <= Salary + 1
                                           /\ credits[n].amount >= Salary - 1} IN
        SumOf([n \in DOMAIN credits |-> credits[n].amount], like) = SalaryIn(m)
          \/ ((Salary = 0 \/ Cardinality(like) # 1) /\ SalaryIn(m) = Salary)

(* No money appears or disappears along the projection, there is never a   *)
(* balance beside a deficit, and the three formulas agree.                 *)
MoneyConserved ==
    /\ \A m \in Shown :
         LET p == Projected[m]  before == Projected[m - 1] IN
         /\ p.balance >= 0 /\ p.deficit >= 0 /\ (p.balance = 0 \/ p.deficit = 0)
         /\ p.balance - p.deficit = before.balance - before.deficit + Result(m) + Earned(before)
         /\ p = Validated[m]
    /\ Projected[Start] = FirstMonth

(* A snapshot adds up: what it closes with is what it opened with and what *)
(* was evidenced, unless a balance was confirmed within the month, or one  *)
(* was read as nothing because an older deficit is not yet paid.           *)
SnapshotAddsUp ==
    /\ snapshot.balance = 0 \/ snapshot.deficit = 0
    /\ snapshot.confirmed = NoAmount /\ (snapshot.debt <= snapshot.deposit \/ snapshot.opening = 0) =>
           snapshot.balance - snapshot.deficit
             = snapshot.opening - snapshot.debt + snapshot.deposit - snapshot.used

(* The five together: a commitment is in the projection once, and money is *)
(* neither made nor lost, from the evidenced month to the last projected.  *)
ForecastAddsUp == /\ BillsForecastOnce /\ PartsForecastOnce /\ SalaryForecastOnce
                  /\ MoneyConserved /\ SnapshotAddsUp

-----------------------------------------------------------------------------
\* Claims of the code that do not hold.

(* "The same fact observed twice must never be counted twice"              *)
(* (_project_installments): no month is projected with two instalments of  *)
(* one purchase, each recorded once, in the month of its invoice.          *)
FactObservedTwiceCountsOnce ==
    (\A r, s \in parcels : Anchor(r) = r.current /\ (r.current = s.current => r = s)) =>
        \A m \in Shown : \A r, s \in Forecasting(m) : r.of = s.of => r = s

(* "When no evidence of movement exists this period, the closing balance   *)
(* is simply the opening balance" (reconcile_actual_liquidity).            *)
UnmovedStaysOpening ==
    snapshot.deposit = 0 /\ snapshot.used = 0 /\ snapshot.confirmed = NoAmount =>
        snapshot.balance = snapshot.opening

(* The current balance is derived from the last one confirmed and what     *)
(* moved since (rebaseline 5.2): a month with no balance confirmed on its  *)
(* first day opens with what the month before closed with, if trusted.     *)
OpeningFollowsClosing ==
    [][month' # month /\ snapshot.trusted /\ ~snapshot'.atStart =>
           snapshot'.opening = snapshot.balance]_pjVars
=============================================================================
