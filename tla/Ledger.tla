------------------------------ MODULE Ledger ------------------------------
(***************************************************************************)
(* Manual transactions, obligations and confirmed balances (api.py,        *)
(* transfers.py).                                                          *)
(*                                                                         *)
(* An expense, or the payment of an obligation, may be funded from the     *)
(* household's one investment account: a redemption row is created, and an *)
(* observation of the new balance supersedes the latest one.  Undoing it   *)
(* deletes the redemption and restores the superseded observation.         *)
(*                                                                         *)
(* A request reads the rows it decides on, and its first flush then waits  *)
(* for the household's revision row: what it writes are the columns that   *)
(* differ from what it read.  Most requests are one step here; one slow    *)
(* request at a time reads in one step and writes in a later one.          *)
(***************************************************************************)
EXTENDS Naturals, FiniteSets

CONSTANTS Obligations, \* single-occurrence obligations
          AmountDue,   \* amount of each obligation
          Amounts,     \* amounts of expenses and transfers
          Balances,    \* balances the household confirms
          Days,        \* booking and as-of dates
          MaxTx,       \* bound: transactions ever created
          MaxObs,      \* bound: balance observations ever created
          Slow,        \* operations whose requests may overlap others
          MaxSteps,    \* bound: steps of the household's requests
          None

TxIds == 1 .. MaxTx
ObsIds == 1 .. MaxObs

ASSUME DueType == AmountDue \in [Obligations -> Amounts]
ASSUME NatBounds == Amounts \cup Balances \subseteq Nat /\ Days \subseteq Nat \ {0} /\ None \notin Nat
ASSUME RowBounds == MaxTx \in Nat /\ MaxObs \in Nat /\ MaxSteps \in Nat

VARIABLES db,       \* transactions, obligations, balance observations
          steps,    \* bound: steps so far
          request,  \* the slow request, and the rows as it read them
          odd       \* history: what happened that the code does not guard against

lgVars == <<db, steps, request, odd>>

Kinds == {"unused", "gone", "expense", "transfer"}
NoTx == [kind |-> "unused", amount |-> 0, day |-> 0, imported |-> FALSE,
         counts |-> FALSE, group |-> None, peer |-> None]
Gone == [NoTx EXCEPT !.kind = "gone"]
NoObs == [used |-> FALSE, amount |-> 0, asOf |-> 0, prev |-> None, next |-> None,
          invalid |-> FALSE, trace |-> None]
Unpaid == [status |-> "pending", paidTx |-> None, created |-> FALSE,
           privilege |-> FALSE, fundTx |-> None, fundObs |-> None]
NoRequest == [op |-> "none"]

Tables == [tx : [TxIds -> [kind : Kinds, amount : Nat, day : Nat, imported : BOOLEAN,
                           counts : BOOLEAN, group : TxIds \cup {None},
                           peer : TxIds \cup {None}]],
           ob : [Obligations -> [status : {"pending", "paid", "cancelled"},
                                 paidTx : TxIds \cup {None}, created : BOOLEAN,
                                 privilege : BOOLEAN, fundTx : TxIds \cup {None},
                                 fundObs : ObsIds \cup {None}]],
           obs : [ObsIds -> [used : BOOLEAN, amount : Nat, asOf : Nat,
                             prev : ObsIds \cup {None}, next : ObsIds \cup {None},
                             invalid : BOOLEAN, trace : TxIds \cup {None}]]]

-----------------------------------------------------------------------------
(* Reading the tables d.                                                   *)

RowIds(d) == {x \in TxIds : d.tx[x].kind \in {"expense", "transfer"}}
UnusedIds(d) == {x \in TxIds : d.tx[x].kind = "unused"}
Least(S) == CHOOSE x \in S : \A y \in S : x <= y
FirstTx(d) == Least(UnusedIds(d))
SecondTx(d) == FirstTx(d) + 1
FreshObs(d) == Least({n \in ObsIds : ~d.obs[n].used})
RoomFor(d, k) == Cardinality(UnusedIds(d)) >= k

(* The latest observation neither invalidated nor superseded.              *)
Active(d) == {n \in ObsIds : d.obs[n].used /\ ~d.obs[n].invalid /\ d.obs[n].next = None}
Latest(d) == CHOOSE n \in Active(d) : \A k \in Active(d) :
                 \/ d.obs[n].asOf > d.obs[k].asOf
                 \/ d.obs[n].asOf = d.obs[k].asOf /\ n >= k

PaidBy(d, x) == {o \in Obligations : d.ob[o].paidTx = x}
Paying(d, x) == \E o \in PaidBy(d, x) : d.ob[o].status = "paid"
Eligible(d, x, o) == /\ d.tx[x].kind = "expense" /\ d.tx[x].counts
                     /\ d.tx[x].amount = AmountDue[o]
Taken(d, x, o) == PaidBy(d, x) \ {o} # {}

(* transfer_group_id or trace_id: a row without a group is its own trace.  *)
TraceOf(d, x) == IF d.tx[x].group = None THEN x ELSE d.tx[x].group
GroupOf(d, x) == IF d.tx[x].group = None THEN {x}
                 ELSE {y \in RowIds(d) : d.tx[y].group = d.tx[x].group}
Standing(d, t) == {n \in ObsIds : d.obs[n].trace = t /\ ~d.obs[n].invalid}

-----------------------------------------------------------------------------
(* Funding.  The latest balance of the tables seen is superseded by what   *)
(* is left of it.  An expense, and a payment with a new transaction, see   *)
(* the tables as they are after the flush of that row; a payment with a    *)
(* transaction that exists flushes nothing before it reads the balance.    *)
CanSpend(seen, now, amount, day) ==
    /\ Active(seen) # {} /\ \E n \in ObsIds : ~now.obs[n].used
    /\ seen.obs[Latest(seen)].asOf <= day
    /\ seen.obs[Latest(seen)].amount >= amount

Spent(d, seen, now, amount, day, trace) ==
    LET c == Latest(seen)  n == FreshObs(now) IN
    [d EXCEPT !.obs[n] = [used |-> TRUE, amount |-> seen.obs[c].amount - amount,
                          asOf |-> day, prev |-> c, next |-> None,
                          invalid |-> FALSE, trace |-> trace],
              !.obs[c].next = n]

(* Only the newest observation can be given back.                          *)
CanRestore(d, n) == ~d.obs[n].invalid /\ d.obs[n].next = None
(* A mutant: the superseded balance is forgotten.                          *)
RestoredHalf(d, n) == [d EXCEPT !.obs[n].invalid = TRUE]
Restored(d, n) ==
    LET p == d.obs[n].prev IN
    [d EXCEPT !.obs = [k \in ObsIds |->
        IF k = n THEN [@[k] EXCEPT !.invalid = TRUE]
        ELSE IF k = p THEN [@[k] EXCEPT !.next = None] ELSE @[k]]]

Expense(amount, day, group, peer) ==
    [kind |-> "expense", amount |-> amount, day |-> day, imported |-> FALSE,
     counts |-> TRUE, group |-> group, peer |-> peer]
Transfer(amount, day, group, peer) ==
    [kind |-> "transfer", amount |-> amount, day |-> day, imported |-> FALSE,
     counts |-> FALSE, group |-> group, peer |-> peer]
Removed(d, S) == [d EXCEPT !.tx = [x \in TxIds |-> IF x \in S THEN Gone ELSE @[x]]]

-----------------------------------------------------------------------------
(* Each operation: whether the rows d it reads allow it, and the rows it   *)
(* leaves.  The ids of new rows come from the tables now.                  *)

CanCreate(rq, now) == RoomFor(now, 1)
Created(rq, d, now) ==
    [d EXCEPT !.tx[FirstTx(now)] = [Expense(rq.amount, rq.day, None, None)
                                      EXCEPT !.imported = rq.imported]]

(* A possible duplicate is not funded.                                     *)
CanFundExpense(rq, now) == RoomFor(now, 2) /\ CanSpend(now, now, rq.amount, rq.day)
FundedExpense(rq, d, now) ==
    LET x == FirstTx(now)  f == SecondTx(now) IN
    Spent([d EXCEPT !.tx[x] = Expense(rq.amount, rq.day, x, f),
                    !.tx[f] = Transfer(rq.amount, rq.day, x, x)],
          now, now, rq.amount, rq.day, x)

CanTransfer(rq, now) == RoomFor(now, 2)
Transferred(rq, d, now) ==
    LET x == FirstTx(now)  y == SecondTx(now) IN
    [d EXCEPT !.tx[x] = Transfer(rq.amount, rq.day, x, y),
              !.tx[y] = Transfer(rq.amount, rq.day, x, x)]

(* A mutant: the guard of a paid obligation looks at imported rows only.   *)
CanUpdateManual(rq, d) ==
    /\ rq.x \in RowIds(d) /\ d.tx[rq.x].kind = "expense"
    /\ rq.counts # d.tx[rq.x].counts
    /\ ~rq.counts /\ d.tx[rq.x].imported => ~Paying(d, rq.x)

(* Exclude a row from the totals or mark it a duplicate, or count it again.*)
CanUpdate(rq, d) ==
    /\ rq.x \in RowIds(d) /\ d.tx[rq.x].kind = "expense"
    /\ rq.counts # d.tx[rq.x].counts
    /\ ~rq.counts => ~Paying(d, rq.x)
Updated(rq, d) == [d EXCEPT !.tx[rq.x].counts = rq.counts]

(* Delete a manual row, with its group; a funding is given back.           *)
CanDelete(rq, d) ==
    LET back == Standing(d, TraceOf(d, rq.x)) IN
    /\ rq.x \in RowIds(d) /\ ~Paying(d, rq.x) /\ ~d.tx[rq.x].imported
    /\ \A n \in back : CanRestore(d, n)
Deleted(rq, d) ==
    LET back == Standing(d, TraceOf(d, rq.x))
        gone == Removed(d, GroupOf(d, rq.x)) IN
    IF back = {} THEN gone ELSE Restored(gone, CHOOSE n \in back : TRUE)

PayableBy(d, o) == d.ob[o].status = "pending"

(* Pay with a transaction that exists, or with a new one unless a matching *)
(* one is near.                                                            *)
CanPay(rq, d) ==
    /\ PayableBy(d, rq.o)
    /\ IF rq.x # None
       THEN rq.x \in RowIds(d) /\ Eligible(d, rq.x, rq.o) /\ ~Taken(d, rq.x, rq.o)
       ELSE \A x \in RowIds(d) : Eligible(d, x, rq.o) => Taken(d, x, rq.o)
PaidOn(rq, d) == IF rq.x = None THEN rq.day ELSE d.tx[rq.x].day
NewRows(rq) == (IF rq.x = None THEN 1 ELSE 0) + (IF rq.fund THEN 1 ELSE 0)
Seen(rq, d, now) == IF rq.x = None THEN now ELSE d
CanSettle(rq, d, now) ==
    /\ RoomFor(now, NewRows(rq))
    /\ rq.fund => CanSpend(Seen(rq, d, now), now, AmountDue[rq.o], PaidOn(rq, d))
Paid(rq, d, now) ==
    LET o == rq.o
        x == IF rq.x = None THEN FirstTx(now) ELSE rq.x
        f == IF rq.x = None THEN SecondTx(now) ELSE FirstTx(now)
        booked == IF rq.x # None THEN d
                  ELSE [d EXCEPT !.tx[x] = Expense(AmountDue[o], rq.day, None, None)]
        paid == [booked EXCEPT !.ob[o] =
                   [status |-> "paid", paidTx |-> x, created |-> (rq.x = None),
                    privilege |-> rq.fund, fundTx |-> IF rq.fund THEN f ELSE None,
                    fundObs |-> IF rq.fund THEN FreshObs(now) ELSE None]] IN
    IF ~rq.fund THEN paid
    ELSE Spent([paid EXCEPT !.tx[f] = Transfer(AmountDue[o], PaidOn(rq, d), None, None)],
               Seen(rq, d, now), now, AmountDue[o], PaidOn(rq, d), f)

CanUnpay(rq, d) ==
    LET ob == d.ob[rq.o] IN
    /\ ob.status = "paid"
    /\ ob.privilege /\ ob.fundObs # None => CanRestore(d, ob.fundObs)
Unpayed(rq, d) ==
    LET ob == d.ob[rq.o]
        back == IF ob.privilege /\ ob.fundObs # None THEN Restored(d, ob.fundObs) ELSE d
        gone == (IF ob.created THEN {ob.paidTx} ELSE {})
                  \cup (IF ob.privilege THEN {ob.fundTx} ELSE {}) IN
    [Removed(back, gone) EXCEPT !.ob[rq.o] = Unpaid]

CanCancel(rq, d) == d.ob[rq.o].status = "pending"
Cancelled(rq, d) == [d EXCEPT !.ob[rq.o].status = "cancelled"]

(* Confirm a balance, on its own or in place of an observation.            *)
CanConfirm(rq, d, now) ==
    /\ \E n \in ObsIds : ~now.obs[n].used
    /\ rq.prev # None => d.obs[rq.prev].used /\ d.obs[rq.prev].next = None
Confirmed(rq, d, now) ==
    LET n == FreshObs(now)
        added == [d EXCEPT !.obs[n] = [NoObs EXCEPT !.used = TRUE, !.amount = rq.amount,
                                           !.asOf = rq.day, !.prev = rq.prev]] IN
    IF rq.prev = None THEN added
    ELSE [added EXCEPT !.obs[rq.prev].next = n, !.obs[rq.prev].invalid = TRUE]

-----------------------------------------------------------------------------
Creations == [op : {"create"}, amount : Amounts, day : Days, imported : BOOLEAN]
Fundings == [op : {"fund"}, amount : Amounts, day : Days]
Transfers == [op : {"transfer"}, amount : Amounts, day : Days]
Updates == [op : {"update"}, x : TxIds, counts : BOOLEAN]
Deletions == [op : {"delete"}, x : TxIds]
Payments == [op : {"pay"}, o : Obligations, x : TxIds \cup {None}, day : Days,
             fund : BOOLEAN]
Reversals == [op : {"unpay"}, o : Obligations]
Cancellations == [op : {"cancel"}, o : Obligations]
Confirmations == [op : {"confirm"}, amount : Balances, day : Days,
                  prev : ObsIds \cup {None}]
Requests == Creations \cup Fundings \cup Transfers \cup Updates \cup Deletions
              \cup Payments \cup Reversals \cup Cancellations \cup Confirmations

(* What a request checks on the rows it read, and after its first flush.   *)
Passes(rq, d) ==
    CASE rq.op = "update" -> CanUpdate(rq, d)
      [] rq.op = "delete" -> CanDelete(rq, d)
      [] rq.op = "pay" -> CanPay(rq, d)
      [] rq.op = "unpay" -> CanUnpay(rq, d)
      [] rq.op = "cancel" -> CanCancel(rq, d)
      [] OTHER -> TRUE
Completes(rq, d, now) ==
    CASE rq.op = "create" -> CanCreate(rq, now)
      [] rq.op = "fund" -> CanFundExpense(rq, now)
      [] rq.op = "transfer" -> CanTransfer(rq, now)
      [] rq.op = "pay" -> CanSettle(rq, d, now)
      [] rq.op = "confirm" -> CanConfirm(rq, d, now)
      [] OTHER -> TRUE
Result(rq, d, now) ==
    CASE rq.op = "create" -> Created(rq, d, now)
      [] rq.op = "fund" -> FundedExpense(rq, d, now)
      [] rq.op = "transfer" -> Transferred(rq, d, now)
      [] rq.op = "update" -> Updated(rq, d)
      [] rq.op = "delete" -> Deleted(rq, d)
      [] rq.op = "pay" -> Paid(rq, d, now)
      [] rq.op = "unpay" -> Unpayed(rq, d)
      [] rq.op = "cancel" -> Cancelled(rq, d)
      [] rq.op = "confirm" -> Confirmed(rq, d, now)

(* An UPDATE sets the columns that differ from what was read.              *)
Written(read, new, now) ==
    [id \in DOMAIN now |-> [f \in DOMAIN now[id] |->
        IF new[id][f] # read[id][f] THEN new[id][f] ELSE now[id][f]]]
Merged(read, new, now) ==
    [tx |-> Written(read.tx, new.tx, now.tx), ob |-> Written(read.ob, new.ob, now.ob),
     obs |-> Written(read.obs, new.obs, now.obs)]

(* A deleted row is gone, and every reference to it is set to null.        *)
Settled(d) ==
    LET gone == {x \in TxIds : d.tx[x].kind = "gone"}
        Kept(x) == IF x \in gone THEN None ELSE x IN
    [tx |-> [x \in TxIds |-> IF x \in gone THEN Gone
                             ELSE [d.tx[x] EXCEPT !.peer = Kept(@)]],
     ob |-> [o \in Obligations |-> [d.ob[o] EXCEPT !.paidTx = Kept(@), !.fundTx = Kept(@)]],
     obs |-> d.obs]

(* paid_transaction_id is unique; a row updated or referred to exists.     *)
Consistent(read, new, now) ==
    LET all == Merged(read, new, now) IN
    /\ \A o, p \in Obligations :
           all.ob[o].paidTx = all.ob[p].paidTx /\ all.ob[o].paidTx # None => o = p
    /\ \A x \in TxIds : now.tx[x].kind = "gone" =>
           /\ new.tx[x] \in {read.tx[x], Gone}
           /\ \A o \in Obligations : new.ob[o].paidTx = x => read.ob[o].paidTx = x

-----------------------------------------------------------------------------
LgTypeOK ==
    /\ db \in Tables
    /\ \/ request = NoRequest
       \/ request.op = "slow" /\ request.asked \in Requests
            /\ request.read \in Tables
    /\ odd \subseteq {"overlap", "return", "spent", "group"}
    /\ steps \in 0 .. MaxSteps

LgInit ==
    /\ db = [tx |-> [x \in TxIds |-> NoTx], ob |-> [o \in Obligations |-> Unpaid],
             obs |-> [n \in ObsIds |-> NoObs]]
    /\ request = NoRequest
    /\ odd = {}
    /\ steps = 0

(* Deleting the redemption of an expense takes an expense that pays an     *)
(* obligation with it: only the named row is looked at.                    *)
TakesPayment(rq, d) ==
    rq.op = "delete" /\ \E y \in GroupOf(d, rq.x) : Paying(d, y)

(* A payment is funded from a balance another request has changed since.   *)
SpendsOutdated(rq, read, now) ==
    /\ rq.op = "pay" /\ rq.fund
    /\ LET c == Latest(Seen(rq, read, now)) IN Seen(rq, read, now).obs[c] # now.obs[c]

(* What happens, when rq decided on the rows read, that no guard is for.   *)
Happened(rq, read) ==
    (IF read # db THEN {"overlap"} ELSE {})
      \cup (IF read # db /\ rq.op \in {"delete", "unpay"} THEN {"return"} ELSE {})
      \cup (IF SpendsOutdated(rq, read, db) THEN {"spent"} ELSE {})
      \cup (IF TakesPayment(rq, db) THEN {"group"} ELSE {})

Tick == steps < MaxSteps /\ steps' = steps + 1

(* A request served at once, while a slow one may be under way.            *)
Serve(rq) ==
    /\ Tick
    /\ Passes(rq, db) /\ Completes(rq, db, db)
    /\ db' = Settled(Result(rq, db, db))
    /\ odd' = odd \cup Happened(rq, db)
    /\ UNCHANGED request

Begin(rq) ==
    /\ Tick
    /\ request = NoRequest /\ rq.op \in Slow
    /\ Passes(rq, db)
    /\ request' = [op |-> "slow", asked |-> rq, read |-> db]
    /\ UNCHANGED <<db, odd>>

End ==
    /\ request # NoRequest
    /\ LET rq == request.asked  read == request.read IN
         /\ Completes(rq, read, db)
         /\ Consistent(read, Result(rq, read, db), db)
         /\ db' = Settled(Merged(read, Result(rq, read, db), db))
         /\ odd' = odd \cup Happened(rq, read)
    /\ request' = NoRequest
    /\ UNCHANGED steps

(* A check after the flush, a constraint or a vanished row: rollback.      *)
Fail ==
    /\ request # NoRequest
    /\ LET rq == request.asked  read == request.read IN
         ~(Completes(rq, read, db) /\ Consistent(read, Result(rq, read, db), db))
    /\ request' = NoRequest
    /\ UNCHANGED <<db, steps, odd>>

Create == \E rq \in Creations : Serve(rq)
FundExpense == \E rq \in Fundings : Serve(rq)
MakeTransfer == \E rq \in Transfers : Serve(rq)
Update == \E rq \in Updates : Serve(rq)
Delete == \E rq \in Deletions : Serve(rq)
Pay == \E rq \in Payments : Serve(rq)
Unpay == \E rq \in Reversals : Serve(rq)
Cancel == \E rq \in Cancellations : Serve(rq)
Confirm == \E rq \in Confirmations : Serve(rq)
BeginSlow == \E rq \in Requests : Begin(rq)

LgNext == \/ Create \/ FundExpense \/ MakeTransfer \/ Update \/ Delete
          \/ Pay \/ Unpay \/ Cancel \/ Confirm \/ BeginSlow \/ End \/ Fail

LgSpec == LgInit /\ [][LgNext]_lgVars

-----------------------------------------------------------------------------
(* A paid obligation has its transaction, an expense of its amount that    *)
(* counts in the totals: the guards of update and delete claim that only   *)
(* undoing the payment can take it away.  It does not hold.                *)
PaidHasItsTransaction ==
    \A o \in Obligations : db.ob[o].status = "paid" =>
        db.ob[o].paidTx # None /\ Eligible(db, db.ob[o].paidTx, o)

(* It holds as long as no redemption was deleted from under an expense     *)
(* that pays, and no request wrote over rows that changed after it read.   *)
PaidUnlessUndercut == odd = {} => PaidHasItsTransaction

(* No two standing redemptions were taken from the same balance: a payment *)
(* discounted twice is what api.py refuses "para evitar dupla contagem".   *)
(* It does not hold: two overlapping payments with transactions that exist *)
(* may both read a balance before either spends it.                        *)
EveryBalanceSpentOnce ==
    \A m, n \in ObsIds :
        /\ db.obs[m].trace # None /\ ~db.obs[m].invalid
        /\ db.obs[n].trace # None /\ ~db.obs[n].invalid
        /\ db.obs[m].prev = db.obs[n].prev
        => m = n

(* It holds, whatever payments, fundings, reversals and confirmed balances *)
(* overlap, as long as no payment was funded from a balance that had       *)
(* changed since it was read, and no redemption was given back by a        *)
(* request that read the rows before they changed.                         *)
BalanceSpentOnce == odd \cap {"return", "spent"} = {} => EveryBalanceSpentOnce

(* The row of the redemption that observation n stands for.                *)
Redemption(n) ==
    {f \in RowIds(db) : /\ db.tx[f].kind = "transfer"
                        /\ f = db.obs[n].trace \/ db.tx[f].group = db.obs[n].trace}

(* A balance that was reduced has the redemption row that explains by how  *)
(* much, and stands on a balance that stands; one that was given back has  *)
(* none, and the balance before it is free again: unless requests          *)
(* overlapped.                                                             *)
BalanceHasItsRedemption ==
    "overlap" \notin odd =>
        \A n \in ObsIds : db.obs[n].trace # None =>
            /\ ~db.obs[n].invalid =>
                 /\ \E f \in Redemption(n) :
                        db.tx[f].amount + db.obs[n].amount = db.obs[db.obs[n].prev].amount
                 /\ db.obs[db.obs[n].prev].next = n
                 /\ ~db.obs[db.obs[n].prev].invalid
            /\ db.obs[n].invalid /\ db.obs[n].next = None =>
                 Redemption(n) = {} /\ db.obs[db.obs[n].prev].next # n

(* The three together: what was paid, from which balance, and what is left *)
(* (the obligation and funding endpoints of api.py).                       *)
ObligationsSettle == PaidUnlessUndercut /\ BalanceSpentOnce /\ BalanceHasItsRedemption
=============================================================================
