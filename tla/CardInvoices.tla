--------------------------- MODULE CardInvoices ---------------------------
(***************************************************************************)
(* The invoices of a credit card, cycle by cycle                           *)
(* (card_invoice_lifecycle.py and its endpoints in api.py).                *)
(*                                                                         *)
(* Synchronising an invoice claims the cycle's purchases, adds them up     *)
(* less the refunds linked to a purchase, and inherits what the previous   *)
(* invoice still owes until a first payment freezes it.  Amounts are       *)
(* cents; the tolerance is one.                                            *)
(*                                                                         *)
(* A request copies the rows it decides on, and its first flush of a       *)
(* transaction or an integrity run then waits for the household's revision *)
(* row: it writes the columns that differ from its copy.  One slow request *)
(* at a time reads in one step and writes in a later one.  The total a     *)
(* statement declares is shown beside the computed one and decides         *)
(* nothing: it is left out.                                                *)
(***************************************************************************)
EXTENDS Naturals, FiniteSets, FiniteSetsExt

CONSTANTS LastCycle,  \* bound: the card's cycles are 1 .. LastCycle
          Purchases, Credits,
          Value,      \* amount of each purchase and refund
          Sums,       \* amounts paid
          Keys,       \* account, description and day of a payment
          MaxLegs,    \* bound: payments ever created
          SlowOps,    \* operations whose requests may overlap others
          MaxRequests,
          NoPurchase

ASSUME CardAssumption ==
    /\ LastCycle \in Nat /\ MaxLegs \in Nat /\ MaxRequests \in Nat
    /\ IsFiniteSet(Purchases) /\ IsFiniteSet(Credits) /\ NoPurchase \notin Purchases
    /\ \A x \in Purchases \cup Credits : Value[x] \in Nat
    /\ Sums \subseteq Nat \ {0}

Cycles == 1 .. LastCycle
LegIds == 1 .. MaxLegs

VARIABLES book,      \* purchases, refunds, payments and invoices
          today,     \* the last cycle whose closing day has come
          served,    \* bound: requests so far
          pending,   \* the slow request, and the rows it read
          past,      \* history: events that excuse a property
          grown      \* history: paid invoices whose own total has risen

ciVars == <<book, today, served, pending, past, grown>>

NotPending == [op |-> "none"]
States == {"new", "booked", "gone"}
Books == [buy : [Purchases -> [state : States, cycle : Cycles \cup {0}, claimed : BOOLEAN]],
          back : [Credits -> [state : States, cycle : Cycles \cup {0},
                              of : Purchases \cup {NoPurchase}]],
          leg : [LegIds -> [state : States, cycle : Cycles \cup {0}, amount : Nat,
                            key : Keys \cup {0}]],
          inv : [Cycles -> [made : BOOLEAN, computed : Nat, carriedIn : Nat,
                            carriedOut : Nat, paid : Nat,
                            status : {"open", "closed", "partially_paid", "paid"}]]]

NoInvoice == [made |-> FALSE, computed |-> 0, carriedIn |-> 0, carriedOut |-> 0,
              paid |-> 0, status |-> "open"]

-----------------------------------------------------------------------------
Booked(rows) == {x \in DOMAIN rows : rows[x].state = "booked"}
SumOf(f, S) == MapThenSumSet(LAMBDA x : f[x], S)
Total(S) == SumOf(Value, S)
LegsOf(b, c) == {l \in Booked(b.leg) : b.leg[l].cycle = c}
Unclaimed(b, c) == {p \in Booked(b.buy) : b.buy[p].cycle = c /\ ~b.buy[p].claimed}
Claimed(b, c) == {p \in Booked(b.buy) : b.buy[p].cycle = c /\ b.buy[p].claimed}
RefundsOf(b, p) == {r \in Booked(b.back) : b.back[r].of = p}
LinkedIn(b, c) == {r \in Booked(b.back) : b.back[r].cycle = c /\ b.back[r].of # NoPurchase}

\* A mutant: no floor at zero.
LessAnyway(x, y) == x - y
Less(x, y) == IF x > y THEN x - y ELSE 0
(* A mutant: what was paid is not taken off.                               *)
OwedInFull(i) == i.computed + i.carriedIn
Outstanding(i) == Less(i.computed + i.carriedIn, i.paid)

(* Sums are taken from the tables d, invoices from the session's copy.     *)
Computed(copy, d, c) ==
    Less(Total(Claimed(d, c) \cup Unclaimed(copy, c)), Total(LinkedIn(d, c)))

(* A mutant: the balance inherited follows the previous invoice for ever.  *)
InheritsAlways(i) == TRUE
Inherits(i) == i.paid = 0

Synced(copy, d, c) ==
    LET before == IF c = 1 THEN NoInvoice ELSE d.inv[c - 1]
        live == Inherits(copy.inv[c])
        row == [copy.inv[c] EXCEPT
                  !.made = TRUE,
                  !.computed = Computed(copy, d, c),
                  !.carriedIn = IF ~live THEN @
                                ELSE IF before.made THEN Outstanding(before) ELSE 0,
                  !.status = IF @ = "open" /\ c <= today THEN "closed" ELSE @] IN
    [copy EXCEPT !.buy = [p \in Purchases |->
                            IF p \in Unclaimed(copy, c) THEN [@[p] EXCEPT !.claimed = TRUE]
                            ELSE @[p]],
                 !.inv = [i \in Cycles |->
                            IF i = c THEN row
                            ELSE IF i = c - 1 /\ live /\ before.made
                            THEN [@[i] EXCEPT !.carriedOut = Outstanding(before)]
                            ELSE @[i]]]

(* The same payment, of the same invoice: replayed, never repeated.        *)
Replays(rq, d) ==
    {l \in LegsOf(d, rq.c) : d.leg[l].amount = rq.amount /\ d.leg[l].key = rq.key}

Payable(i, amount) ==
    i.status \in {"closed", "partially_paid"} /\ amount <= Outstanding(i) + 1

(* A mutant: a payment made again is counted again.                        *)
PaidAgain(rq, copy, d, now) ==
    LET b == Synced(copy, d, rq.c)
        leg == Min({l \in LegIds : now.leg[l].state = "new"})
        row == [b.inv[rq.c] EXCEPT !.paid = @ + rq.amount] IN
    [b EXCEPT !.inv[rq.c] = [row EXCEPT !.status =
                  IF Outstanding(row) <= 1 THEN "paid" ELSE "partially_paid"],
              !.leg = IF Replays(rq, d) # {} THEN @
                      ELSE [@ EXCEPT ![leg] = [state |-> "booked", cycle |-> rq.c,
                                               amount |-> rq.amount, key |-> rq.key]]]
PaidOff(rq, copy, d, now) ==
    LET b == Synced(copy, d, rq.c)
        leg == Min({l \in LegIds : now.leg[l].state = "new"})
        row == [b.inv[rq.c] EXCEPT !.paid = @ + rq.amount] IN
    IF Replays(rq, d) # {} THEN b
    ELSE [b EXCEPT !.inv[rq.c] = [row EXCEPT !.status =
                       IF Outstanding(row) <= 1 THEN "paid" ELSE "partially_paid"],
                   !.leg[leg] = [state |-> "booked", cycle |-> rq.c,
                                 amount |-> rq.amount, key |-> rq.key]]

-----------------------------------------------------------------------------
Bookings == [op : {"buy"}, p : Purchases, c : Cycles]
Refundings == [op : {"credit"}, r : Credits, c : Cycles]
Syncs == [op : {"sync", "close"}, c : Cycles]
CardPays == [op : {"pay"}, c : Cycles, amount : Sums, key : Keys]
RefundLinks == [op : {"link"}, r : Credits, p : Purchases]
RefundUnlinks == [op : {"unlink"}, r : Credits]
Erasures == [op : {"erase"}, table : {"buy"}, x : Purchases]
              \cup [op : {"erase"}, table : {"leg"}, x : LegIds]
CardRequests == Bookings \cup Refundings \cup Syncs \cup CardPays \cup RefundLinks
                  \cup RefundUnlinks \cup Erasures

(* What a request checks: on its copy, or on the tables d it queries.      *)
Allowed(rq, copy, d) ==
    CASE rq.op = "buy" -> copy.buy[rq.p].state = "new"
      [] rq.op = "credit" -> copy.back[rq.r].state = "new"
      [] rq.op = "close" -> copy.inv[rq.c].made /\ rq.c <= today
      [] rq.op = "pay" -> /\ copy.inv[rq.c].made
                          /\ Payable(Synced(copy, d, rq.c).inv[rq.c], rq.amount)
      [] rq.op = "link" ->
             /\ copy.back[rq.r].state = "booked" /\ copy.back[rq.r].of = NoPurchase
             /\ copy.buy[rq.p].state = "booked"
             /\ Total(RefundsOf(d, rq.p) \cup {rq.r}) <= Value[rq.p] + 1
      [] rq.op = "unlink" -> /\ copy.back[rq.r].state = "booked"
                             /\ copy.back[rq.r].of # NoPurchase
      [] rq.op = "erase" -> copy[rq.table][rq.x].state = "booked"
      [] OTHER -> TRUE

Effect(rq, copy, d, now) ==
    CASE rq.op = "buy" -> [copy EXCEPT !.buy[rq.p] =
                             [state |-> "booked", cycle |-> rq.c, claimed |-> FALSE]]
      [] rq.op = "credit" -> [copy EXCEPT !.back[rq.r] =
                                [state |-> "booked", cycle |-> rq.c, of |-> NoPurchase]]
      [] rq.op \in {"sync", "close"} -> Synced(copy, d, rq.c)
      [] rq.op = "pay" -> PaidOff(rq, copy, d, now)
      [] rq.op = "link" -> [copy EXCEPT !.back[rq.r].of = rq.p]
      [] rq.op = "unlink" -> [copy EXCEPT !.back[rq.r].of = NoPurchase]
      [] rq.op = "erase" -> [copy EXCEPT ![rq.table][rq.x].state = "gone"]

(* Claiming a purchase flushes it: what follows is queried after the wait. *)
Queried(rq, copy, now) ==
    IF rq.op \in {"sync", "close", "pay"} /\ Unclaimed(copy, rq.c) # {} THEN now ELSE copy

(* An UPDATE sets the columns that differ from the copy; a refund of an    *)
(* erased purchase is linked to none.                                      *)
ColumnsOver(copy, new, now) ==
    [id \in DOMAIN now |-> [f \in DOMAIN now[id] |->
        IF new[id][f] # copy[id][f] THEN new[id][f] ELSE now[id][f]]]
Over(copy, new, now) ==
    LET t == [table \in DOMAIN now |-> ColumnsOver(copy[table], new[table], now[table])] IN
    [t EXCEPT !.back = [r \in Credits |->
        IF @[r].of # NoPurchase /\ t.buy[@[r].of].state = "gone"
        THEN [@[r] EXCEPT !.of = NoPurchase] ELSE @[r]]]

(* One invoice per cycle; a row that is written or referred to exists.     *)
Lands(copy, new, now) ==
    /\ \A c \in Cycles : new.inv[c].made /\ ~copy.inv[c].made => ~now.inv[c].made
    /\ \A p \in Purchases : now.buy[p].state = "gone" => new.buy[p] = copy.buy[p]
    /\ \A l \in LegIds : now.leg[l].state = "gone" => new.leg[l] = copy.leg[l]
    /\ \A r \in Credits : \A p \in Purchases :
           new.back[r].of = p /\ copy.back[r].of # p => now.buy[p].state # "gone"

RoomToPay(rq, now) == rq.op = "pay" => \E l \in LegIds : now.leg[l].state = "new"

-----------------------------------------------------------------------------
CiTypeOK ==
    /\ book \in Books
    /\ today \in Cycles \cup {0}
    /\ served \in 0 .. MaxRequests
    /\ \/ pending = NotPending
       \/ pending.op = "slow" /\ pending.asked \in CardRequests /\ pending.copy \in Books
    /\ past \subseteq {"overlap", "erased", "back", "stale"}
    /\ grown \subseteq Cycles

CiInit ==
    /\ book = [buy |-> [p \in Purchases |-> [state |-> "new", cycle |-> 0, claimed |-> FALSE]],
               back |-> [r \in Credits |-> [state |-> "new", cycle |-> 0, of |-> NoPurchase]],
               leg |-> [l \in LegIds |-> [state |-> "new", cycle |-> 0, amount |-> 0, key |-> 0]],
               inv |-> [c \in Cycles |-> NoInvoice]]
    /\ today = 0
    /\ served = 0
    /\ pending = NotPending
    /\ past = {}
    /\ grown = {}

(* An invoice still holds a balance that the one before it, resynchronised *)
(* or paid since, no longer owes.                                          *)
Outdated(b, c) ==
    c > 1 /\ b.inv[c].paid = 0 /\ b.inv[c].carriedIn > Outstanding(b.inv[c - 1])

(* History: a payment of an invoice whose balance a later, paid invoice    *)
(* has inherited, one of an invoice behind an outdated one, an erasure.    *)
Excuses(rq, b) ==
    (IF rq.op = "pay" /\ \E i \in Cycles : i > rq.c /\ b.inv[i].paid > 0
     THEN {"back"} ELSE {})
      \cup (IF rq.op = "pay" /\ \E i \in 1 .. rq.c - 1 : Outdated(b, i)
            THEN {"stale"} ELSE {})
      \cup (IF rq.op = "erase" THEN {"erased"} ELSE {})
Grown(b, c) ==
    {i \in Cycles : b.inv[i].paid > 0 /\ c.inv[i].computed > b.inv[i].computed}

Ask(rq) == served < MaxRequests /\ served' = served + 1

(* A request served at once, while a slow one may be under way.            *)
Answer(rq) ==
    LET new == Effect(rq, book, book, book) IN
    /\ Ask(rq)
    /\ RoomToPay(rq, book) /\ Allowed(rq, book, book)
    /\ book' = Over(book, new, book)
    /\ past' = past \cup Excuses(rq, book)
    /\ grown' = grown \cup Grown(book, book')
    /\ UNCHANGED <<today, pending>>

BuyOnCard == \E rq \in Bookings : Answer(rq)
CreditCard == \E rq \in Refundings : Answer(rq)
SyncInvoice == \E rq \in Syncs : Answer(rq)
PayInvoice == \E rq \in CardPays : Answer(rq)
LinkRefund == \E rq \in RefundLinks : Answer(rq)
UnlinkRefund == \E rq \in RefundUnlinks : Answer(rq)
EraseRow == \E rq \in Erasures : Answer(rq)

StartSlow == \E rq \in CardRequests :
    /\ Ask(rq)
    /\ pending = NotPending /\ rq.op \in SlowOps
    /\ Allowed(rq, book, book) \/ (rq.op = "pay" /\ Unclaimed(book, rq.c) # {})
    /\ pending' = [op |-> "slow", asked |-> rq, copy |-> book]
    /\ UNCHANGED <<book, today, past, grown>>

SlowLands ==
    LET rq == pending.asked  copy == pending.copy  d == Queried(rq, copy, book) IN
    /\ Allowed(rq, copy, d) /\ RoomToPay(rq, book)
    /\ Lands(copy, Effect(rq, copy, d, book), book)

FinishSlow ==
    /\ pending # NotPending /\ SlowLands
    /\ LET rq == pending.asked  copy == pending.copy
           new == Effect(rq, copy, Queried(rq, copy, book), book) IN
         /\ book' = Over(copy, new, book)
         /\ grown' = grown \cup Grown(book, book')
         /\ past' = past \cup Excuses(rq, book)
                         \cup (IF copy # book THEN {"overlap"} ELSE {})
    /\ pending' = NotPending
    /\ UNCHANGED <<today, served>>

AbortSlow ==
    /\ pending # NotPending /\ ~SlowLands
    /\ pending' = NotPending
    /\ UNCHANGED <<book, today, served, past, grown>>

(* The closing day of the next cycle comes.                                *)
CloseDay ==
    /\ today < LastCycle
    /\ today' = today + 1
    /\ UNCHANGED <<book, served, pending, past, grown>>

CiNext == \/ BuyOnCard \/ CreditCard \/ SyncInvoice \/ PayInvoice \/ LinkRefund
          \/ UnlinkRefund \/ EraseRow \/ StartSlow \/ FinishSlow \/ AbortSlow \/ CloseDay

CiSpec == CiInit /\ [][CiNext]_ciVars

-----------------------------------------------------------------------------
(* What an invoice says was paid is what its payments add up to, however   *)
(* often a payment was sent again: unless two requests overlapped, or a    *)
(* payment was erased under its invoice.                                   *)
InvoiceLegsAddUp ==
    past \cap {"overlap", "erased"} = {} =>
        \A c \in Cycles : SumOf([l \in LegIds |-> book.leg[l].amount], LegsOf(book, c))
                            = book.inv[c].paid

PaidUpTo(b, c) == SumOf([i \in Cycles |-> b.inv[i].paid], 1 .. c)
BoughtUpTo(b, c) == Total(UNION {Claimed(b, i) : i \in 1 .. c})
PaidWithinPurchases == \A c \in Cycles : PaidUpTo(book, c) <= BoughtUpTo(book, c) + c

(* Over all its cycles the card is never paid more than was bought on it,  *)
(* but for the tolerance of each invoice, although every unpaid balance is *)
(* owed again in the next cycle: as long as no invoice is paid after a     *)
(* later one that inherited its balance, and none whose balance comes      *)
(* through an invoice that was not synchronised since the one before it.   *)
NeverPaidBeyondPurchases ==
    past \cap {"overlap", "erased", "back", "stale"} = {} => PaidWithinPurchases

(* An invoice reported as paid owes nothing, whatever happens to the       *)
(* earlier cycles: unless its own purchases have grown since.              *)
PaidMeansSettled ==
    "overlap" \notin past =>
        \A c \in Cycles \ grown : book.inv[c].status = "paid" => Outstanding(book.inv[c]) <= 1

(* The three together: the invoices, their payments and the purchases on   *)
(* the card say the same (card_invoice_lifecycle.py).                      *)
InvoicesSettle == InvoiceLegsAddUp /\ NeverPaidBeyondPurchases /\ PaidMeansSettled

(* What the projection and the report say the card still owes: the balance *)
(* of the latest invoice that is closed or partly paid, which is said to   *)
(* hold those of the cycles before.                                        *)
ForecastOwed ==
    LET open == {c \in Cycles : book.inv[c].status \in {"closed", "partially_paid"}} IN
    IF open = {} THEN 0 ELSE Outstanding(book.inv[Max(open)])

(* "Its own total already includes every earlier unpaid cycle"             *)
(* (_forecast_card_invoices): once the last invoice is paid, the           *)
(* projection shows nothing owed.  It does not hold of a cycle left closed *)
(* behind one that inherited its balance.                                  *)
PaidLastMeansNothingForecast ==
    past = {} /\ grown = {} =>
        \A c \in Cycles :
            book.inv[c].status = "paid" /\ (\A i \in c + 1 .. LastCycle : ~book.inv[i].made)
              => ForecastOwed <= 1

(* "Every write action below calls this first so its figures are never     *)
(* stale" (get_or_sync_invoice): it does not hold of three cycles.  Only   *)
(* the invoice asked for is synchronised, from the stored balance of the   *)
(* one before, which may hold one its own predecessor was paid for since.  *)
FiguresNeverStale ==
    past \cap {"overlap", "erased", "back"} = {} => PaidWithinPurchases

(* A payment sent twice is on the invoice once: it does not hold of two    *)
(* requests that overlap.                                                  *)
PaymentSentTwiceCountsOnce ==
    \A l, m \in Booked(book.leg) :
        /\ book.leg[l].cycle = book.leg[m].cycle
        /\ book.leg[l].amount = book.leg[m].amount
        /\ book.leg[l].key = book.leg[m].key
        => l = m
=============================================================================
