--------------------------- MODULE CardPayments ---------------------------
(***************************************************************************)
(* Reconciliation of card-invoice payments with bank debits                *)
(* (card_payment_reconciliation.py and its endpoints in api.py).           *)
(*                                                                         *)
(* A row is a transaction of type "reconciliation": a debit of a checking  *)
(* account, or the payment received by a card.  Linking a debit with a     *)
(* payment writes one column, on both rows.  Imports, links, unlinks,      *)
(* payments and deletes are requests of their own database transactions.   *)
(* They lock rows, the accounts of the rows and the household's revision   *)
(* one by one, and work on the copies their session loaded.                *)
(***************************************************************************)
EXTENDS Naturals, FiniteSets

CONSTANTS Debits,      \* debits that statements bring
          Invoices,    \* payment-received lines of card invoices
          Legs,        \* debits that paying an invoice by hand may create
          NoRow,
          PayRequests, \* database sessions
          Rank,        \* order of the row ids, by which locks are taken
          Amount,      \* absolute value of each debit and invoice, in cents
          Account,     \* checking account of each debit
          Accounts,
          Cards,       \* card accounts
          CardOf,      \* the card of each invoice
          Close        \* pairs of an imported debit and an invoice at most 45 days apart

Rows == Debits \cup Invoices \cup Legs
Banks == Debits \cup Legs
Revision == "revision"  \* the household's revision, which every flush locks
Lockables == Rows \cup Accounts \cup Cards \cup {Revision}

ASSUME RowsApart == /\ NoRow \notin Rows \cup Accounts \cup Cards \cup {Revision}
                    /\ NoRow \notin PayRequests
                    /\ Debits \cap Invoices = {}
                    /\ Legs \cap (Debits \cup Invoices) = {}
                    /\ Rows \cap (Accounts \cup Cards) = {}
                    /\ Revision \notin Rows \cup Accounts \cup Cards
ASSUME RankInjective == /\ Rank \in [Rows -> Nat]
                        /\ \A x, y \in Rows : Rank[x] = Rank[y] => x = y
ASSUME AmountType == Amount \in [Debits \cup Invoices -> Nat]
ASSUME AccountType == /\ Account \in [Debits -> Accounts]
                      /\ CardOf \in [Invoices -> Cards]
ASSUME CloseType == Close \subseteq Debits \X Invoices
ASSUME FiniteRows == IsFiniteSet(Banks) /\ IsFiniteSet(PayRequests)

VARIABLES row,     \* rows present: the amount, account, invoices close in date
          link,    \* linked_transaction_id
          holder,  \* the session that has locked the row, the account, the revision
          ask,     \* what each request was asked to do, and how far it is
          loaded,  \* what each session's identity map holds of link
          stale    \* history: an unlink has acted on an outdated copy

cpVars == <<row, link, holder, ask, loaded, stale>>

NoAsk == [op |-> "none", a |-> NoRow, b |-> NoRow, on |-> NoRow, step |-> "idle"]
Unread == "unread"
ASSUME UnreadIsNoRow == Unread \notin Rows \cup {NoRow}
NoData == [amount |-> 0, account |-> NoRow, close |-> {}]

(* RECONCILIATION_TOLERANCE is one cent.                                   *)
SameAmount(x, y) == x <= y + 1 /\ y <= x + 1

AccountOf(x) == IF x \in Invoices THEN CardOf[x] ELSE row[x].account
Present == {x \in Rows : row[x] # NoData \/ x \in Invoices}
Due(i) == Amount[i]

(* A debit is a candidate of an unlinked invoice of the same amount and    *)
(* within the window; a linked debit has no edges.                         *)
Suits(d, i) == /\ link[d] = NoRow /\ link[i] = NoRow
               /\ SameAmount(row[d].amount, Due(i))
               /\ i \in row[d].close
Edges == {e \in (Banks \cap Present) \X Invoices : Suits(e[1], e[2])}
Candidates(d) == {i \in Invoices : <<d, i>> \in Edges}
Claimants(i) == {d \in Banks : <<d, i>> \in Edges}

(* Whether an observed debit already proves the payment of invoice i.      *)
Evidence(i, account) ==
    IF Claimants(i) = {} THEN "unmatched"
    ELSE IF \/ Cardinality(Claimants(i)) > 1
            \/ \E d \in Claimants(i) : Candidates(d) # {i}
    THEN "ambiguous"
    ELSE IF \E d \in Claimants(i) : row[d].account # account THEN "wrong_account"
    ELSE "matched"

(* A mutant: other debits that could pay the same invoice are not counted. *)
StatusOneSided(d) ==
    IF Candidates(d) = {} THEN "unmatched"
    ELSE IF Cardinality(Candidates(d)) = 1 THEN "matched" ELSE "ambiguous"

(* The status the list of bank debits shows for an unlinked debit.         *)
Status(d) ==
    IF Candidates(d) = {} THEN "unmatched"
    ELSE IF \E i \in Candidates(d) : Candidates(d) = {i} /\ Claimants(i) = {d}
    THEN "matched"
    ELSE "ambiguous"

(* An invoice counts as paid only when its counterpart points back at it.  *)
Proven(i) == \E d \in Banks \cap Present : link[i] = d /\ link[d] = i

-----------------------------------------------------------------------------
CpTypeOK ==
    /\ row \in [Rows -> [amount : Nat, account : Accounts \cup {NoRow},
                         close : SUBSET Invoices]]
    /\ link \in [Rows -> Rows \cup {NoRow}]
    /\ holder \in [Lockables -> PayRequests \cup {NoRow}]
    /\ ask \in [PayRequests ->
                  [op : {"none", "import", "link", "unlink", "pay", "delete"},
                   a : Rows \cup {NoRow}, b : Rows \cup {NoRow},
                   on : Accounts \cup {NoRow},
                   step : {"idle", "lock", "flush", "write"}]]
    /\ loaded \in [PayRequests -> [Rows -> Rows \cup {NoRow, Unread}]]
    /\ stale \in BOOLEAN

CpInit ==
    /\ row = [x \in Rows |-> NoData]
    /\ link = [x \in Rows |-> NoRow]
    /\ holder = [x \in Lockables |-> NoRow]
    /\ ask = [r \in PayRequests |-> NoAsk]
    /\ loaded = [r \in PayRequests |-> [x \in Rows |-> Unread]]
    /\ stale = FALSE

Asked(r, op, a, b, on, step) ==
    /\ ask[r].step = "idle"
    /\ ask' = [ask EXCEPT ![r] = [op |-> op, a |-> a, b |-> b, on |-> on, step |-> step]]

(* A statement brings a debit, and nobody else is bringing it.             *)
AskImport(r, d) ==
    /\ row[d] = NoData /\ \A s \in PayRequests : ask[s].op = "import" => ask[s].a # d
    /\ Asked(r, "import", d, NoRow, Account[d], "flush")
    /\ UNCHANGED <<row, link, holder, loaded, stale>>

AskLink(r, d, i) ==
    /\ d \in Present
    /\ Asked(r, "link", d, i, NoRow, "lock")
    /\ UNCHANGED <<row, link, holder, loaded, stale>>

Named(r) == {ask[r].a, ask[r].b} \ {NoRow}

(* SELECT ... FOR UPDATE of a row joined with its account locks both; a    *)
(* DELETE locks its row.                                                   *)
Missing(r) == {x \in Named(r) : \/ holder[x] # r
                                \/ ask[r].op # "delete" /\ holder[AccountOf(x)] # r}

(* Ids are not used again while a request still names them.                *)
Unused == Legs \ (Present \cup UNION {Named(s) : s \in PayRequests})

(* Bound: a leg is left for every payment under way.                       *)
AskPay(r, i, account) ==
    /\ Cardinality({s \in PayRequests : ask[s].op = "pay"}) < Cardinality(Unused)
    /\ Asked(r, "pay", i, NoRow, account, "lock")
    /\ UNCHANGED <<row, link, holder, loaded, stale>>

(* An unlink first reads its row without a lock, to learn its counterpart. *)
AskUnlink(r, x) ==
    /\ x \in Present /\ link[x] # NoRow
    /\ Asked(r, "unlink", x, link[x], NoRow, "lock")
    /\ loaded' = [loaded EXCEPT ![r][x] = link[x]]
    /\ UNCHANGED <<row, link, holder, stale>>

(* A leg made by hand may be deleted while it is not linked.               *)
AskDelete(r, l) ==
    /\ l \in Present /\ link[l] = NoRow
    /\ Asked(r, "delete", l, NoRow, NoRow, "flush")
    /\ UNCHANGED <<row, link, holder, loaded, stale>>

Lacks(r) == ask[r].step = "lock" /\ Missing(r) # {}
Ready(r) == ask[r].step = "lock" /\ Missing(r) = {}

(* A mutant: the rows are locked in the order the request named them.      *)
NextNamed(r) == IF ask[r].a \in Missing(r) THEN ask[r].a ELSE ask[r].b

(* The rows a request names are locked by ascending id, each with its      *)
(* account before the next.                                                *)
NextRow(r) == CHOOSE x \in Missing(r) : \A y \in Missing(r) : Rank[x] <= Rank[y]
NextLock(r) == IF holder[NextRow(r)] = r THEN AccountOf(NextRow(r)) ELSE NextRow(r)

(* What a request cannot go on without: the next lock; at its flush the    *)
(* revision; for a new row, its account, which the foreign key share-locks *)
(* until the commit that follows; for a delete, the rows that point at the *)
(* deleted one, which the database clears.                                 *)
Wanted(r) ==
    IF Lacks(r) THEN {NextLock(r)}
    ELSE IF ask[r].step = "flush" THEN {Revision}
    ELSE IF ask[r].step = "write" THEN {ask[r].on}
    ELSE IF ask[r].op = "delete" THEN {x \in Rows : link[x] = ask[r].a}
    ELSE {}

Waits(r, s) == r # s /\ \E k \in Wanted(r) : holder[k] = s
Unblocked(r) == \A k \in Wanted(r) : holder[k] \in {NoRow, r}

(* SELECT ... FOR UPDATE returns the copy the session already holds, if    *)
(* there is one.                                                           *)
Lock(r) ==
    /\ Lacks(r) /\ Unblocked(r) /\ NextRow(r) \in Present
    /\ LET k == NextLock(r) IN
         /\ holder' = [holder EXCEPT ![k] = r]
         /\ loaded' = IF k \in Rows /\ loaded[r][k] = Unread
                      THEN [loaded EXCEPT ![r][k] = link[k]] ELSE loaded
    /\ UNCHANGED <<row, link, ask, stale>>

(* Commit or rollback: the locks go, and the session with its copies.      *)
Finish(r) ==
    /\ holder' = [k \in Lockables |-> IF holder[k] = r THEN NoRow ELSE holder[k]]
    /\ ask' = [ask EXCEPT ![r] = NoAsk]
    /\ loaded' = [loaded EXCEPT ![r] = [x \in Rows |-> Unread]]

(* A mutant: only the debit is looked at for an earlier link.              *)
LinkableAnyInvoice(r) ==
    loaded[r][ask[r].a] = NoRow /\ SameAmount(row[ask[r].a].amount, Due(ask[r].b))

Linkable(r) ==
    LET a == ask[r].a  b == ask[r].b IN
    /\ loaded[r][a] = NoRow /\ loaded[r][b] = NoRow
    /\ SameAmount(row[a].amount, Due(b))

(* Whether the counterpart is still the one the request read.              *)
SameCounterpart(r) == loaded[r][ask[r].a] = ask[r].b

(* No debit proves the payment yet.                                        *)
NeedsPaying(r) == /\ loaded[r][ask[r].a] = NoRow
                  /\ Evidence(ask[r].a, ask[r].on) = "unmatched"

Checked(r) == \/ ask[r].op = "link" /\ Linkable(r)
              \/ ask[r].op = "unlink" /\ SameCounterpart(r)
              \/ ask[r].op = "pay" /\ NeedsPaying(r)

(* The checks pass: what they found is written at the flush that follows.  *)
Decide(r) ==
    /\ Ready(r) /\ Checked(r)
    /\ ask' = [ask EXCEPT ![r].step = "flush"]
    /\ UNCHANGED <<row, link, holder, loaded, stale>>

Link(r) ==
    /\ ask[r].step = "flush" /\ ask[r].op = "link" /\ Unblocked(r)
    /\ link' = [link EXCEPT ![ask[r].a] = ask[r].b, ![ask[r].b] = ask[r].a]
    /\ Finish(r)
    /\ UNCHANGED <<row, stale>>

(* A column is written when its copy was not already empty.                *)
Unlink(r) ==
    /\ ask[r].step = "flush" /\ ask[r].op = "unlink" /\ Unblocked(r)
    /\ link' = [x \in Rows |-> IF x \in Named(r) /\ loaded[r][x] # NoRow
                               THEN NoRow ELSE link[x]]
    /\ stale' = (stale \/ \E x \in Named(r) : loaded[r][x] # link[x])
    /\ Finish(r)
    /\ UNCHANGED row

(* An import, a payment or a delete locks the revision, and may then wait. *)
Flush(r) ==
    /\ ask[r].step = "flush" /\ ask[r].op \in {"import", "pay", "delete"} /\ Unblocked(r)
    /\ holder' = [holder EXCEPT ![Revision] = r]
    /\ ask' = [ask EXCEPT ![r].step = IF ask[r].op = "delete" THEN "lock" ELSE "write"]
    /\ UNCHANGED <<row, link, loaded, stale>>

(* The imported debit appears, on its account and date.                    *)
ImportDebit(r) ==
    /\ ask[r].step = "write" /\ ask[r].op = "import" /\ Unblocked(r)
    /\ LET d == ask[r].a IN
         row' = [row EXCEPT ![d] = [amount |-> Amount[d], account |-> Account[d],
                                    close |-> {i \in Invoices : <<d, i>> \in Close}]]
    /\ Finish(r)
    /\ UNCHANGED <<link, stale>>

(* A leg is created on the paying account, linked with the invoice.  It    *)
(* may lie outside the window.                                             *)
PayNew(r) ==
    /\ ask[r].step = "write" /\ ask[r].op = "pay" /\ Unblocked(r)
    /\ \E l \in Unused, near \in {{ask[r].a}, {}} :
         /\ row' = [row EXCEPT ![l] = [amount |-> Due(ask[r].a), account |-> ask[r].on,
                                       close |-> near]]
         /\ link' = [link EXCEPT ![l] = ask[r].a, ![ask[r].a] = l]
    /\ Finish(r)
    /\ UNCHANGED stale

DeleteLeg(r) ==
    /\ Ready(r) /\ ask[r].op = "delete" /\ Unblocked(r)
    /\ row' = [row EXCEPT ![ask[r].a] = NoData]
    /\ link' = [x \in Rows |-> IF x = ask[r].a \/ link[x] = ask[r].a
                               THEN NoRow ELSE link[x]]
    /\ Finish(r)
    /\ UNCHANGED stale

(* The error paths roll back: a row that is gone, a check that fails.      *)
Refuse(r) ==
    /\ \/ Lacks(r) /\ Unblocked(r) /\ NextRow(r) \notin Present
       \/ Ready(r) /\ ask[r].op # "delete" /\ ~Checked(r)
    /\ Finish(r)
    /\ UNCHANGED <<row, link, stale>>

(* Sessions that wait for each other in a circle; PostgreSQL ends one.     *)
Circle(G) == /\ G # {}
             /\ \A r \in G : /\ \E s \in G : Waits(r, s)
                             /\ \E s \in G : Waits(s, r)

DeadlockVictim(r) ==
    /\ \E G \in SUBSET PayRequests : r \in G /\ Circle(G)
    /\ Finish(r)
    /\ UNCHANGED <<row, link, stale>>

CpNext ==
    \E r \in PayRequests :
         \/ \E d \in Debits : AskImport(r, d)
         \/ \E d \in Banks, i \in Invoices : AskLink(r, d, i)
         \/ \E i \in Invoices, account \in Accounts : AskPay(r, i, account)
         \/ \E x \in Rows : AskUnlink(r, x)
         \/ \E l \in Legs : AskDelete(r, l)
         \/ Lock(r) \/ Decide(r) \/ Link(r) \/ Unlink(r)
         \/ Flush(r) \/ ImportDebit(r) \/ PayNew(r) \/ DeleteLeg(r)
         \/ Refuse(r) \/ DeadlockVictim(r)

CpSpec == CpInit /\ [][CpNext]_cpVars

-----------------------------------------------------------------------------
(* Of two linked rows each points at the other, as the docstrings of       *)
(* link_card_payment and unlink_card_payment claim.  It does not hold.     *)
LinksReciprocal == \A x, y \in Rows : link[x] = y => link[y] = x

(* Links stay reciprocal, and a linked invoice is proven paid, through any *)
(* interleaving of links, payments, unlinks and deletions, as long as no   *)
(* unlink acted on a copy of a link that somebody had already changed.     *)
ReciprocalUnlessStale ==
    ~stale => LinksReciprocal /\ \A i \in Invoices : link[i] # NoRow => Proven(i)

(* One policy: paying an invoice by hand is refused because one debit      *)
(* proves it exactly when the list of debits offers that pair as certain,  *)
(* never when either side of the pair has another suitor.                  *)
OnePolicy ==
    \A i \in Invoices, account \in Accounts :
        Evidence(i, account) \in {"matched", "wrong_account"} <=>
            \E d \in Banks \cap Present : Status(d) = "matched" /\ Candidates(d) = {i}

(* What the household is shown of a card payment is true of both its rows  *)
(* (list_card_payment_reconciliations, pay_card_invoice).                  *)
CardLinksAgree == ReciprocalUnlessStale /\ OnePolicy

(* What locking by ascending id brings (link_card_payment,                 *)
(* unlink_card_payment): requests that lock the rows they name never wait  *)
(* in a circle for those rows alone.  A circle passes an account, the      *)
(* revision or a delete.                                                   *)
LocksRows(r) == Lacks(r) /\ ask[r].op # "delete" /\ NextLock(r) \in Rows
RowsNeverCycle == \A G \in SUBSET PayRequests : Circle(G) => \E r \in G : ~LocksRows(r)

(* The docstring of link_card_payment: the ordering makes two concurrent   *)
(* link attempts serialize instead of deadlocking.  It does not hold.      *)
LinksNeverDeadlock ==
    \A G \in SUBSET PayRequests : Circle(G) => \E r \in G : ask[r].op # "link"
=============================================================================
