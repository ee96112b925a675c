---------------------------- MODULE Investments ----------------------------
(***************************************************************************)
(* An investment and the log of its valuations and contributions (api.py,  *)
(* /investments).  Every event appends a snapshot of the whole asset; an   *)
(* undo invalidates the event and puts back the latest earlier snapshot.   *)
(*                                                                         *)
(* A request reads the asset first.  A contribution then takes the         *)
(* household's revision row, looks whether its transfer is already linked, *)
(* and adds to the cost it read; the other requests lock nothing.  What a  *)
(* request writes are the columns that differ from what it read.           *)
(***************************************************************************)
EXTENDS Integers, Sequences, FiniteSets

CONSTANTS Transfers, \* cash-out transfers that may fund a contribution
          AmountOf,  \* the amount of each
          Worths,    \* current values a person enters
          InvDays,   \* valuation dates
          MaxLog,    \* bound: events of the asset
          NoTransfer

ASSUME InvAmounts == AmountOf \in [Transfers -> Nat \ {0}] /\ Worths \subseteq Nat
ASSUME InvDaysNat == InvDays \subseteq Nat /\ NoTransfer \notin Transfers
ASSUME InvBound == MaxLog \in Nat \ {0}

VARIABLES asset,   \* the investment's current state
          log,     \* its InvestmentValuation rows, in the order created
          kept,    \* transfers not deleted
          inFlight, \* a request that has read the asset and not written
          strayed  \* history: what happened that the code does not guard against

invVars == <<asset, log, kept, inFlight, strayed>>

NoAsset == [made |-> FALSE, cost |-> 0, worth |-> 0]
Still == [op |-> "none"]
Events == [day : InvDays, cost : Int, worth : Int, put : Nat,
           from : Transfers \cup {NoTransfer}, valid : BOOLEAN]

InvTypeOK ==
    /\ asset \in [made : BOOLEAN, cost : Int, worth : Int]
    /\ log \in Seq(Events) /\ Len(log) <= MaxLog
    /\ kept \subseteq Transfers
    /\ inFlight = Still \/ inFlight.op \in {"value", "contribute", "undo"}
    /\ strayed \subseteq {"overlap", "reordered"}

-----------------------------------------------------------------------------
Valid(l) == {n \in DOMAIN l : l[n].valid}
(* By valuation date, then by creation.                                    *)
Later(l, n, k) == l[n].day > l[k].day \/ (l[n].day = l[k].day /\ n > k)
LatestOf(l, S) == CHOOSE n \in S : \A k \in S \ {n} : Later(l, n, k)

InDateOrder(l) == \A n, k \in Valid(l) : n < k => l[n].day <= l[k].day

Linked(l) == {l[n].from : n \in Valid(l)} \ {NoTransfer}

(* A mutant: an older event may be undone under a newer one.               *)
CanUndoAny(l, n) == n \in Valid(l)
CanUndo(l, n) == n \in Valid(l) /\ ~\E k \in Valid(l) \ {n} : Later(l, k, n)

(* The asset a request leaves, from the asset a it read and the log l.     *)
Raised(a, x) == [a EXCEPT !.cost = @ + AmountOf[x]]
Revalued(a, w) == [a EXCEPT !.worth = w]
Undone(a, l, n) ==
    LET before == Valid(l) \ {n} IN
    IF before = {} THEN [a EXCEPT !.cost = 0, !.worth = 0]
    ELSE LET p == LatestOf(l, before) IN
         [a EXCEPT !.cost = l[p].cost, !.worth = l[p].worth]

Snapshot(a, day, put, from) ==
    [day |-> day, cost |-> a.cost, worth |-> a.worth, put |-> put,
     from |-> from, valid |-> TRUE]

Field(now, read, new) == IF new # read THEN new ELSE now
Stored(now, read, new) ==
    [now EXCEPT !.cost = Field(@, read.cost, new.cost),
                !.worth = Field(@, read.worth, new.worth)]

(* The link is looked for under the revision row's lock.                   *)
(* A mutant: as it was when the request began.                             *)
UnlinkedBefore(rq, read) == rq.x \notin Linked(read)
Unlinked(rq, read) == rq.x \notin Linked(log)

-----------------------------------------------------------------------------
InvInit ==
    /\ asset = NoAsset /\ log = <<>> /\ kept = Transfers
    /\ inFlight = Still /\ strayed = {}

(* The first snapshot's contribution is the initial cost.                  *)
CreateInvestment(cost, worth, day) ==
    /\ ~asset.made
    /\ asset' = [made |-> TRUE, cost |-> cost, worth |-> worth]
    /\ log' = <<Snapshot(asset', day, cost, NoTransfer)>>
    /\ UNCHANGED <<kept, inFlight, strayed>>

Requests ==
    [op : {"value"}, w : Worths, day : InvDays]
    \cup [op : {"contribute"}, x : Transfers, day : InvDays]
    \cup [op : {"undo"}, n : 1 .. MaxLog]

Readable(rq) == /\ asset.made
                /\ rq.op = "undo" => rq.n \in DOMAIN log /\ CanUndo(log, rq.n)
                /\ rq.op # "undo" => Len(log) < MaxLog

Apply(rq, a, l) ==
    LET new == CASE rq.op = "value" -> Revalued(a, rq.w)
                 [] rq.op = "contribute" -> Raised(a, rq.x)
                 [] rq.op = "undo" -> Undone(a, l, rq.n) IN
    /\ rq.op = "contribute" => rq.x \in kept /\ Unlinked(rq, l)
    /\ asset' = Stored(asset, a, new)
    /\ log' = CASE rq.op = "value" -> Append(log, Snapshot(new, rq.day, 0, NoTransfer))
                [] rq.op = "contribute" ->
                     Append(log, Snapshot(new, rq.day, AmountOf[rq.x], rq.x))
                [] rq.op = "undo" -> [log EXCEPT ![rq.n].valid = FALSE]
    /\ strayed' = strayed
         \cup (IF asset # a \/ log # l THEN {"overlap"} ELSE {})
         \cup (IF rq.op = "undo" /\ ~InDateOrder(log) THEN {"reordered"} ELSE {})

Serve(rq) ==
    /\ Readable(rq)
    /\ Apply(rq, asset, log)
    /\ UNCHANGED <<kept, inFlight>>

ReadAsset(rq) ==
    /\ inFlight = Still
    /\ Readable(rq)
    /\ inFlight' = [op |-> rq.op, rq |-> rq, a |-> asset, l |-> log]
    /\ UNCHANGED <<asset, log, kept, strayed>>

WriteAsset ==
    /\ inFlight # Still /\ Len(log) < MaxLog
    /\ Apply(inFlight.rq, inFlight.a, inFlight.l)
    /\ inFlight' = Still
    /\ UNCHANGED kept

RefuseAsset ==
    /\ inFlight # Still /\ inFlight.op = "contribute"
    /\ inFlight.rq.x \notin kept \/ ~Unlinked(inFlight.rq, inFlight.l)
    /\ inFlight' = Still
    /\ UNCHANGED <<asset, log, kept, strayed>>

(* A deleted transfer leaves a contribution from nowhere.                  *)
DeleteTransfer(x) ==
    /\ x \in kept
    /\ kept' = kept \ {x}
    /\ log' = [n \in DOMAIN log |-> IF log[n].from = x
                                    THEN [log[n] EXCEPT !.from = NoTransfer] ELSE log[n]]
    /\ UNCHANGED <<asset, inFlight, strayed>>

InvNext ==
    \/ \E cost, worth \in Worths, day \in InvDays : CreateInvestment(cost, worth, day)
    \/ \E rq \in Requests : Serve(rq) \/ ReadAsset(rq)
    \/ WriteAsset \/ RefuseAsset
    \/ \E x \in Transfers : DeleteTransfer(x)

InvSpec == InvInit /\ [][InvNext]_invVars

-----------------------------------------------------------------------------
PutIn(l) ==
    LET total[n \in 0 .. Len(l)] ==
            IF n = 0 THEN 0
            ELSE total[n - 1] + (IF l[n].valid THEN l[n].put ELSE 0)
    IN  total[Len(l)]

(* The cost is what was put in and not undone, through any sequence of     *)
(* contributions, valuations and undos, when requests do not overlap and   *)
(* an undo finds the events dated in the order they were recorded.         *)
CostIsWhatWasPutIn == strayed = {} => asset.cost = PutIn(log)

(* One transfer pays for one standing contribution, overlap or not.        *)
FundedOnce ==
    \A n, k \in Valid(log) : log[n].from = log[k].from => n = k \/ log[n].from = NoTransfer

(* Both together: what an investment is said to have cost was paid for     *)
(* (services/investments.py and the investment endpoints of api.py).       *)
FundingAddsUp == CostIsWhatWasPutIn /\ FundedOnce

(* _undo_investment_valuation_impl "restores the parent Investment to the  *)
(* exact prior state recorded when that event was created".  It takes the  *)
(* latest dated snapshot for it: with a contribution recorded under an     *)
(* earlier date, undoing a mere valuation takes the contribution's cost    *)
(* back, and undoing the contribution may leave it.                        *)
UndoKeepsTheCost == "overlap" \notin strayed => asset.cost = PutIn(log)
=============================================================================
