----------------------------- MODULE Assistant -----------------------------
(***************************************************************************)
(* The Assistant's typed actions on the household's books                  *)
(* (assistant_actions.py, assistant_tools.py).                             *)
(*                                                                         *)
(* A proposal is stored, and waits to be confirmed or cancelled from the   *)
(* web or a conversation.  A session finds the proposal without a lock,    *)
(* then locks and rereads its row; the operation of the books it names,    *)
(* the trail and the proposal's consumption are one transaction.  An       *)
(* executed action may be undone, in the same way, by an operation on the  *)
(* row it named.  Meanwhile the household works on its books by hand.      *)
(***************************************************************************)
EXTENDS Ledger

CONSTANTS Proposals,
          Sessions      \* database sessions of requests and conversations

VARIABLES proposal,     \* proposals and the action events of executed ones
          session,      \* what each session is doing
          touches       \* history: commits on the books on a proposal's account

asVars == <<proposal, session, touches>>
allVars == <<lgVars, asVars>>

(* What an interpreted message can ask for.                                *)
ProposedExpenses == {rq \in Creations : ~rq.imported}
ProposedTransfers == Transfers
ProposedPayments == {rq \in Payments : rq.x = None}
TypedActions == ProposedExpenses \cup ProposedTransfers \cup ProposedPayments

(* An obligation is only proposed for payment while it is pending.  What   *)
(* looks like a duplicate is asked about, and may be created all the same. *)
Proposable(rq) == rq.op = "pay" => db.ob[rq.o].status = "pending"

Blank == [status |-> "none", action |-> None, expired |-> FALSE, undone |-> FALSE,
          target |-> None, paidBy |-> None]
Stored(rq) == [Blank EXCEPT !.status = "pending", !.action = rq]
Idle == [op |-> "none"]

Locks(s, op) == session[s].op = op /\ session[s].step = "locked"
(* A confirmation and a cancellation lock the proposal, an undo the event. *)
LockedRow(op) == IF op = "undo" THEN "event" ELSE "proposal"
Busy(p, op) == \E s \in Sessions : \E o \in {"confirm", "cancel", "undo"} :
    Locks(s, o) /\ session[s].p = p /\ LockedRow(o) = LockedRow(op)

(* A mutant: a locked reread keeps the copy the session already had.       *)
RereadFromCache(s) == session[s].found
(* The locked row as it is, whatever the session read before.              *)
Reread(s) == proposal[session[s].p]

(* The operation that undoes an action, on the row the action named.       *)
Reversal(row) ==
    IF row.action.op = "pay" THEN [op |-> "unpay", o |-> row.action.o]
    ELSE [op |-> "delete", x |-> row.target]
Operation(op, row) == IF op = "undo" THEN Reversal(row) ELSE row.action

(* Whether the locked row still allows what was asked.                     *)
StillOpen(op, row) ==
    CASE op = "confirm" -> row.status = "pending" /\ ~row.expired
      [] op = "cancel" -> row.status = "pending"
      [] op = "undo" -> row.status = "executed" /\ ~row.undone

-----------------------------------------------------------------------------
AsTypeOK ==
    /\ db \in Tables
    /\ \A p \in Proposals :
         /\ proposal[p].status \in {"none", "pending", "executed", "cancelled"}
         /\ proposal[p].action \in TypedActions \cup {None}
         /\ proposal[p].target \in TxIds \cup {None}
    /\ \A s \in Sessions :
         session[s] = Idle \/ /\ session[s].op \in {"confirm", "cancel", "undo"}
                              /\ session[s].step \in {"found", "locked"}

AsInit ==
    /\ LgInit
    /\ proposal = [p \in Proposals |-> Blank]
    /\ session = [s \in Sessions |-> Idle]
    /\ touches = [p \in Proposals |-> 0]

(* An interpretation that can be executed is stored as a proposal.         *)
Draft(p, rq) ==
    /\ proposal[p].status = "none" /\ Proposable(rq)
    /\ proposal' = [proposal EXCEPT ![p] = Stored(rq)]
    /\ UNCHANGED <<lgVars, session, touches>>

Expire(p) ==
    /\ proposal[p].status = "pending" /\ ~proposal[p].expired
    /\ proposal' = [proposal EXCEPT ![p].expired = TRUE]
    /\ UNCHANGED <<lgVars, session, touches>>

(* A confirmation or an undo may name any row, a cancellation comes from   *)
(* a conversation, whose tool looks for a pending proposal.                *)
Findable(op, row) ==
    CASE op = "confirm" -> row.status # "none"
      [] op = "cancel" -> row.status = "pending" /\ ~row.expired
      [] op = "undo" -> row.status = "executed"

Find(s, op, p) ==
    /\ session[s] = Idle /\ Findable(op, proposal[p])
    /\ session' = [session EXCEPT ![s] = [op |-> op, p |-> p, step |-> "found",
                                          found |-> proposal[p], read |-> None]]
    /\ UNCHANGED <<lgVars, proposal, touches>>

(* Lock and reread the row; read the books, and check the operation.       *)
LockRow(s) ==
    LET op == session[s].op IN
    /\ op # "none" /\ session[s].step = "found" /\ ~Busy(session[s].p, op)
    /\ StillOpen(op, Reread(s))
    /\ op # "cancel" => Passes(Operation(op, Reread(s)), db)
    /\ session' = [session EXCEPT ![s].step = "locked", ![s].found = Reread(s),
                                  ![s].read = db]
    /\ UNCHANGED <<lgVars, proposal, touches>>

(* Refused, or the transaction fails: nothing is written.                  *)
Abandon(s) ==
    /\ session[s] # Idle
    /\ session' = [session EXCEPT ![s] = Idle]
    /\ UNCHANGED <<lgVars, proposal, touches>>

CancelCommit(s) ==
    /\ Locks(s, "cancel")
    /\ proposal' = [proposal EXCEPT ![session[s].p].status = "cancelled"]
    /\ session' = [session EXCEPT ![s] = Idle]
    /\ UNCHANGED <<lgVars, touches>>

(* The books as the operation leaves them, if it can still be written.     *)
Writes(s, rq) ==
    LET read == session[s].read IN
    /\ Completes(rq, read, db)
    /\ Consistent(read, Result(rq, read, db), db)
    /\ db' = Settled(Merged(read, Result(rq, read, db), db))
    /\ odd' = odd \cup Happened(rq, read)
    /\ UNCHANGED <<steps, request>>

(* The row the action's event names: the payment's is its obligation.      *)
NamedTarget(rq) == IF rq.op = "pay" THEN None ELSE FirstTx(db)

ExecuteCommit(s) ==
    LET p == session[s].p  rq == session[s].found.action IN
    /\ Locks(s, "confirm")
    /\ Writes(s, rq)
    /\ proposal' = [proposal EXCEPT
                      ![p].status = "executed",
                      ![p].target = NamedTarget(rq),
                      ![p].paidBy = IF rq.op = "pay" THEN db'.ob[rq.o].paidTx ELSE None]
    /\ touches' = [touches EXCEPT ![p] = @ + 1]
    /\ session' = [session EXCEPT ![s] = Idle]

UndoCommit(s) ==
    LET p == session[s].p IN
    /\ Locks(s, "undo")
    /\ Writes(s, Reversal(session[s].found))
    /\ proposal' = [proposal EXCEPT ![p].undone = TRUE]
    /\ touches' = [touches EXCEPT ![p] = @ + 1]
    /\ session' = [session EXCEPT ![s] = Idle]

(* The household works on the same rows by hand.                           *)
ByHand == (Pay \/ Unpay \/ Delete \/ Confirm) /\ UNCHANGED asVars

AsNext ==
    \/ ByHand
    \/ \E p \in Proposals : Expire(p) \/ \E rq \in TypedActions : Draft(p, rq)
    \/ \E s \in Sessions :
         \/ LockRow(s) \/ Abandon(s) \/ CancelCommit(s) \/ ExecuteCommit(s) \/ UndoCommit(s)
         \/ \E p \in Proposals : \E op \in {"confirm", "cancel", "undo"} : Find(s, op, p)

AsSpec == AsInit /\ [][AsNext]_allVars

-----------------------------------------------------------------------------
(* Each proposal is decided once, whatever sessions race to confirm,       *)
(* cancel and undo it, and the books are written once for each decision.   *)
Decision(p) ==
    IF proposal[p].undone THEN "undone"
    ELSE IF proposal[p].status \in {"executed", "cancelled"} THEN proposal[p].status
    ELSE "open"
Promise == INSTANCE OneShotDecision
               WITH Items <- Proposals, decision <- [p \in Proposals |-> Decision(p)],
                    touched <- touches
ImplementsOneShot == Promise!OdSpec

(* Undoing the payment of an obligation takes back the payment the action  *)
(* made, never another: it does not hold once the household has undone     *)
(* that payment by hand and paid again, even if no transactions overlap.   *)
UndoReversesItsOwnPayment ==
    [][\A p \in Proposals :
           /\ ~proposal[p].undone /\ proposal'[p].undone
           /\ proposal[p].action.op = "pay" /\ "overlap" \notin odd'
           => db.ob[proposal[p].action.o].paidTx = proposal[p].paidBy]_allVars
=============================================================================
