------------------------- MODULE OneShotDecision -------------------------
(***************************************************************************)
(* What the Assistant promises of each proposal (assistant_actions.py,     *)
(* execute_typed_action, cancel_action_proposal, undo_assistant_action):   *)
(* it is decided once, either executed or cancelled; only what was         *)
(* executed is undone, and once; and the household's books are touched by  *)
(* exactly these two steps, once each.                                     *)
(***************************************************************************)
EXTENDS Naturals

CONSTANT Items

VARIABLES decision,  \* what became of the proposal
          touched    \* how often the books were written on its account

odVars == <<decision, touched>>

OdInit == decision = [i \in Items |-> "open"] /\ touched = [i \in Items |-> 0]

Move(i, from, to, n) ==
    /\ decision[i] = from
    /\ decision' = [decision EXCEPT ![i] = to]
    /\ touched' = [touched EXCEPT ![i] = @ + n]

OdNext == \E i \in Items :
    \/ Move(i, "open", "executed", 1)
    \/ Move(i, "open", "cancelled", 0)
    \/ Move(i, "executed", "undone", 1)

OdSpec == OdInit /\ [][OdNext]_odVars
=============================================================================
