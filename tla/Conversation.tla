----------------------------- MODULE Conversation -----------------------------
(***************************************************************************)
(* One round of the Assistant's tool layer: plan_and_execute loads the     *)
(* conversation's memory, asks the sidecar for a plan, executes its steps  *)
(* one after the other and records the turn                                *)
(* (assistant_orchestrator.py, assistant_tools.py,                         *)
(* assistant_conversation_context.py).  One user talks over several        *)
(* conversations, the web's and WhatsApp's, and rounds overlap.            *)
(*                                                                         *)
(* The memory is read without a lock when the round starts, and written    *)
(* after the plan and its tools: record_turn locks the row, or finds none  *)
(* and inserts it, joining the row of a round that was faster.  A step     *)
(* that writes commits on its own.                                         *)
(***************************************************************************)
EXTENDS Naturals, Sequences, FiniteSets, SequencesExt

CONSTANTS
    Rounds,         \* requests, each asked once
    Conversations,  \* (user, conversation_id)
    NoState,
    MaxTurns,       \* rounds kept (MAX_TURNS holds two messages of each)
    MaxSteps,       \* MAX_CONTEXT_STEPS
    MaxPlan,        \* MAX_PLAN_STEPS
    TTL,            \* CONVERSATION_STATE_TTL_MINUTES
    MaxTime         \* bound: the last moment a run explores

ASSUME ConversationAssumption ==
    /\ MaxTurns \in Nat \ {0} /\ MaxSteps \in Nat \ {0} /\ MaxPlan \in Nat
    /\ TTL \in Nat /\ MaxTime \in Nat
    /\ NoState \notin [turns : Seq(Rounds), steps : Seq(Rounds), expires : Nat]

VARIABLES
    now,
    row,        \* [Conversations -> the committed AssistantConversationState, or NoState]
    round,      \* [Rounds -> a request in progress, or NoState]
    holder,     \* [Conversations -> the round that locked the row, or NoState]
    proposals,  \* the user's AssistantActionProposal rows, in the order of creation
    told        \* ghost: [Conversations -> the rounds of the conversation going on]

cvVars == <<now, row, round, holder, proposals, told>>

NewRound(c) == [conv |-> c, phase |-> "planning", left |-> 0, read |-> FALSE,
                drafted |-> {}, moment |-> 0]

CvInit ==
    /\ now = 0
    /\ row = [c \in Conversations |-> NoState]
    /\ round = [r \in Rounds |-> NoState]
    /\ holder = [c \in Conversations |-> NoState]
    /\ proposals = <<>>
    /\ told = [c \in Conversations |-> [turns |-> <<>>, steps |-> <<>>, last |-> 0]]

In(r, phase) == round[r] # NoState /\ round[r].phase = phase

Wait ==
    /\ now < MaxTime /\ now' = now + 1
    /\ UNCHANGED <<row, round, holder, proposals, told>>

\* load_context, for the payload of the plan.
Ask(r, c) ==
    /\ round[r] = NoState
    /\ round' = [round EXCEPT ![r] = NewRound(c)]
    /\ UNCHANGED <<now, row, holder, proposals, told>>

\* No plan, a question, or up to MaxPlan steps.
Planned(r, n) ==
    /\ In(r, "planning")
    /\ round' = [round EXCEPT ![r].phase = IF n = 0 THEN "finishing" ELSE "running",
                              ![r].left = n]
    /\ UNCHANGED <<now, row, holder, proposals, told>>

-----------------------------------------------------------------------------
(* run_tool, one step of the plan at a time.                                *)

Done(r, changed) ==
    round' = [round EXCEPT ![r] = [changed EXCEPT !.left = @ - 1,
                  !.phase = IF changed.left = 1 THEN "answered" ELSE "running"]]

\* A tool that asks something, or fails, ends the round: nothing the earlier
\* steps answered is said.
Stop(r) ==
    /\ In(r, "running")
    /\ round' = [round EXCEPT ![r].phase = "finishing"]
    /\ UNCHANGED <<now, row, holder, proposals, told>>

Read(r) ==
    /\ In(r, "running")
    /\ Done(r, [round[r] EXCEPT !.read = TRUE])
    /\ UNCHANGED <<now, row, holder, proposals, told>>

DraftProposal(r) ==
    /\ In(r, "running")
    /\ proposals' = Append(proposals, [state |-> "open", shown |-> FALSE, blind |-> FALSE])
    /\ Done(r, [round[r] EXCEPT !.drafted = @ \cup {Len(proposals) + 1}])
    /\ UNCHANGED <<now, row, holder, told>>

(* _find_pending_proposal: the one the text refers to, or the user's last   *)
(* open one; whichever conversation drafted it.                             *)
Pending == {i \in DOMAIN proposals : proposals[i].state = "open"}

\* _tool_confirm_typed_action and _tool_cancel_typed_action; with nothing
\* pending they ask, which is Stop.
Decide(r, i, state) ==
    /\ In(r, "running")
    /\ i \in Pending
    /\ proposals' = [proposals EXCEPT ![i].state = state, ![i].blind = ~proposals[i].shown]
    /\ Done(r, round[r])
    /\ UNCHANGED <<now, row, holder, told>>

-----------------------------------------------------------------------------
(* _finish: the memory, the audit and the commit, then the answer.          *)

Expired(c, moment) == row[c] # NoState /\ row[c].expires < moment

\* record_turn looks for the row FOR UPDATE.
Look(r) ==
    /\ In(r, "answered") \/ In(r, "finishing")
    /\ holder[round[r].conv] = NoState
    /\ LET c == round[r].conv IN
       /\ holder' = IF row[c] = NoState THEN holder ELSE [holder EXCEPT ![c] = r]
       /\ round' = [round EXCEPT ![r].phase =
                        IF In(r, "answered") THEN "recording" ELSE "dropping",
                                 ![r].moment = now]
    /\ UNCHANGED <<now, row, proposals, told>>

\* A mutant: one more than the limit is kept.
KeptOneMore(s, n) == SubSeq(s, IF Len(s) > n THEN Len(s) - n ELSE 1, Len(s))
Kept(s, n) == SubSeq(s, IF Len(s) > n THEN Len(s) - n + 1 ELSE 1, Len(s))

Empty == [turns |-> <<>>, steps |-> <<>>, expires |-> 0]

\* A mutant: the memory an earlier conversation left is carried on.
NeverEmptied(c, moment) == IF row[c] = NoState THEN Empty ELSE row[c]
\* What the turn is added to: the row, or a new one for a first or expired one.
Base(c, moment) == IF row[c] = NoState \/ Expired(c, moment) THEN Empty ELSE row[c]

\* The rounds since the conversation was last silent for longer than the TTL.
Going(c, moment) ==
    IF moment > told[c].last + TTL THEN [told[c] EXCEPT !.turns = <<>>, !.steps = <<>>]
    ELSE told[c]

\* The row locked, inserted, or, when another round inserted it meanwhile, joined.
Record(r) ==
    LET c == round[r].conv
        m == round[r].moment
        b == Base(c, m)
        g == Going(c, m)
        resolved(s) == IF round[r].read THEN Append(s, r) ELSE s
    IN
    /\ In(r, "recording") \/ In(r, "dropping")
    /\ holder[c] \in {NoState, r}
    /\ row' = [row EXCEPT ![c] = [turns |-> Kept(Append(b.turns, r), MaxTurns),
                                  steps |-> Kept(resolved(b.steps), MaxSteps),
                                  expires |-> m + TTL]]
    /\ told' = [told EXCEPT ![c] = [turns |-> Append(g.turns, r),
                                    steps |-> resolved(g.steps), last |-> m]]
    /\ holder' = [holder EXCEPT ![c] = NoState]
    /\ proposals' = [i \in DOMAIN proposals |->
            IF i \in round[r].drafted /\ In(r, "recording")
            THEN [proposals[i] EXCEPT !.shown = TRUE] ELSE proposals[i]]
    /\ round' = [round EXCEPT ![r].phase = "done"]
    /\ UNCHANGED now

CvNext ==
    \/ Wait
    \/ \E r \in Rounds :
         \/ \E c \in Conversations : Ask(r, c)
         \/ \E n \in 0 .. MaxPlan : Planned(r, n)
         \/ Stop(r) \/ Read(r) \/ DraftProposal(r)
         \/ \E i \in Pending : Decide(r, i, "executed") \/ Decide(r, i, "cancelled")
         \/ Look(r) \/ Record(r)

CvSpec == CvInit /\ [][CvNext]_cvVars

-----------------------------------------------------------------------------
(* Properties.                                                             *)

CvTypeOK ==
    /\ now \in 0 .. MaxTime
    /\ \A c \in Conversations :
         row[c] # NoState => /\ Len(row[c].turns) \in 1 .. MaxTurns
                             /\ Len(row[c].steps) \in 0 .. MaxSteps
                             /\ row[c].expires \in 0 .. MaxTime + TTL
    /\ \A r \in Rounds : round[r] # NoState => round[r].left \in 0 .. MaxPlan
    /\ holder \in [Conversations -> Rounds \cup {NoState}]

(* However rounds of a conversation overlap, the first two included, its    *)
(* memory is the last rounds recorded since it was last silent for longer   *)
(* than the TTL: none is lost, none comes back (record_turn).               *)
RowRemembersTheConversation ==
    \A c \in Conversations : row[c] # NoState =>
        /\ row[c].turns = Kept(told[c].turns, MaxTurns)
        /\ row[c].steps = Kept(told[c].steps, MaxSteps)

(* A proposal is confirmed only after an answer presented it (the           *)
(* description of confirm_typed_action in assistant_tool_catalog.py).       *)
ConfirmedWasPresented ==
    \A i \in DOMAIN proposals : proposals[i].state = "executed" => ~proposals[i].blind
=============================================================================
