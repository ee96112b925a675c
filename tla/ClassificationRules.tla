-------------------------- MODULE ClassificationRules --------------------------
(***************************************************************************)
(* Rules learned from corrections (classification_learning.py): a          *)
(* correction confirmed by the household, PATCH /transactions, is evidence *)
(* for the rule (merchant, category, movement type); three distinct ones   *)
(* make it eligible, an administrator accepts it, and from then on new     *)
(* transactions of the merchant take its category.  One merchant and one   *)
(* movement type are modelled, income or expense: a row the classifier     *)
(* knows as a transfer, a payment or a refund is of another type, and no   *)
(* rule is looked up for it.                                               *)
(*                                                                         *)
(* No request locks a rule, and the sessions do not flush before they read *)
(* (autoflush=False): each request reads the row, computes, and writes at  *)
(* its commit the columns whose value differs from the one it read.        *)
(***************************************************************************)
EXTENDS Naturals, FiniteSets

CONSTANTS
    Txns,        \* transactions of the merchant
    Categories,
    Rules,       \* identities of rules
    Sessions,    \* requests in progress
    Review,      \* the category the built-in classifier gives them
    Nothing,     \* no session, no rule
    MaxRequests  \* bound: requests a run explores

Threshold == 3
Statuses == {"observed", "suggested", "pending_acceptance", "active", "inactive"}
AdminEligible == {"pending_acceptance", "active", "inactive"}

ASSUME RulesAssumption ==
    /\ MaxRequests \in Nat /\ IsFiniteSet(Txns)
    /\ Review \notin Categories
    /\ Nothing \notin Txns
    /\ Nothing \notin [cat : Categories, count : Nat, status : Statuses,
                       active : BOOLEAN, evidence : SUBSET Txns]

VARIABLES
    category,  \* [Txns -> the category, Nothing before the row exists]
    rule,      \* [Rules -> the committed row, or Nothing]
    session,   \* [Sessions -> what a request read, or Nothing]
    proof,     \* ghost: [Rules -> the transactions confirmed for its category]
    raced,     \* ghost: the rules an edit changed under another request
    requests   \* bounded by MaxRequests

clVars == <<category, rule, session, proof, raced, requests>>

NewRule(c, t) == [cat |-> c, count |-> 1, status |-> "observed", active |-> FALSE,
                  evidence |-> {t}]
Columns == {"cat", "count", "status", "active", "evidence"}

Known(r) == rule[r] # Nothing
RulesOf(c) == {r \in Rules : Known(r) /\ rule[r].cat = c}

-----------------------------------------------------------------------------
ClInit ==
    /\ category = [t \in Txns |-> Nothing]
    /\ rule = [r \in Rules |-> Nothing]
    /\ session = [s \in Sessions |-> Nothing]
    /\ proof = [r \in Rules |-> {}]
    /\ raced = {}
    /\ requests = 0

(* classify_with_local_rules, for a row of an import: the category of an    *)
(* applied rule, else the built-in one.                                     *)
Applied(r) == Known(r) /\ rule[r].active /\ rule[r].status = "active"

Classified ==
    IF \E r \in Rules : Applied(r) THEN {rule[r].cat : r \in {q \in Rules : Applied(q)}}
    ELSE {Review}

Classify(t) ==
    /\ category[t] = Nothing
    /\ \E c \in Classified : category' = [category EXCEPT ![t] = c]
    /\ UNCHANGED <<rule, session, proof, raced, requests>>

-----------------------------------------------------------------------------
(* The requests.  What each one would write, from the row it read.          *)

(* record_confirmed_correction: a transaction counts once in the evidence,  *)
(* and the status follows the count unless the rule is active.              *)
Counted(row, t) ==
    IF t \in row.evidence THEN row
    ELSE [row EXCEPT !.count = @ + 1, !.evidence = @ \cup {t}]

Raised(row) ==
    IF row.active THEN row
    ELSE IF row.count >= Threshold THEN [row EXCEPT !.status = "pending_acceptance"]
    ELSE IF row.count >= 2 THEN [row EXCEPT !.status = "suggested"]
    ELSE row

\* accept_classification_rule and deactivate_classification_rule.
Acceptable(row) == row.count >= Threshold /\ row.status = "pending_acceptance"
Accepted(row) == [row EXCEPT !.status = "active", !.active = TRUE]
Deactivated(row) == [row EXCEPT !.status = "inactive", !.active = FALSE]

\* A mutant: an edit changes the category and keeps the rest.
EditedInPlace(row, c) == [row EXCEPT !.cat = c]
\* edit_classification_rule: another category starts from no evidence.
Edited(row, c) ==
    [cat |-> c, count |-> 0, status |-> "observed", active |-> FALSE, evidence |-> {}]

Open(s, request) ==
    /\ session[s] = Nothing
    /\ requests < MaxRequests /\ requests' = requests + 1
    /\ session' = [session EXCEPT ![s] = request]
    /\ UNCHANGED <<category, rule, proof, raced>>

\* An identity no row has and no request is about to use: which one is the same.
Unborn == {r \in Rules : ~Known(r) /\ \A s \in Sessions :
                            session[s] # Nothing => session[s].rule # r}
Free == IF Unborn = {} THEN {} ELSE {CHOOSE r \in Unborn : TRUE}

\* update_transaction: reviewed, with a category other than the one it read.
Correct(s, t, c) ==
    /\ category[t] \notin {Nothing, c}
    /\ \/ /\ RulesOf(c) = {}
          /\ \E r \in Free : Open(s, [txn |-> t, rule |-> r, old |-> Nothing,
                                     new |-> NewRule(c, t)])
       \/ \E r \in RulesOf(c) : Open(s, [txn |-> t, rule |-> r, old |-> rule[r],
                                         new |-> Raised(Counted(rule[r], t))])

\* The three endpoints of an administrator.
Request(r, new) == [txn |-> Nothing, rule |-> r, old |-> rule[r], new |-> new]

Administer(s, r) ==
    /\ Known(r)
    /\ \/ /\ Acceptable(rule[r])
          /\ Open(s, Request(r, Accepted(rule[r])))
       \/ /\ rule[r].status = "active"
          /\ Open(s, Request(r, Deactivated(rule[r])))
       \/ /\ rule[r].status \in AdminEligible
          /\ \E c \in Categories \ {rule[r].cat} : Open(s, Request(r, Edited(rule[r], c)))

-----------------------------------------------------------------------------
(* The commit.                                                              *)

\* The columns the session changed, over the row as it is now.
Overlaid(row, old, new) ==
    [k \in Columns |-> IF new[k] # old[k] THEN new[k] ELSE row[k]]

\* uq_classification_rule_consistent_choice.
Unique(r, row) == \A q \in Rules \ {r} : Known(q) => rule[q].cat # row.cat

Written(w) ==
    IF w.old = Nothing THEN w.new ELSE Overlaid(rule[w.rule], w.old, w.new)

Moves(w) == w.old # Nothing /\ w.old.cat # w.new.cat
Others(s, r) == {o \in Sessions \ {s} : session[o] # Nothing /\ session[o].rule = r}

\* The evidence a category has: what was confirmed for it since the rule took it.
Proved(w) ==
    IF Moves(w) THEN {}
    ELSE IF w.txn # Nothing THEN proof[w.rule] \cup {w.txn}
    ELSE proof[w.rule]

Save(s) ==
    LET w == session[s] IN
    /\ w # Nothing
    /\ Unique(w.rule, Written(w))
    /\ rule' = [rule EXCEPT ![w.rule] = Written(w)]
    /\ category' = IF w.txn = Nothing THEN category
                   ELSE [category EXCEPT ![w.txn] = w.new.cat]
    /\ session' = [session EXCEPT ![s] = Nothing]
    /\ proof' = [proof EXCEPT ![w.rule] = Proved(w)]
    /\ raced' = IF Moves(w) /\ Others(s, w.rule) # {} THEN raced \cup {w.rule} ELSE raced
    /\ UNCHANGED requests

\* The unique constraint refuses the row: 409 for an edit, 500 for a correction,
\* and nothing of the request stays.
Refused(s) ==
    LET w == session[s] IN
    /\ w # Nothing
    /\ ~Unique(w.rule, Written(w))
    /\ session' = [session EXCEPT ![s] = Nothing]
    /\ UNCHANGED <<category, rule, proof, raced, requests>>

ClNext ==
    \/ \E t \in Txns : Classify(t)
    \/ \E s \in Sessions :
         \/ \E t \in Txns, c \in Categories : Correct(s, t, c)
         \/ \E r \in Rules : Administer(s, r)
         \/ Save(s)
         \/ Refused(s)

ClSpec == ClInit /\ [][ClNext]_clVars

-----------------------------------------------------------------------------
(* Properties.                                                             *)

ClTypeOK ==
    /\ category \in [Txns -> Categories \cup {Review, Nothing}]
    /\ \A r \in Rules : Known(r) =>
         /\ rule[r].cat \in Categories /\ rule[r].count \in 0 .. Cardinality(Txns)
         /\ rule[r].status \in Statuses /\ rule[r].active \in BOOLEAN
         /\ rule[r].evidence \subseteq Txns
    /\ proof \in [Rules -> SUBSET Txns]
    /\ raced \subseteq Rules
    /\ requests \in 0 .. MaxRequests

(* A rule that classifies new transactions was confirmed by three distinct  *)
(* ones for the category it has now, whatever corrections, acceptances and  *)
(* deactivations overlap, unless an edit overlapped another request on the  *)
(* same rule (the three-distinct-confirmation threshold of                  *)
(* classification_learning.py).                                             *)
AppliedRuleWasConfirmed ==
    \A r \in Rules \ raced : Applied(r) => Cardinality(proof[r]) >= Threshold

(* The same, of every rule: what edit_classification_rule's docstring says  *)
(* an edit can never break.                                                 *)
EveryAppliedRuleWasConfirmed ==
    \A r \in Rules : Applied(r) => Cardinality(proof[r]) >= Threshold

(* A rule that was turned off becomes eligible again only on a transaction  *)
(* that had not confirmed it yet (deactivate_classification_rule).          *)
ReturnNeedsNewEvidence ==
    [][\A r \in Rules : (Known(r) /\ rule[r].status = "inactive"
                            /\ rule'[r].status = "pending_acceptance")
                          => proof'[r] # proof[r]]_clVars
=============================================================================
