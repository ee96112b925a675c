-------------------------------- MODULE MCBooks --------------------------------
(* What the household and its administrators decide about the books,       *)
(* checked on small instances: duplicates, findings, the month of a card   *)
(* purchase, classification rules, and the memory of a conversation.  The  *)
(* parts share no state in the models, so one run steps through one of     *)
(* them, chosen in the initial state, and covers them all.                 *)
EXTENDS Duplicates, FindingLifecycle, CompetenceRepair, ClassificationRules,
        Conversation, TLC

CONSTANTS Parts,                          \* the parts a run explores
          t1, t2, t3, c1, c2, l1, l2, s1, s2, \* transactions, categories, rules, sessions
          b1, b2, d1                      \* purchases, an administrator

VARIABLE part
mcVars == <<dupVars, flVars, crVars, clVars, cvVars, part>>

\* Duplicates: a statement, a card file and a typed row.
MCRows == 1 .. 4
MCPriority == [r \in MCRows |-> <<70, 60, 90, 70>>[r]]
MCConfidence == [r \in MCRows |-> [s \in MCRows |->
                   IF r = s THEN 0 ELSE IF {r, s} = {1, 4} THEN 1 ELSE 2]]
MCKeyOf == [r \in MCRows |-> [s \in MCRows |-> IF 4 \in {r, s} THEN "k2" ELSE "k1"]]

\* Findings: a pair of transactions, and a run of all or of one.
MCTwin == [t \in {"t1", "t2"} |-> IF t = "t1" THEN "t2" ELSE "t1"]
MCScopes == {{"t1", "t2"}, {"t1"}}

\* Competence: a month shorter than the longest cycle day.
MCLengths == 0 :> 3 @@ 1 :> 2

\* Rules.
MCSymmetry == Permutations({t1, t2, t3})

\* The first purchases of a run that does not look at them.
Settled ==
    /\ cycle = [closing |-> 1, due |-> 1]
    /\ \A p \in Purchases : purchase[p] = [month |-> 0, day |-> 1, inScope |-> FALSE,
                                           suspect |-> FALSE, competence |-> 0]

MCInit ==
    /\ part \in Parts
    /\ CrInit /\ (part # "competence" => Settled)
    /\ DupInit /\ FlInit /\ ClInit /\ CvInit

MCNext ==
    \/ part = "duplicates" /\ DupNext /\ UNCHANGED <<flVars, crVars, clVars, cvVars, part>>
    \/ part = "findings" /\ FlNext /\ UNCHANGED <<dupVars, crVars, clVars, cvVars, part>>
    \/ part = "competence" /\ CrNext /\ UNCHANGED <<dupVars, flVars, clVars, cvVars, part>>
    \/ part = "rules" /\ ClNext /\ UNCHANGED <<dupVars, flVars, crVars, cvVars, part>>
    \/ part = "conversation" /\ CvNext /\ UNCHANGED <<dupVars, flVars, crVars, clVars, part>>

MCSpec == MCInit /\ [][MCNext]_mcVars

(* Groups, findings, snapshots, rules and memories are of their types and  *)
(* within the limits the code gives them.                                  *)
BooksTypeOK == DuplicatesTypeOK /\ FindingTypeOK /\ CrTypeOK /\ ClTypeOK /\ CvTypeOK
=============================================================================
