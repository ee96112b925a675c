----------------------------- MODULE BooksProofs -----------------------------
(***************************************************************************)
(* What the household decides about its books, for any rows, cycles,       *)
(* requests and rounds: the month of a card purchase, the rules learned    *)
(* from corrections, the memory of a conversation, the findings of the     *)
(* integrity runs and the duplicate groups.                                *)
(***************************************************************************)
EXTENDS MCBooks, FiniteSetTheorems, SequenceTheorems, WellFoundedInduction, TLAPS

-----------------------------------------------------------------------------
(* The month of a card purchase.  The snapshots show the rows as they are:  *)
(* every move builds both of its months again.                              *)
SnapshotsShowTheRows == shown = [m \in Periods |-> InPeriod(purchase, m)]
CrInv == CrTypeOK /\ SnapshotsShowTheRows

-----------------------------------------------------------------------------
(* Classification rules.  A rule no edit raced: its evidence was confirmed  *)
(* for the category it has, and a status an administrator acts on means     *)
(* three confirmations.                                                     *)
RuleRows == [cat : Categories, count : Nat, status : Statuses, active : BOOLEAN,
             evidence : SUBSET Txns]
Backed(confirmed, state) ==
    /\ state \in RuleRows
    /\ IsFiniteSet(state.evidence) /\ Cardinality(state.evidence) = state.count
    /\ state.evidence \subseteq confirmed
    /\ state.status \in AdminEligible => /\ Cardinality(confirmed) >= Threshold
                                         /\ state.count > 0
RulesSound == \A r \in Rules \ raced : Known(r) => Backed(proof[r], rule[r])

(* What a request on such a rule read is as sound, and a rule that had      *)
(* evidence when it was read still has some.                                *)
SessionSound(s) ==
    LET w == session[s] IN
    /\ w.rule \in Rules
    /\ w.old = Nothing =>
         \E c \in Categories, t \in Txns : w.txn = t /\ w.new = NewRule(c, t)
    /\ w.old # Nothing =>
         /\ Backed(proof[w.rule], w.old) /\ Known(w.rule)
         /\ w.old.count > 0 => rule[w.rule].count > 0
         /\ \/ \E t \in Txns : w.txn = t /\ w.new = Raised(Counted(w.old, t))
            \/ /\ w.txn = Nothing
               /\ w.old.status \in AdminEligible
               /\ \/ w.new \in {Accepted(w.old), Deactivated(w.old)}
                  \/ \E c \in Categories \ {w.old.cat} : w.new = Edited(w.old, c)
SessionsSound ==
    \A s \in Sessions : session[s] # Nothing /\ session[s].rule \notin raced => SessionSound(s)
ClInv ==
    /\ RulesSound /\ SessionsSound
    /\ proof = [r \in Rules |-> proof[r]] /\ \A r \in Rules : IsFiniteSet(proof[r])
    /\ rule = [r \in Rules |-> rule[r]] /\ session = [s \in Sessions |-> session[s]]

-----------------------------------------------------------------------------
(* The memory of a conversation.                                            *)
Remembers(c) ==
    IF row[c] = NoState THEN told[c].turns = <<>> /\ told[c].steps = <<>>
    ELSE /\ row[c].turns = Kept(told[c].turns, MaxTurns)
         /\ row[c].steps = Kept(told[c].steps, MaxSteps)
         /\ row[c].expires = told[c].last + TTL
CvInv ==
    /\ now \in Nat
    /\ row = [c \in Conversations |-> row[c]]
    /\ \A r \in Rounds : round[r] # NoState =>
         /\ round[r].conv \in Conversations /\ round[r].moment \in Nat
         /\ DOMAIN round[r] = {"conv", "phase", "left", "read", "drafted", "moment"}
    /\ round = [r \in Rounds |-> round[r]]
    /\ told \in [Conversations -> [turns : Seq(Rounds), steps : Seq(Rounds), last : Nat]]
    /\ \A c \in Conversations : Remembers(c)

-----------------------------------------------------------------------------
(* The findings.  A run that read nothing outdated judges the rows as they  *)
(* are.                                                                     *)
RunsSound ==
    \A r \in Runners :
        /\ DOMAIN running[r] = {"scope", "result", "clean"}
        /\ DOMAIN running[r].result \subseteq running[r].scope
        /\ running[r].scope \subseteq Watched
        /\ running[r].clean =>
             /\ DOMAIN running[r].result = Checked(running[r].scope)
             /\ \A t \in Checked(running[r].scope) : running[r].result[t] = Verdict(t)
FlInv ==
    /\ facts \in [Watched -> [present : BOOLEAN, flagged : BOOLEAN,
                              reviewed : BOOLEAN, excluded : BOOLEAN]]
    /\ \A t \in Watched : finding[t].status \in FindingStatus
    /\ finding = [t \in Watched |-> [status |-> finding[t].status, count |-> finding[t].count]]
    /\ running = [r \in Runners |-> running[r]]
    /\ settled \subseteq Watched
    /\ RunsSound
    /\ FindingsFollowTheBooks

-----------------------------------------------------------------------------
(* Duplicate groups.  The books d, where the rows of mine are kept out in   *)
(* their own right: what a row that is kept out, and not in its own right,  *)
(* rests on.                                                                *)
InGroup(d, k, r) == d.members[k][r].role # "none"
AloneIn(d, k) == \A r \in DupRows, j \in Keys \ {k} : InGroup(d, k, r) => ~InGroup(d, j, r)
KeptOut(d, mine, r) == d.rows[r].excluded /\ r \notin mine
Decidable(d, k) == d.groups[k].status = "open" \/ d.groups[k].resolution = "duplicate"

Shape(d) ==
    /\ d = [rows |-> d.rows, groups |-> d.groups, members |-> d.members]
    /\ d.rows \in [DupRows -> [present : BOOLEAN, excluded : BOOLEAN, group : Keys \cup {NoRow}]]
    /\ \A k \in Keys : /\ DOMAIN d.groups[k] = {"status", "resolution", "canonical", "past"}
                       /\ d.groups[k] = [c \in DOMAIN d.groups[k] |-> d.groups[k][c]]
                       /\ d.groups[k].canonical \in DupRows \cup {NoRow}
    /\ d.groups = [k \in Keys |-> d.groups[k]]
    /\ d.members \in [Keys -> [DupRows -> [role : Roles, byPolicy : BOOLEAN]]]

\* Members and the rows groups point at are there.
RowsThere(d) ==
    /\ \A k \in Keys, r \in DupRows : InGroup(d, k, r) => d.rows[r].present
    /\ \A k \in Keys : d.groups[k].canonical # NoRow => d.rows[d.groups[k].canonical].present
\* A row of no group is kept out in its own right only.
LoneRows(d, mine) ==
    \A r \in DupRows : KeptOut(d, mine, r) => \E k \in Keys : InGroup(d, k, r)
\* Of a group whose rows are in no other: who is kept out is so by the policy,
\* the row a group in force points at counts, and of one that is not in force
\* every row was told distinct.
Ordered(d, mine, k) ==
    /\ \A r \in DupRows : InGroup(d, k, r) =>
         /\ KeptOut(d, mine, r) => d.members[k][r].byPolicy
         /\ d.members[k][r].role = "distinct" => ~d.members[k][r].byPolicy
    /\ IF Decidable(d, k)
       THEN LET c == d.groups[k].canonical IN
            /\ c \in DupRows /\ InGroup(d, k, c) /\ d.members[k][c].role # "distinct"
            /\ ~KeptOut(d, mine, c)
       ELSE /\ d.groups[k].canonical = NoRow
            /\ \A r \in DupRows : InGroup(d, k, r) => d.members[k][r].role = "distinct"
\* Where nothing but arrivals and decisions happened, the others are out.
OthersOut(d, k) ==
    Decidable(d, k) => \A r \in DupRows :
        InGroup(d, k, r) /\ d.members[k][r].role # "distinct" /\ r # d.groups[k].canonical
            => d.rows[r].excluded

SoundBooks(d, mine, past) ==
    /\ Shape(d) /\ RowsThere(d) /\ LoneRows(d, mine)
    /\ \A k \in Keys : AloneIn(d, k) /\ past[k] \subseteq {"backfill"} =>
         /\ Ordered(d, mine, k)
         /\ past[k] = {} => OthersOut(d, k)
\* What a decision has read still has its rows, in the group, unless deleted.
DecisionSound ==
    decision # Idle =>
        /\ Shape(decision.read) /\ RowsThere(decision.read)
        /\ decision.q \in Questions /\ Valid(decision.read, decision.q)
        /\ \A r \in DupRows : /\ InGroup(decision.read, decision.q.key, r)
                              /\ book.rows[r].present
                              => InGroup(book, decision.q.key, r)
DupInv == SoundBooks(book, own, history) /\ DecisionSound
          /\ history = [k \in Keys |-> history[k]]

-----------------------------------------------------------------------------
(* The month of a card purchase.                                            *)
LEMMA ExpectedIsAPeriod ==
  ASSUME CrTypeOK, NEW p \in Purchases
  PROVE  Expected(p) \in Periods /\ purchase[p].competence \in Periods
<1>1. /\ purchase[p].month \in Months /\ purchase[p].competence \in Periods
      /\ LastMonth \in Nat
  BY CompetenceAssumption DEF CrTypeOK
<1>2. \A m \in Months : \A d : ClosingMonth(m, d) \in 0 .. LastMonth + 1
  BY <1>1 DEF ClosingMonth, Months
<1>3. DueShift \in {0, 1}
  BY DEF DueShift
<1>4. Expected(p) \in 0 .. LastMonth + 2
  BY <1>1, <1>2, <1>3 DEF Expected, Competence
<1> QED
  BY <1>1, <1>4 DEF Periods

LEMMA CrStart == CrInit => CrInv
<1> SUFFICES ASSUME CrInit PROVE CrInv
  OBVIOUS
<1>1. LastMonth \in Nat /\ MaxDay \in Nat /\ MaxDay >= 1 /\ MaxRevision \in Nat
  BY CompetenceAssumption
<1>2. cycle \in [closing : 1 .. MaxDay, due : 1 .. MaxDay]
  BY <1>1 DEF CrInit
<1>3. purchase \in [Purchases -> [month : Months, day : 1 .. MaxDay, inScope : BOOLEAN,
                                  suspect : BOOLEAN, competence : Periods]]
  <2>1. 0 \in Months /\ {1, DaysIn[0]} \subseteq 1 .. MaxDay
    BY <1>1, CompetenceAssumption DEF Months
  <2> QED
    BY <2>1 DEF CrInit
<1>4. \A p \in Purchases : repairs[p] \in Seq([before : Periods, after : Periods])
  BY DEF CrInit
<1>5. shown \in [Periods -> SUBSET Purchases]
  BY DEF CrInit, InPeriod
<1>6. revision \in 0 .. MaxRevision /\ preview \in [Admins -> 0 .. NoPreview]
  BY <1>1 DEF CrInit, NoPreview
<1>7. trusted \subseteq Periods /\ SnapshotsShowTheRows
  BY DEF CrInit, SnapshotsShowTheRows
<1> QED
  BY <1>2, <1>3, <1>4, <1>5, <1>6, <1>7 DEF CrInv, CrTypeOK

(* A batch moves rows to other months; the rest of the row stays.           *)
LEMMA RefileKeeps ==
  ASSUME CrInv, NEW chosen \in SUBSET Purchases, NEW to,
         \A p \in chosen : to[p] \in Periods, Refile(chosen, to)
  PROVE  /\ purchase' \in [Purchases -> [month : Months, day : 1 .. MaxDay, inScope : BOOLEAN,
                                         suspect : BOOLEAN, competence : Periods]]
         /\ \A p \in Purchases : purchase'[p].competence =
                IF p \in chosen THEN to[p] ELSE purchase[p].competence
         /\ SnapshotsShowTheRows' /\ shown' \in [Periods -> SUBSET Purchases]
         /\ revision' \in 0 .. MaxRevision
<1>1. purchase \in [Purchases -> [month : Months, day : 1 .. MaxDay, inScope : BOOLEAN,
                                  suspect : BOOLEAN, competence : Periods]]
  BY DEF CrInv, CrTypeOK
<1>2. ASSUME NEW p \in Purchases
      PROVE  /\ purchase'[p] \in [month : Months, day : 1 .. MaxDay, inScope : BOOLEAN,
                                  suspect : BOOLEAN, competence : Periods]
             /\ purchase'[p].competence =
                    IF p \in chosen THEN to[p] ELSE purchase[p].competence
  BY <1>1 DEF Refile
<1>3. purchase' = [p \in Purchases |-> purchase'[p]]
  BY DEF Refile
<1>4. purchase' \in [Purchases -> [month : Months, day : 1 .. MaxDay, inScope : BOOLEAN,
                                   suspect : BOOLEAN, competence : Periods]]
  BY <1>2, <1>3
<1>5. \A m \in Periods : InPeriod(purchase', m) \in SUBSET Purchases
  BY DEF InPeriod
<1>6. ASSUME NEW m \in Periods, m \notin Touched(chosen, to)
      PROVE  InPeriod(purchase', m) = InPeriod(purchase, m)
  BY <1>2, <1>6 DEF InPeriod, Touched
<1>7. shown' = [m \in Periods |-> InPeriod(purchase', m)]
  BY <1>6 DEF Refile, CrInv, SnapshotsShowTheRows
<1>8. SnapshotsShowTheRows'
  BY <1>7 DEF SnapshotsShowTheRows
<1>9. revision' \in 0 .. MaxRevision
  BY CompetenceAssumption DEF Refile, CrInv, CrTypeOK
<1> QED
  BY <1>2, <1>4, <1>5, <1>7, <1>8, <1>9

LEMMA LastRepairTyped ==
  ASSUME CrInv, NEW p \in Purchases, repairs[p] # <<>>
  PROVE  LastRepair(p).before \in Periods /\ LastRepair(p).after \in Periods
<1> DEFINE Repairs == [before : Periods, after : Periods]
<1>1. repairs[p] \in Seq(Repairs)
  BY DEF CrInv, CrTypeOK
<1>2. LastRepair(p) \in Repairs
  <2> HIDE DEF Repairs
  <2>1. Len(repairs[p]) \in 1 .. Len(repairs[p])
    BY <1>1, EmptySeq
  <2> QED
    BY <1>1, <2>1, ElementOfSeq DEF LastRepair
<1> QED
  BY <1>2

LEMMA ApplyTo ==
  ASSUME CrInv, NEW a \in Admins, NEW chosen \in SUBSET Purchases, Apply(a, chosen)
  PROVE  CrInv' /\ \A p \in Purchases : purchase'[p].competence =
                       IF p \in chosen THEN Expected(p) ELSE purchase[p].competence
<1>1. \A p \in chosen : Expected(p) \in Periods /\ purchase[p].competence \in Periods
  BY ExpectedIsAPeriod DEF CrInv
<1> DEFINE to == [p \in chosen |-> Expected(p)]
<1>2. /\ \A p \in chosen : to[p] = Expected(p)
      /\ Refile(chosen, to)
  BY DEF Apply
<1>3. \A p \in chosen : to[p] \in Periods
  BY <1>1, <1>2
<1> HIDE DEF to
<1>4. /\ purchase' \in [Purchases -> [month : Months, day : 1 .. MaxDay, inScope : BOOLEAN,
                                         suspect : BOOLEAN, competence : Periods]]
      /\ \A p \in Purchases : purchase'[p].competence =
             IF p \in chosen THEN to[p] ELSE purchase[p].competence
      /\ SnapshotsShowTheRows' /\ shown' \in [Periods -> SUBSET Purchases]
      /\ revision' \in 0 .. MaxRevision
  BY <1>2, <1>3, RefileKeeps
<1>5. ASSUME NEW p \in Purchases
      PROVE  repairs'[p] \in Seq([before : Periods, after : Periods])
  <2>1. repairs[p] \in Seq([before : Periods, after : Periods])
    BY DEF CrInv, CrTypeOK
  <2>2. CASE p \in chosen
    <3>1. [before |-> purchase[p].competence, after |-> Expected(p)]
             \in [before : Periods, after : Periods]
      BY <1>1, <2>2
    <3>2. repairs'[p] = Append(repairs[p],
                               [before |-> purchase[p].competence, after |-> Expected(p)])
      BY <2>2 DEF Apply
    <3> QED
      BY <2>1, <3>1, <3>2, AppendProperties
  <2>3. CASE p \notin chosen
    BY <2>1, <2>3 DEF Apply
  <2> QED
    BY <2>2, <2>3
<1>6. CrTypeOK'
  BY <1>4, <1>5 DEF Apply, CrInv, CrTypeOK
<1> QED
  BY <1>2, <1>4, <1>6 DEF CrInv

LEMMA RollbackTo ==
  ASSUME CrInv, NEW a \in Admins, NEW chosen \in SUBSET Purchases, Rollback(a, chosen)
  PROVE  CrInv' /\ \A p \in Purchases : purchase'[p].competence =
                       IF p \in chosen THEN LastRepair(p).before ELSE purchase[p].competence
<1>1. \A p \in chosen : LastRepair(p).before \in Periods
  BY LastRepairTyped DEF Rollback, Revertible
<1> DEFINE to == [p \in chosen |-> LastRepair(p).before]
<1>2. /\ \A p \in chosen : to[p] = LastRepair(p).before
      /\ Refile(chosen, to)
  BY DEF Rollback
<1>3. \A p \in chosen : to[p] \in Periods
  BY <1>1, <1>2
<1> HIDE DEF to
<1>4. /\ purchase' \in [Purchases -> [month : Months, day : 1 .. MaxDay, inScope : BOOLEAN,
                                         suspect : BOOLEAN, competence : Periods]]
      /\ \A p \in Purchases : purchase'[p].competence =
             IF p \in chosen THEN to[p] ELSE purchase[p].competence
      /\ SnapshotsShowTheRows' /\ shown' \in [Periods -> SUBSET Purchases]
      /\ revision' \in 0 .. MaxRevision
  BY <1>2, <1>3, RefileKeeps
<1>5. CrTypeOK'
  BY <1>4 DEF Rollback, CrInv, CrTypeOK
<1> QED
  BY <1>2, <1>4, <1>5 DEF CrInv

LEMMA DoubtTo ==
  ASSUME CrInv, NEW p \in Purchases, Doubt(p)
  PROVE  CrInv' /\ \A q \in Purchases : purchase'[q].competence = purchase[q].competence
<1>1. purchase \in [Purchases -> [month : Months, day : 1 .. MaxDay, inScope : BOOLEAN,
                                  suspect : BOOLEAN, competence : Periods]]
  BY DEF CrInv, CrTypeOK
<1>2. (~purchase[p].suspect) \in BOOLEAN
  OBVIOUS
<1>3. /\ purchase' \in [Purchases -> [month : Months, day : 1 .. MaxDay, inScope : BOOLEAN,
                                      suspect : BOOLEAN, competence : Periods]]
      /\ \A q \in Purchases : purchase'[q].competence = purchase[q].competence
  BY <1>1, <1>2 DEF Doubt
<1>4. \A m \in Periods : InPeriod(purchase', m) = InPeriod(purchase, m)
  BY <1>3 DEF InPeriod
<1>5. SnapshotsShowTheRows'
  BY <1>4 DEF CrInv, SnapshotsShowTheRows, Doubt
<1>6. revision' \in 0 .. MaxRevision
  BY CompetenceAssumption DEF Doubt, Bumped, CrInv, CrTypeOK
<1>7. CrTypeOK'
  BY <1>3, <1>6 DEF Doubt, CrInv, CrTypeOK
<1> QED
  BY <1>3, <1>5, <1>7 DEF CrInv

LEMMA CrElse ==
  ASSUME CrInv,
         \/ \E a \in Admins : Preview(a)
         \/ \E m \in Closable : Trust(m) \/ Reopen(m)
         \/ UNCHANGED crVars
  PROVE  CrInv' /\ purchase' = purchase
<1>1. CASE \E a \in Admins : Preview(a)
  <2>1. PICK a \in Admins : Preview(a)
    BY <1>1
  <2>2. preview' \in [Admins -> 0 .. NoPreview]
    BY <2>1, CompetenceAssumption DEF Preview, CrInv, CrTypeOK, NoPreview
  <2> QED
    BY <2>1, <2>2 DEF Preview, CrInv, CrTypeOK, SnapshotsShowTheRows
<1>2. CASE \E m \in Closable : Trust(m)
  <2>1. PICK m \in Closable : Trust(m)
    BY <1>2
  <2>2. m \in Periods
    BY CompetenceAssumption DEF Periods
  <2>3. shown' = shown
    BY <2>1, <2>2 DEF Trust, CrInv, SnapshotsShowTheRows
  <2> QED
    BY <2>1, <2>2, <2>3 DEF Trust, CrInv, CrTypeOK, SnapshotsShowTheRows
<1>3. CASE \E m \in Closable : Reopen(m)
  BY <1>3 DEF Reopen, CrInv, CrTypeOK, SnapshotsShowTheRows
<1>4. CASE UNCHANGED crVars
  BY <1>4 DEF crVars, CrInv, CrTypeOK, SnapshotsShowTheRows
<1> QED
  BY <1>1, <1>2, <1>3, <1>4

LEMMA CrStep == CrInv /\ [CrNext]_crVars => CrInv'
  BY ApplyTo, RollbackTo, DoubtTo, CrElse DEF CrNext

LEMMA CrAlways == CrSpec => []CrInv
  BY CrStart, CrStep, PTL DEF CrSpec

(* The columns, the audit trail and the snapshots are of their types: what  *)
(* a repair writes is a month the projection knows.                         *)
THEOREM CompetenceTypes == CrSpec => []CrTypeOK
<1>1. CrInv => CrTypeOK
  BY DEF CrInv
<1> QED
  BY <1>1, CrAlways, PTL

(* For any cycle and any lengths of months, a date is in the window of the  *)
(* invoice it resolves to and in no other, and through any repairs and      *)
(* rollbacks a purchase is in the snapshot of exactly one month.            *)
THEOREM PurchasesStayInOneMonth == CrSpec => []MonthsHoldTheirPurchases
<1>1. CrInv => WindowHoldsThePurchase
  <2> SUFFICES ASSUME CrInv, NEW m \in Months, NEW d \in 1 .. MaxDay, NEW period \in Periods,
                      d <= DaysIn[m]
               PROVE  <<m, d>> \in Window(period) <=> period = Competence(m, d)
    BY DEF WindowHoldsThePurchase
  <2>1. /\ LastMonth \in Nat /\ MaxDay \in Nat /\ DaysIn[m] \in 1 .. MaxDay
        /\ m \in Nat /\ d \in Nat /\ period \in Nat
    BY CompetenceAssumption DEF Months, Periods
  <2>2. cycle.closing \in 1 .. MaxDay /\ DueShift \in {0, 1}
    BY DEF CrInv, CrTypeOK, DueShift
  <2>3. d <= Clipped(m) <=> d <= cycle.closing
    BY <2>1, <2>2 DEF Clipped
  <2>4. d > Clipped(m) <=> d > cycle.closing
    BY <2>1, <2>2 DEF Clipped
  <2> DEFINE closing == period - DueShift
  <2>5. <<m, d>> \in Window(period) <=> \/ m = closing /\ d <= Clipped(m)
                                        \/ m + 1 = closing /\ d > Clipped(m)
    BY DEF Window, Falls
  <2>6. Competence(m, d) = (IF d > cycle.closing THEN m + 1 ELSE m) + DueShift
    BY DEF Competence, ClosingMonth
  <2> QED
    BY <2>1, <2>2, <2>3, <2>4, <2>5, <2>6
<1>2. CrInv => ShownInOneMonth
  <2> SUFFICES ASSUME CrInv, NEW p \in Purchases
               PROVE  Cardinality({m \in Periods : p \in shown[m]}) = 1
    BY DEF ShownInOneMonth
  <2>1. purchase[p].competence \in Periods
    BY ExpectedIsAPeriod DEF CrInv
  <2>2. {m \in Periods : p \in shown[m]} = {purchase[p].competence}
    BY <2>1 DEF CrInv, SnapshotsShowTheRows, InPeriod
  <2> QED
    BY <2>2, FS_Singleton
<1>3. CrInv => MonthsHoldTheirPurchases
  BY <1>1, <1>2 DEF MonthsHoldTheirPurchases
<1> QED
  BY <1>3, CrAlways, PTL

(* No repair and no rollback takes a purchase out of a month while it is    *)
(* trusted or puts one into it, however old the preview it names.           *)
THEOREM TrustedMonthsAreLeftAlone == CrSpec => TrustedMonthKeepsItsPurchases
<1>1. ASSUME CrInv, [CrNext]_crVars, NEW m \in trusted
      PROVE  InPeriod(purchase', m) = InPeriod(purchase, m)
  <2>1. ASSUME NEW a \in Admins, NEW chosen \in SUBSET Purchases, Apply(a, chosen)
        PROVE  InPeriod(purchase', m) = InPeriod(purchase, m)
    <3>1. \A p \in chosen : purchase[p].competence # m /\ Expected(p) # m
      BY <2>1 DEF Apply, Blocked, TrustedClose
    <3>2. \A p \in Purchases : purchase'[p].competence =
              IF p \in chosen THEN Expected(p) ELSE purchase[p].competence
      BY <1>1, <2>1, ApplyTo
    <3> QED
      BY <3>1, <3>2 DEF InPeriod
  <2>2. ASSUME NEW a \in Admins, NEW chosen \in SUBSET Purchases, Rollback(a, chosen)
        PROVE  InPeriod(purchase', m) = InPeriod(purchase, m)
    <3>1. \A p \in chosen : purchase[p].competence # m /\ LastRepair(p).before # m
      BY <2>2 DEF Rollback, Revertible, Shut, TrustedClose
    <3>2. \A p \in Purchases : purchase'[p].competence =
              IF p \in chosen THEN LastRepair(p).before ELSE purchase[p].competence
      BY <1>1, <2>2, RollbackTo
    <3> QED
      BY <3>1, <3>2 DEF InPeriod
  <2>3. ASSUME NEW p \in Purchases, Doubt(p)
        PROVE  InPeriod(purchase', m) = InPeriod(purchase, m)
    BY <1>1, <2>3, DoubtTo DEF InPeriod
  <2>4. CASE \/ \E a \in Admins : Preview(a)
             \/ \E x \in Closable : Trust(x) \/ Reopen(x)
             \/ UNCHANGED crVars
    BY <1>1, <2>4, CrElse
  <2> QED
    BY <1>1, <2>1, <2>2, <2>3, <2>4 DEF CrNext
<1>2. CrInv /\ [CrNext]_crVars =>
        [\A m \in trusted : m \in trusted' => InPeriod(purchase', m) = InPeriod(purchase, m)]_crVars
  BY <1>1
<1> QED
  BY <1>2, CrAlways, PTL DEF CrSpec, TrustedMonthKeepsItsPurchases

-----------------------------------------------------------------------------
(* Classification rules.                                                    *)
LEMMA BackedGrows ==
  ASSUME NEW P, NEW Q, P \subseteq Q, IsFiniteSet(Q), NEW state, Backed(P, state)
  PROVE  Backed(Q, state)
<1>1. Cardinality(P) <= Cardinality(Q) /\ IsFiniteSet(P)
  BY FS_Subset
<1>2. Cardinality(P) \in Nat /\ Cardinality(Q) \in Nat
  BY <1>1, FS_CardinalityType
<1> QED
  BY <1>1, <1>2 DEF Backed, Threshold

(* A confirmed correction adds its transaction once, and the status that    *)
(* makes a rule eligible comes with three of them.                          *)
LEMMA CountedBacked ==
  ASSUME NEW P, IsFiniteSet(P), NEW t \in Txns, NEW old, Backed(P, old),
         NEW new, new = Raised(Counted(old, t))
  PROVE  /\ Backed(P \cup {t}, new) /\ new.cat = old.cat
         /\ (new.count # old.count) <=> (new.evidence # old.evidence)
         /\ new.count > 0
<1> DEFINE Q == P \cup {t}
<1>1. IsFiniteSet(Q) /\ Backed(Q, old)
  <2>1. IsFiniteSet(Q)
    BY FS_AddElement
  <2> QED
    BY <2>1, BackedGrows
<1> HIDE DEF Q
<1>2. PICK w : w = Counted(old, t)
  OBVIOUS
<1>3. /\ w \in RuleRows /\ IsFiniteSet(w.evidence) /\ Cardinality(w.evidence) = w.count
      /\ w.evidence \subseteq Q /\ w.cat = old.cat /\ w.status = old.status
      /\ w.active = old.active /\ w.count > 0
      /\ (w.count # old.count) <=> (w.evidence # old.evidence)
  <2>1. CASE t \in old.evidence
    <3>1. w = old
      BY <1>2, <2>1 DEF Counted
    <3>2. Cardinality(old.evidence) # 0
      BY <2>1, FS_EmptySet DEF Backed
    <3> QED
      BY <1>1, <3>1, <3>2 DEF Backed, RuleRows
  <2>2. CASE t \notin old.evidence
    <3>1. old \in RuleRows /\ IsFiniteSet(old.evidence) /\ old.evidence \subseteq Q
          /\ Cardinality(old.evidence) = old.count /\ old.count \in Nat
      BY <1>1 DEF Backed, RuleRows
    <3>2. w = [old EXCEPT !.count = @ + 1, !.evidence = @ \cup {t}]
      BY <1>2, <2>2 DEF Counted
    <3>3. /\ w.count = old.count + 1 /\ w.evidence = old.evidence \cup {t}
          /\ w.cat = old.cat /\ w.status = old.status /\ w.active = old.active
      BY <3>1, <3>2 DEF RuleRows
    <3>6. w \in RuleRows
      <4>1. old.count + 1 \in Nat /\ old.evidence \cup {t} \in SUBSET Txns
        BY <3>1 DEF RuleRows
      <4> QED
        BY <3>1, <3>2, <4>1 DEF RuleRows
    <3>4. IsFiniteSet(w.evidence) /\ Cardinality(w.evidence) = old.count + 1
      <4>1. IsFiniteSet(old.evidence \cup {t})
        BY <3>1, FS_AddElement
      <4>2. Cardinality(old.evidence \cup {t}) = Cardinality(old.evidence) + 1
        BY <2>2, <3>1, FS_AddElement
      <4> QED
        BY <3>1, <3>3, <4>1, <4>2
    <3>5. t \in Q
      BY DEF Q
    <3> QED
      BY <2>2, <3>1, <3>3, <3>4, <3>5, <3>6
  <2> QED
    BY <2>1, <2>2
<1>4. /\ new \in RuleRows /\ new.count = w.count /\ new.evidence = w.evidence /\ new.cat = w.cat
      /\ \/ new.status = w.status
         \/ new.status = "pending_acceptance" /\ w.count >= Threshold
         \/ new.status = "suggested"
  <2>1. new = Raised(w)
    BY <1>2
  <2> QED
    BY <1>3, <2>1 DEF Raised, RuleRows, Statuses
<1>5. Cardinality(w.evidence) <= Cardinality(Q) /\ Cardinality(Q) \in Nat /\ w.count \in Nat
  BY <1>1, <1>3, FS_Subset, FS_CardinalityType DEF RuleRows
<1>6. new.status \in AdminEligible => Cardinality(Q) >= Threshold
  BY <1>1, <1>3, <1>4, <1>5 DEF Backed, AdminEligible, Threshold
<1>7. Backed(Q, new)
  BY <1>3, <1>4, <1>6 DEF Backed
<1> QED
  BY <1>3, <1>4, <1>7 DEF Q

(* The columns one request writes over what another committed meanwhile.    *)
LEMMA OverlaidBacked ==
  ASSUME NEW Q, NEW state, Backed(Q, state), NEW old, Backed(Q, old), NEW new, Backed(Q, new),
         (new.count # old.count) <=> (new.evidence # old.evidence),
         new.count # old.count => new.count > 0,
         old.count > 0 => state.count > 0
  PROVE  /\ Backed(Q, Overlaid(state, old, new))
         /\ state.count > 0 => Overlaid(state, old, new).count > 0
<1>1. PICK o : o = Overlaid(state, old, new)
  OBVIOUS
<1>2. o = [k \in Columns |-> IF new[k] # old[k] THEN new[k] ELSE state[k]]
  BY <1>1 DEF Overlaid
<1>3. /\ o.cat = IF new.cat # old.cat THEN new.cat ELSE state.cat
      /\ o.count = IF new.count # old.count THEN new.count ELSE state.count
      /\ o.status = IF new.status # old.status THEN new.status ELSE state.status
      /\ o.active = IF new.active # old.active THEN new.active ELSE state.active
      /\ o.evidence = IF new.evidence # old.evidence THEN new.evidence ELSE state.evidence
  BY <1>2 DEF Columns
<1>4. o \in RuleRows
  <2>1. state \in RuleRows /\ new \in RuleRows
    BY DEF Backed
  <2>2. /\ o.cat \in Categories /\ o.count \in Nat /\ o.status \in Statuses
        /\ o.active \in BOOLEAN /\ o.evidence \in SUBSET Txns
    BY <1>3, <2>1 DEF RuleRows
  <2>3. o = [cat |-> o.cat, count |-> o.count, status |-> o.status, active |-> o.active,
             evidence |-> o.evidence]
    BY <1>2 DEF Columns
  <2> QED
    BY <2>2, <2>3 DEF RuleRows
<1>5. /\ IsFiniteSet(o.evidence) /\ Cardinality(o.evidence) = o.count /\ o.evidence \subseteq Q
  BY <1>3 DEF Backed
<1>6. o.status \in AdminEligible => Cardinality(Q) >= Threshold
  BY <1>3 DEF Backed
<1>7. o.status \in AdminEligible => o.count > 0
  BY <1>3 DEF Backed
<1>8. state.count > 0 => o.count > 0
  BY <1>3
<1> QED
  BY <1>1, <1>4, <1>5, <1>6, <1>7, <1>8 DEF Backed

(* An edit writes every column that would count for the old category.       *)
LEMMA EditedBacked ==
  ASSUME NEW P, NEW state \in RuleRows, NEW old, Backed(P, old), NEW c \in Categories,
         old.status \in AdminEligible
  PROVE  Backed({}, Overlaid(state, old, Edited(old, c)))
<1>1. PICK o, new : o = Overlaid(state, old, new) /\ new = Edited(old, c)
  OBVIOUS
<1>2. o = [k \in Columns |-> IF new[k] # old[k] THEN new[k] ELSE state[k]]
  BY <1>1 DEF Overlaid
<1>3. old.count \in Nat /\ old.count > 0 /\ old.status # "observed" /\ old.evidence # {}
  <2>1. old.count \in Nat /\ old.count > 0 /\ old.status # "observed"
        /\ Cardinality(old.evidence) = old.count
    BY DEF Backed, RuleRows, AdminEligible
  <2>2. Cardinality({}) = 0
    BY FS_EmptySet
  <2> QED
    BY <2>1, <2>2
<1>4. /\ new.count = 0 /\ new.status = "observed" /\ new.evidence = {}
      /\ new.cat = c /\ new.active = FALSE
  BY <1>1 DEF Edited
<1>9. /\ o.cat = IF new.cat # old.cat THEN new.cat ELSE state.cat
      /\ o.count = IF new.count # old.count THEN new.count ELSE state.count
      /\ o.status = IF new.status # old.status THEN new.status ELSE state.status
      /\ o.active = IF new.active # old.active THEN new.active ELSE state.active
      /\ o.evidence = IF new.evidence # old.evidence THEN new.evidence ELSE state.evidence
  BY <1>2 DEF Columns
<1>5. o.count = 0 /\ o.status = "observed" /\ o.evidence = {}
  BY <1>9, <1>3, <1>4
<1>10. o.cat \in Categories /\ o.active \in BOOLEAN
  <2>1. state.cat \in Categories /\ state.active \in BOOLEAN
    BY DEF RuleRows
  <2> QED
    BY <1>9, <1>4, <2>1
<1>6. o = [cat |-> o.cat, count |-> o.count, status |-> o.status, active |-> o.active,
           evidence |-> o.evidence]
  BY <1>2 DEF Columns
<1>7. o \in RuleRows
  <2>1. o.count \in Nat /\ o.status \in Statuses /\ o.evidence \in SUBSET Txns
    BY <1>5 DEF Statuses
  <2> QED
    BY <1>6, <1>10, <2>1 DEF RuleRows
<1>8. IsFiniteSet({}) /\ Cardinality({}) = 0
  BY FS_EmptySet
<1> QED
  BY <1>1, <1>5, <1>7, <1>8 DEF Backed, AdminEligible

LEMMA NewRuleBacked ==
  ASSUME NEW P, NEW c \in Categories, NEW t \in Txns
  PROVE  Backed(P \cup {t}, NewRule(c, t)) /\ NewRule(c, t).count > 0
<1>1. PICK w : w = NewRule(c, t)
  OBVIOUS
<1>2. w = [cat |-> c, count |-> 1, status |-> "observed", active |-> FALSE, evidence |-> {t}]
  BY <1>1 DEF NewRule
<1>3. w \in RuleRows /\ w.count = 1 /\ w.evidence = {t} /\ w.status = "observed"
  BY <1>2 DEF RuleRows, Statuses
<1>4. IsFiniteSet({t}) /\ Cardinality({t}) = 1
  BY FS_Singleton
<1> QED
  BY <1>1, <1>3, <1>4 DEF Backed, AdminEligible

LEMMA ClStart == ClInit => ClInv
<1> SUFFICES ASSUME ClInit PROVE ClInv
  OBVIOUS
<1>1. RulesSound /\ SessionsSound
  BY DEF ClInit, RulesSound, SessionsSound, Known
<1>2. proof = [r \in Rules |-> proof[r]] /\ \A r \in Rules : IsFiniteSet(proof[r])
  BY FS_EmptySet DEF ClInit
<1> QED
  BY <1>1, <1>2 DEF ClInit, ClInv

LEMMA ClClassify ==
  ASSUME ClInv, NEW t \in Txns, Classify(t)
  PROVE  ClInv'
<1>1. UNCHANGED <<rule, session, proof, raced>>
  BY DEF Classify
<1>2. \A r \in Rules : Known(r)' = Known(r)
  BY <1>1 DEF Known
<1>3. \A s \in Sessions : session[s].rule \in Rules => SessionSound(s)' = SessionSound(s)
  BY <1>1, <1>2 DEF SessionSound
<1>4. \A s \in Sessions : SessionSound(s) => session[s].rule \in Rules
  BY DEF SessionSound
<1> QED
  BY <1>1, <1>2, <1>3, <1>4 DEF ClInv, RulesSound, SessionsSound

(* A request that opens has read the committed row.                         *)
LEMMA ClOpen ==
  ASSUME ClInv, NEW s \in Sessions, NEW request, Open(s, request),
         request.rule \in Rules,
         request.old = Nothing =>
           \E c \in Categories, t \in Txns : request.txn = t /\ request.new = NewRule(c, t),
         request.old # Nothing =>
           /\ request.old = rule[request.rule]
           /\ \/ \E t \in Txns : request.txn = t /\ request.new = Raised(Counted(request.old, t))
              \/ /\ request.txn = Nothing
                 /\ request.old.status \in AdminEligible
                 /\ \/ request.new \in {Accepted(request.old), Deactivated(request.old)}
                    \/ \E c \in Categories \ {request.old.cat} :
                           request.new = Edited(request.old, c)
  PROVE  ClInv'
<1>1. UNCHANGED <<rule, proof, raced>>
  BY DEF Open
<1>2. \A r \in Rules : Known(r)' = Known(r)
  BY <1>1 DEF Known
<1>3. /\ session' = [o \in Sessions |-> session'[o]]
      /\ session'[s] = request
      /\ \A o \in Sessions \ {s} : session'[o] = session[o]
  BY DEF Open, ClInv
<1>4. RulesSound'
  BY <1>1, <1>2 DEF ClInv, RulesSound
<1>5. ASSUME NEW o \in Sessions, session'[o] # Nothing, session'[o].rule \notin raced
      PROVE  SessionSound(o)'
  <2>1. CASE o = s
    <3>1. request.old # Nothing => Known(request.rule) /\ Backed(proof[request.rule], request.old)
      BY <1>1, <1>3, <1>5, <2>1 DEF ClInv, RulesSound, Known
    <3> QED
      BY <1>1, <1>2, <1>3, <2>1, <3>1 DEF SessionSound
  <2>2. CASE o # s
    <3>1. session'[o] = session[o] /\ SessionSound(o)
      BY <1>3, <1>5, <2>2 DEF ClInv, SessionsSound
    <3>2. session[o].rule \in Rules
      BY <3>1 DEF SessionSound
    <3> QED
      BY <1>1, <1>2, <3>1, <3>2 DEF SessionSound
  <2> QED
    BY <2>1, <2>2
<1>6. SessionsSound'
  BY <1>1, <1>5 DEF SessionsSound
<1> QED
  BY <1>1, <1>3, <1>4, <1>6 DEF ClInv

LEMMA ClCorrect ==
  ASSUME ClInv, NEW s \in Sessions, NEW t \in Txns, NEW c \in Categories, Correct(s, t, c)
  PROVE  ClInv'
<1>1. CASE \E r \in Free : Open(s, [txn |-> t, rule |-> r, old |-> Nothing,
                                    new |-> NewRule(c, t)])
  <2>1. PICK r \in Free : Open(s, [txn |-> t, rule |-> r, old |-> Nothing,
                                   new |-> NewRule(c, t)])
    BY <1>1
  <2>2. r \in Rules
    <3>1. Free \subseteq Unborn
      BY DEF Free
    <3> QED
      BY <3>1 DEF Unborn
  <2>3. PICK q : q = [txn |-> t, rule |-> r, old |-> Nothing, new |-> NewRule(c, t)]
    OBVIOUS
  <2>4. q.txn = t /\ q.rule = r /\ q.old = Nothing /\ q.new = NewRule(c, t) /\ Open(s, q)
    BY <2>1, <2>3
  <2> QED
    BY <2>2, <2>4, ClOpen
<1>2. CASE \E r \in RulesOf(c) : Open(s, [txn |-> t, rule |-> r, old |-> rule[r],
                                          new |-> Raised(Counted(rule[r], t))])
  <2>1. PICK r \in RulesOf(c) : Open(s, [txn |-> t, rule |-> r, old |-> rule[r],
                                         new |-> Raised(Counted(rule[r], t))])
    BY <1>2
  <2>2. r \in Rules /\ Known(r)
    BY DEF RulesOf
  <2>3. PICK q : q = [txn |-> t, rule |-> r, old |-> rule[r],
                      new |-> Raised(Counted(rule[r], t))]
    OBVIOUS
  <2>4. /\ q.txn = t /\ q.rule = r /\ q.old = rule[r] /\ q.old # Nothing
        /\ q.new = Raised(Counted(q.old, t)) /\ Open(s, q)
    BY <2>1, <2>2, <2>3 DEF Known
  <2> QED
    BY <2>2, <2>4, ClOpen
<1> QED
  BY <1>1, <1>2 DEF Correct

LEMMA ClAdminister ==
  ASSUME ClInv, NEW s \in Sessions, NEW r \in Rules, Administer(s, r)
  PROVE  ClInv'
<1>1. PICK new : /\ Open(s, Request(r, new)) /\ rule[r].status \in AdminEligible
                 /\ \/ new \in {Accepted(rule[r]), Deactivated(rule[r])}
                    \/ \E c \in Categories \ {rule[r].cat} : new = Edited(rule[r], c)
  <2>1. CASE Acceptable(rule[r]) /\ Open(s, Request(r, Accepted(rule[r])))
    BY <2>1 DEF Acceptable, AdminEligible
  <2>2. CASE rule[r].status = "active" /\ Open(s, Request(r, Deactivated(rule[r])))
    BY <2>2 DEF AdminEligible
  <2>3. CASE /\ rule[r].status \in AdminEligible
             /\ \E c \in Categories \ {rule[r].cat} : Open(s, Request(r, Edited(rule[r], c)))
    BY <2>3
  <2> QED
    BY <2>1, <2>2, <2>3 DEF Administer
<1>2. PICK q : q = Request(r, new)
  OBVIOUS
<1>3. q.txn = Nothing /\ q.rule = r /\ q.old = rule[r] /\ q.old # Nothing /\ q.new = new
  BY <1>2 DEF Request, Administer, Known
<1>4. Open(s, q)
  BY <1>1, <1>2
<1> QED
  BY <1>1, <1>3, <1>4, ClOpen

(* The rule a request leaves, when no edit raced it.                        *)
LEMMA Leaves ==
  ASSUME ClInv, NEW s \in Sessions, NEW w, w = session[s], w # Nothing,
         NEW r, r = w.rule, r \notin raced
  PROVE  /\ r \in Rules
         /\ IsFiniteSet(Proved(w))
         /\ Backed(Proved(w), Written(w))
         /\ ~Moves(w) => /\ proof[r] \subseteq Proved(w)
                         /\ w.old = Nothing \/ rule[r].count > 0 => Written(w).count > 0
<1>1. SessionSound(s) /\ r \in Rules
  BY DEF ClInv, SessionsSound, SessionSound
<1> DEFINE P == proof[r]
<1>2. IsFiniteSet(P)
  BY <1>1 DEF ClInv
<1>3. CASE w.old = Nothing
  <2>1. PICK c \in Categories, t \in Txns : w.txn = t /\ w.new = NewRule(c, t)
    BY <1>1, <1>3 DEF SessionSound
  <2>2. t # Nothing
    BY RulesAssumption
  <2>3. ~Moves(w) /\ Proved(w) = P \cup {t} /\ Written(w) = NewRule(c, t)
    BY <1>3, <2>1, <2>2 DEF Moves, Proved, Written
  <2>4. IsFiniteSet(P \cup {t})
    BY <1>2, FS_AddElement
  <2>5. Backed(P \cup {t}, NewRule(c, t)) /\ NewRule(c, t).count > 0
    BY NewRuleBacked
  <2> QED
    BY <1>1, <1>2, <2>3, <2>4, <2>5
<1>4. CASE w.old # Nothing
  <2>1. /\ Backed(P, w.old) /\ Known(r) /\ (w.old.count > 0 => rule[r].count > 0)
        /\ Backed(P, rule[r]) /\ Written(w) = Overlaid(rule[r], w.old, w.new)
    BY <1>1, <1>4 DEF SessionSound, ClInv, RulesSound, Written
  <2>2. PICK old, new : old = w.old /\ new = w.new
    OBVIOUS
  <2>3. CASE \E t \in Txns : w.txn = t /\ w.new = Raised(Counted(w.old, t))
    <3>1. PICK t \in Txns : w.txn = t /\ w.new = Raised(Counted(w.old, t))
      BY <2>3
    <3>2. /\ Backed(P \cup {t}, new) /\ new.cat = old.cat
          /\ (new.count # old.count) <=> (new.evidence # old.evidence)
          /\ new.count > 0
      <4> Backed(P, old) /\ new = Raised(Counted(old, t))
        BY <2>1, <2>2, <3>1
      <4> HIDE DEF P
      <4> QED
        BY <1>2, CountedBacked
    <3>3. t # Nothing
      BY RulesAssumption
    <3>4. ~Moves(w) /\ Proved(w) = P \cup {t}
      BY <2>2, <3>1, <3>2, <3>3 DEF Moves, Proved
    <3>5. IsFiniteSet(P \cup {t}) /\ P \subseteq P \cup {t}
      BY <1>2, FS_AddElement
    <3>6. Backed(P \cup {t}, old) /\ Backed(P \cup {t}, rule[r])
      BY <2>1, <2>2, <3>5, BackedGrows
    <3>7. /\ Backed(P \cup {t}, Overlaid(rule[r], old, new))
          /\ rule[r].count > 0 => Overlaid(rule[r], old, new).count > 0
      BY <2>1, <2>2, <3>2, <3>6, OverlaidBacked
    <3> QED
      BY <1>1, <1>2, <1>4, <2>1, <2>2, <3>4, <3>5, <3>7
  <2>4. CASE /\ w.txn = Nothing /\ w.old.status \in AdminEligible
             /\ w.new \in {Accepted(w.old), Deactivated(w.old)}
    <3>1. old \in RuleRows
      BY <2>1, <2>2 DEF Backed
    <3>2. /\ new \in RuleRows /\ new.cat = old.cat /\ new.count = old.count
          /\ new.evidence = old.evidence /\ new.status \in AdminEligible
      BY <2>2, <2>4, <3>1 DEF Accepted, Deactivated, RuleRows, Statuses, AdminEligible
    <3>3. Backed(P, new)
      BY <2>1, <2>2, <2>4, <3>2 DEF Backed
    <3>4. ~Moves(w) /\ Proved(w) = P
      BY <2>2, <2>4, <3>2 DEF Moves, Proved
    <3>5. /\ Backed(P, Overlaid(rule[r], old, new))
          /\ rule[r].count > 0 => Overlaid(rule[r], old, new).count > 0
      BY <2>1, <2>2, <3>2, <3>3, OverlaidBacked
    <3> QED
      BY <1>1, <1>2, <1>4, <2>1, <2>2, <3>4, <3>5
  <2>5. CASE /\ w.txn = Nothing /\ w.old.status \in AdminEligible
             /\ \E c \in Categories \ {w.old.cat} : w.new = Edited(w.old, c)
    <3>1. PICK c \in Categories \ {w.old.cat} : w.new = Edited(w.old, c)
      BY <2>5
    <3>2. Moves(w) /\ Proved(w) = {}
      BY <1>4, <3>1 DEF Moves, Proved, Edited
    <3>3. rule[r] \in RuleRows
      BY <2>1 DEF Backed
    <3>4. Backed({}, Overlaid(rule[r], w.old, w.new))
      BY <2>1, <2>5, <3>1, <3>3, EditedBacked
    <3> QED
      BY <1>1, <2>1, <3>2, <3>4, FS_EmptySet
  <2> QED
    BY <1>1, <1>4, <2>3, <2>4, <2>5 DEF SessionSound
<1> QED
  BY <1>3, <1>4
LEMMA ClSave ==
  ASSUME ClInv, NEW s \in Sessions, Save(s)
  PROVE  ClInv'
<1>1. PICK w, r : w = session[s] /\ r = w.rule
  OBVIOUS
<1>2. /\ w # Nothing
      /\ rule' = [rule EXCEPT ![r] = Written(w)]
      /\ session' = [session EXCEPT ![s] = Nothing]
      /\ proof' = [proof EXCEPT ![r] = Proved(w)]
      /\ raced' = IF Moves(w) /\ Others(s, r) # {} THEN raced \cup {r} ELSE raced
  BY <1>1 DEF Save
<1>3. /\ rule' = [q \in Rules |-> rule'[q]] /\ session' = [o \in Sessions |-> session'[o]]
      /\ \A q \in Rules \ {r} : rule'[q] = rule[q] /\ proof'[q] = proof[q]
      /\ session'[s] = Nothing
      /\ \A o \in Sessions \ {s} : session'[o] = session[o]
      /\ raced \subseteq raced'
      /\ r \in Rules => rule'[r] = Written(w) /\ proof'[r] = Proved(w)
  BY <1>2 DEF ClInv
<1>4. r \notin raced =>
        /\ r \in Rules
        /\ IsFiniteSet(Proved(w))
        /\ Backed(Proved(w), Written(w))
        /\ ~Moves(w) => /\ proof[r] \subseteq Proved(w)
                        /\ w.old = Nothing \/ rule[r].count > 0 => Written(w).count > 0
  BY <1>1, <1>2, Leaves
<1>5. RulesSound'
  <2> SUFFICES ASSUME NEW q \in Rules, q \notin raced', rule'[q] # Nothing
               PROVE  Backed(proof'[q], rule'[q])
    BY DEF RulesSound, Known
  <2>1. CASE q = r
    BY <1>3, <1>4, <2>1
  <2>2. CASE q # r
    BY <1>3, <2>2 DEF ClInv, RulesSound, Known
  <2> QED
    BY <2>1, <2>2
<1>6. ASSUME NEW o \in Sessions, session'[o] # Nothing, session'[o].rule \notin raced'
      PROVE  SessionSound(o)'
  <2>1. PICK v, q : v = session[o] /\ q = v.rule
    OBVIOUS
  <2>2. o # s /\ session'[o] = v /\ q \notin raced /\ SessionSound(o) /\ q \in Rules
    BY <1>3, <1>6, <2>1 DEF ClInv, SessionsSound, SessionSound
  <2>3. v.old # Nothing =>
          /\ Backed(proof'[q], v.old) /\ rule'[q] # Nothing
          /\ v.old.count > 0 => rule'[q].count > 0
    <3>1. CASE q # r
      BY <1>3, <2>1, <2>2, <3>1 DEF SessionSound, Known
    <3>2. CASE q = r
      <4>1. o \in Others(s, r)
        BY <1>3, <1>6, <2>1, <2>2, <3>2 DEF Others
      <4>2. ~Moves(w)
        <5>1. r \notin raced'
          BY <1>6, <2>1, <2>2, <3>2
        <5>2. Others(s, r) # {}
          BY <4>1
        <5> QED
          BY <1>2, <5>1, <5>2
      <4>3. r \notin raced /\ Written(w) \in RuleRows
        BY <1>4, <2>2, <3>2 DEF Backed
      <4>4. rule'[r] # Nothing
        BY <1>3, <1>4, <4>3, RulesAssumption DEF RuleRows
      <4>5. ASSUME v.old # Nothing
            PROVE  Backed(proof'[q], v.old) /\ (v.old.count > 0 => rule'[q].count > 0)
        <5>1. Backed(proof[r], v.old) /\ (v.old.count > 0 => rule[r].count > 0)
          BY <2>1, <2>2, <3>2, <4>5 DEF SessionSound
        <5>2. Backed(Proved(w), v.old)
          BY <1>4, <4>2, <4>3, <5>1, BackedGrows
        <5> QED
          BY <1>3, <1>4, <3>2, <4>2, <4>3, <5>1, <5>2
      <4> QED
        BY <3>2, <4>4, <4>5
    <3> QED
      BY <3>1, <3>2
  <2> QED
    BY <2>1, <2>2, <2>3 DEF SessionSound, Known
<1>7. SessionsSound'
  BY <1>6 DEF SessionsSound
<1>8. proof' = [q \in Rules |-> proof'[q]] /\ \A q \in Rules : IsFiniteSet(proof'[q])
  <2>1. ASSUME r \in Rules PROVE IsFiniteSet(Proved(w))
    <3>1. IsFiniteSet(proof[r])
      BY <2>1 DEF ClInv
    <3>2. IsFiniteSet(proof[r] \cup {w.txn})
      BY <3>1, FS_AddElement
    <3>3. IsFiniteSet({})
      BY FS_EmptySet
    <3> QED
      BY <1>1, <3>1, <3>2, <3>3 DEF Proved
  <2> QED
    BY <1>2, <1>3, <2>1 DEF ClInv
<1> QED
  BY <1>3, <1>5, <1>7, <1>8 DEF ClInv

LEMMA ClRefused ==
  ASSUME ClInv, NEW s \in Sessions, Refused(s)
  PROVE  ClInv'
<1>1. UNCHANGED <<rule, proof, raced>> /\ session' = [session EXCEPT ![s] = Nothing]
  BY DEF Refused
<1>2. /\ session' = [o \in Sessions |-> session'[o]] /\ session'[s] = Nothing
      /\ \A o \in Sessions \ {s} : session'[o] = session[o]
  BY <1>1 DEF ClInv
<1>3. \A r \in Rules : Known(r)' = Known(r)
  BY <1>1 DEF Known
<1>4. RulesSound'
  BY <1>1, <1>3 DEF ClInv, RulesSound
<1>5. ASSUME NEW o \in Sessions, session'[o] # Nothing, session'[o].rule \notin raced
      PROVE  SessionSound(o)'
  <2>1. session'[o] = session[o] /\ SessionSound(o)
    BY <1>2, <1>5 DEF ClInv, SessionsSound
  <2>2. session[o].rule \in Rules
    BY <2>1 DEF SessionSound
  <2> QED
    BY <1>1, <1>3, <2>1, <2>2 DEF SessionSound
<1>6. SessionsSound'
  BY <1>1, <1>5 DEF SessionsSound
<1> QED
  BY <1>1, <1>2, <1>4, <1>6 DEF ClInv

LEMMA ClStutter == ClInv /\ UNCHANGED clVars => ClInv'
<1> SUFFICES ASSUME ClInv, UNCHANGED clVars PROVE ClInv'
  OBVIOUS
<1>1. UNCHANGED <<rule, session, proof, raced>>
  BY DEF clVars
<1>2. \A r : Known(r)' = Known(r)
  BY <1>1 DEF Known
<1>3. RulesSound' /\ SessionsSound'
  BY <1>1, <1>2 DEF ClInv, RulesSound, SessionsSound, SessionSound
<1> QED
  BY <1>1, <1>3 DEF ClInv

LEMMA ClStep == ClInv /\ [ClNext]_clVars => ClInv'
  BY ClClassify, ClCorrect, ClAdminister, ClSave, ClRefused, ClStutter DEF ClNext

(* A rule that classifies new transactions was confirmed by three distinct  *)
(* ones for the category it has, for any number of requests on it at once,  *)
(* unless an edit overlapped another of them.                               *)
THEOREM AppliedRulesAreConfirmed == ClSpec => []AppliedRuleWasConfirmed
<1>1. ClInv => AppliedRuleWasConfirmed
  BY DEF ClInv, RulesSound, AppliedRuleWasConfirmed, Applied, Backed, AdminEligible
<1> QED
  BY <1>1, ClStart, ClStep, PTL DEF ClSpec

(* A rule counts its evidence, raced or not: a request writes the count and *)
(* the evidence together.                                                   *)
SoundRow(x) == x \in RuleRows /\ Cardinality(x.evidence) = x.count
Together(old, new) == (new.count # old.count) <=> (new.evidence # old.evidence)
RequestTyped(w) ==
    /\ w.rule \in Rules /\ w.txn \in Txns \cup {Nothing} /\ SoundRow(w.new)
    /\ w.old # Nothing => Known(w.rule) /\ SoundRow(w.old) /\ Together(w.old, w.new)
ClTyped ==
    /\ category \in [Txns -> Categories \cup {Review, Nothing}]
    /\ \A r \in Rules : Known(r) => SoundRow(rule[r])
    /\ \A s \in Sessions : session[s] # Nothing => RequestTyped(session[s])
    /\ rule = [r \in Rules |-> rule[r]] /\ session = [s \in Sessions |-> session[s]]
    /\ proof \in [Rules -> SUBSET Txns]
    /\ raced \subseteq Rules
    /\ requests \in 0 .. MaxRequests

LEMMA CountedSound ==
  ASSUME NEW old, SoundRow(old), NEW t \in Txns, NEW new, new = Raised(Counted(old, t))
  PROVE  SoundRow(new) /\ Together(old, new)
<1>1. PICK w : w = Counted(old, t)
  OBVIOUS
<1>2. /\ old \in RuleRows /\ IsFiniteSet(old.evidence) /\ Cardinality(old.evidence) = old.count
      /\ old.count \in Nat /\ old.evidence \subseteq Txns
  BY RulesAssumption, FS_Subset DEF SoundRow, RuleRows
<1>3. SoundRow(w) /\ Together(old, w)
  <2>1. CASE t \in old.evidence
    <3>1. w = old
      BY <1>1, <2>1 DEF Counted
    <3> QED
      BY <3>1 DEF Together
  <2>2. CASE t \notin old.evidence
    <3>1. w = [old EXCEPT !.count = @ + 1, !.evidence = @ \cup {t}]
      BY <1>1, <2>2 DEF Counted
    <3>2. w.count = old.count + 1 /\ w.evidence = old.evidence \cup {t}
      BY <1>2, <3>1 DEF RuleRows
    <3>3. w \in RuleRows
      <4>1. old.count + 1 \in Nat /\ old.evidence \cup {t} \in SUBSET Txns
        BY <1>2
      <4> QED
        BY <1>2, <3>1, <4>1 DEF RuleRows
    <3>4. Cardinality(old.evidence \cup {t}) = Cardinality(old.evidence) + 1
      BY <1>2, <2>2, FS_AddElement
    <3>5. w.count # old.count /\ w.evidence # old.evidence
      BY <1>2, <2>2, <3>2
    <3> QED
      BY <1>2, <3>2, <3>3, <3>4, <3>5 DEF SoundRow, Together
  <2> QED
    BY <2>1, <2>2
<1>4. new \in RuleRows /\ new.count = w.count /\ new.evidence = w.evidence
  <2>1. new = Raised(w) /\ w \in RuleRows
    BY <1>1, <1>3 DEF SoundRow
  <2> QED
    BY <2>1 DEF Raised, RuleRows, Statuses
<1> QED
  BY <1>3, <1>4 DEF SoundRow, Together

\* What an administrator's request writes.
LEMMA AdministeredSound ==
  ASSUME NEW old, SoundRow(old), NEW new,
         \/ new \in {Accepted(old), Deactivated(old)}
         \/ \E c \in Categories : new = Edited(old, c)
  PROVE  SoundRow(new) /\ Together(old, new)
<1>1. old \in RuleRows /\ Cardinality(old.evidence) = old.count /\ IsFiniteSet(old.evidence)
  BY RulesAssumption, FS_Subset DEF SoundRow, RuleRows
<1>2. CASE new \in {Accepted(old), Deactivated(old)}
  <2>1. new \in RuleRows /\ new.count = old.count /\ new.evidence = old.evidence
    BY <1>1, <1>2 DEF Accepted, Deactivated, RuleRows, Statuses
  <2> QED
    BY <1>1, <2>1 DEF SoundRow, Together
<1>3. CASE \E c \in Categories : new = Edited(old, c)
  <2>1. PICK c \in Categories : new = [cat |-> c, count |-> 0, status |-> "observed",
                                       active |-> FALSE, evidence |-> {}]
    BY <1>3 DEF Edited
  <2>2. new \in RuleRows /\ new.count = 0 /\ new.evidence = {}
    BY <2>1 DEF RuleRows, Statuses
  <2>3. Cardinality({}) = 0 /\ (Cardinality(old.evidence) = 0 <=> old.evidence = {})
    BY <1>1, FS_EmptySet
  <2> QED
    BY <1>1, <2>2, <2>3 DEF SoundRow, Together
<1> QED
  BY <1>2, <1>3

LEMMA OverlaidSound ==
  ASSUME NEW state, SoundRow(state), NEW old, NEW new, SoundRow(new), Together(old, new)
  PROVE  SoundRow(Overlaid(state, old, new))
<1>1. PICK o : o = Overlaid(state, old, new)
  OBVIOUS
<1>2. o = [k \in Columns |-> IF new[k] # old[k] THEN new[k] ELSE state[k]]
  BY <1>1 DEF Overlaid
<1>3. /\ o.cat = IF new.cat # old.cat THEN new.cat ELSE state.cat
      /\ o.count = IF new.count # old.count THEN new.count ELSE state.count
      /\ o.status = IF new.status # old.status THEN new.status ELSE state.status
      /\ o.active = IF new.active # old.active THEN new.active ELSE state.active
      /\ o.evidence = IF new.evidence # old.evidence THEN new.evidence ELSE state.evidence
  BY <1>2 DEF Columns
<1>4. o \in RuleRows
  <2>1. state \in RuleRows /\ new \in RuleRows
    BY DEF SoundRow
  <2>2. /\ o.cat \in Categories /\ o.count \in Nat /\ o.status \in Statuses
        /\ o.active \in BOOLEAN /\ o.evidence \in SUBSET Txns
    BY <1>3, <2>1 DEF RuleRows
  <2>3. o = [cat |-> o.cat, count |-> o.count, status |-> o.status, active |-> o.active,
             evidence |-> o.evidence]
    BY <1>2 DEF Columns
  <2> QED
    BY <2>2, <2>3 DEF RuleRows
<1>5. Cardinality(o.evidence) = o.count
  BY <1>3 DEF SoundRow, Together
<1> QED
  BY <1>1, <1>4, <1>5 DEF SoundRow

LEMMA NewRuleSound ==
  ASSUME NEW c \in Categories, NEW t \in Txns
  PROVE  SoundRow(NewRule(c, t))
  BY NewRuleBacked DEF Backed, SoundRow

LEMMA ClTypedStart == ClInit => ClTyped
  BY RulesAssumption DEF ClInit, ClTyped, Known

LEMMA OpenTyped ==
  ASSUME ClTyped, NEW s \in Sessions, NEW request, Open(s, request), RequestTyped(request)
  PROVE  ClTyped'
<1>1. /\ UNCHANGED <<category, rule, proof, raced>> /\ requests' \in 0 .. MaxRequests
      /\ session' = [session EXCEPT ![s] = request]
  BY RulesAssumption DEF Open, ClTyped
<1>2. \A r \in Rules : Known(r)' = Known(r)
  BY <1>1 DEF Known
<1>3. ASSUME NEW o \in Sessions, session'[o] # Nothing PROVE RequestTyped(session[o])'
  <2>1. PICK v : v = session'[o]
    OBVIOUS
  <2>2. RequestTyped(v)
    BY <1>1, <1>3, <2>1 DEF ClTyped
  <2> QED
    BY <1>2, <2>1, <2>2 DEF RequestTyped
<1>4. session' = [o \in Sessions |-> session'[o]]
  BY <1>1 DEF ClTyped
<1>5. \A r \in Rules : Known(r)' => SoundRow(rule'[r])
  BY <1>1, <1>2 DEF ClTyped
<1> QED
  BY <1>1, <1>3, <1>4, <1>5 DEF ClTyped

LEMMA CorrectTyped ==
  ASSUME ClTyped, NEW s \in Sessions, NEW t \in Txns, NEW c \in Categories, Correct(s, t, c)
  PROVE  ClTyped'
<1>1. CASE \E r \in Free : Open(s, [txn |-> t, rule |-> r, old |-> Nothing,
                                    new |-> NewRule(c, t)])
  <2>1. PICK r \in Free : Open(s, [txn |-> t, rule |-> r, old |-> Nothing,
                                   new |-> NewRule(c, t)])
    BY <1>1
  <2>2. r \in Rules
    BY DEF Free, Unborn
  <2>3. PICK q : q = [txn |-> t, rule |-> r, old |-> Nothing, new |-> NewRule(c, t)]
    OBVIOUS
  <2>4. q.txn = t /\ q.rule = r /\ q.old = Nothing /\ q.new = NewRule(c, t) /\ Open(s, q)
    BY <2>1, <2>3
  <2>5. RequestTyped(q)
    BY <2>2, <2>4, NewRuleSound DEF RequestTyped
  <2> QED
    BY <2>4, <2>5, OpenTyped
<1>2. CASE \E r \in RulesOf(c) : Open(s, [txn |-> t, rule |-> r, old |-> rule[r],
                                          new |-> Raised(Counted(rule[r], t))])
  <2>1. PICK r \in RulesOf(c) : Open(s, [txn |-> t, rule |-> r, old |-> rule[r],
                                         new |-> Raised(Counted(rule[r], t))])
    BY <1>2
  <2>2. r \in Rules /\ Known(r) /\ SoundRow(rule[r])
    BY DEF RulesOf, ClTyped
  <2>3. PICK q : q = [txn |-> t, rule |-> r, old |-> rule[r],
                      new |-> Raised(Counted(rule[r], t))]
    OBVIOUS
  <2>4. /\ q.txn = t /\ q.rule = r /\ q.old = rule[r]
        /\ q.new = Raised(Counted(q.old, t)) /\ Open(s, q)
    BY <2>1, <2>3
  <2>5. SoundRow(q.new) /\ Together(q.old, q.new)
    BY <2>2, <2>4, CountedSound
  <2>6. RequestTyped(q)
    BY <2>2, <2>4, <2>5 DEF RequestTyped
  <2> QED
    BY <2>4, <2>6, OpenTyped
<1> QED
  BY <1>1, <1>2 DEF Correct

LEMMA AdministerTyped ==
  ASSUME ClTyped, NEW s \in Sessions, NEW r \in Rules, Administer(s, r)
  PROVE  ClTyped'
<1>1. PICK new : /\ Open(s, Request(r, new))
                 /\ \/ new \in {Accepted(rule[r]), Deactivated(rule[r])}
                    \/ \E c \in Categories : new = Edited(rule[r], c)
  BY DEF Administer
<1>2. PICK q : q = Request(r, new)
  OBVIOUS
<1>3. q.txn = Nothing /\ q.rule = r /\ q.old = rule[r] /\ q.new = new /\ Open(s, q)
  BY <1>1, <1>2 DEF Request
<1>4. Known(r) /\ SoundRow(rule[r])
  BY DEF Administer, ClTyped
<1>5. SoundRow(new) /\ Together(rule[r], new)
  BY <1>1, <1>4, AdministeredSound
<1>6. RequestTyped(q)
  BY <1>3, <1>4, <1>5 DEF RequestTyped
<1> QED
  BY <1>3, <1>6, OpenTyped

LEMMA SaveTyped ==
  ASSUME ClTyped, NEW s \in Sessions, Save(s)
  PROVE  ClTyped'
<1>1. PICK w, r, x : w = session[s] /\ r = w.rule /\ x = Written(w)
  OBVIOUS
<1>2. /\ w # Nothing /\ requests' = requests
      /\ rule' = [rule EXCEPT ![r] = x]
      /\ session' = [session EXCEPT ![s] = Nothing]
      /\ proof' = [proof EXCEPT ![r] = Proved(w)]
      /\ raced' = IF Moves(w) /\ Others(s, r) # {} THEN raced \cup {r} ELSE raced
      /\ category' = IF w.txn = Nothing THEN category ELSE [category EXCEPT ![w.txn] = w.new.cat]
  BY <1>1 DEF Save
<1>3. RequestTyped(w) /\ r \in Rules
  BY <1>1, <1>2 DEF ClTyped, RequestTyped
<1>4. SoundRow(x) /\ x # Nothing
  <2>1. SoundRow(x)
    <3>1. CASE w.old = Nothing
      BY <1>1, <1>3, <3>1 DEF Written, RequestTyped
    <3>2. CASE w.old # Nothing
      <4>1. SoundRow(rule[r]) /\ SoundRow(w.new) /\ Together(w.old, w.new)
        BY <1>1, <1>3, <3>2 DEF RequestTyped, ClTyped
      <4>2. x = Overlaid(rule[r], w.old, w.new)
        BY <1>1, <3>2 DEF Written
      <4> QED
        BY <4>1, <4>2, OverlaidSound
    <3> QED
      BY <3>1, <3>2
  <2> QED
    BY <2>1, RulesAssumption DEF SoundRow, RuleRows
<1>5. \A q \in Rules : rule'[q] = IF q = r THEN x ELSE rule[q]
  BY <1>2 DEF ClTyped
<1>6. \A q \in Rules : Known(q)' => SoundRow(rule'[q])
  BY <1>4, <1>5 DEF ClTyped, Known
<1>7. \A q \in Rules : Known(q) => Known(q)'
  BY <1>4, <1>5 DEF Known
<1>8. ASSUME NEW o \in Sessions, session'[o] # Nothing PROVE RequestTyped(session[o])'
  <2>1. PICK v : v = session[o]
    OBVIOUS
  <2>2. session'[o] = v /\ RequestTyped(v)
    BY <1>2, <1>8, <2>1 DEF ClTyped
  <2> QED
    BY <1>7, <2>2 DEF RequestTyped
<1>9. w.new.cat \in Categories
  BY <1>3 DEF RequestTyped, SoundRow, RuleRows
<1>10. category' \in [Txns -> Categories \cup {Review, Nothing}]
  BY <1>2, <1>9 DEF ClTyped
<1>11. Proved(w) \in SUBSET Txns
  <2>1. proof[w.rule] \in SUBSET Txns
    BY <1>1, <1>3 DEF ClTyped
  <2> QED
    BY <1>3, <2>1 DEF Proved, RequestTyped
<1>12. proof' \in [Rules -> SUBSET Txns] /\ raced' \subseteq Rules
  BY <1>2, <1>3, <1>11 DEF ClTyped
<1>13. rule' = [q \in Rules |-> rule'[q]] /\ session' = [o \in Sessions |-> session'[o]]
  BY <1>2 DEF ClTyped
<1> QED
  BY <1>2, <1>6, <1>8, <1>10, <1>12, <1>13 DEF ClTyped

LEMMA ClTypedStep == ClTyped /\ [ClNext]_clVars => ClTyped'
<1> SUFFICES ASSUME ClTyped, [ClNext]_clVars PROVE ClTyped'
  OBVIOUS
<1>1. ASSUME NEW t \in Txns, Classify(t) PROVE ClTyped'
  <2>1. UNCHANGED <<rule, session, proof, raced, requests>>
    BY <1>1 DEF Classify
  <2>2. Classified \subseteq Categories \cup {Review}
    BY DEF Classified, Applied, ClTyped, SoundRow, RuleRows
  <2>3. category' \in [Txns -> Categories \cup {Review, Nothing}]
    BY <1>1, <2>2 DEF Classify, ClTyped
  <2> QED
    BY <2>1, <2>3 DEF ClTyped, RequestTyped, Known
<1>2. ASSUME NEW s \in Sessions, Refused(s) PROVE ClTyped'
  <2>1. /\ UNCHANGED <<category, rule, proof, raced, requests>>
        /\ session' = [session EXCEPT ![s] = Nothing]
    BY <1>2 DEF Refused
  <2>2. ASSUME NEW o \in Sessions, session'[o] # Nothing PROVE RequestTyped(session[o])'
    <3>1. session'[o] = session[o] /\ RequestTyped(session[o])
      BY <2>1, <2>2 DEF ClTyped
    <3> QED
      BY <2>1, <3>1 DEF RequestTyped, Known
  <2>3. session' = [o \in Sessions |-> session'[o]]
    BY <2>1 DEF ClTyped
  <2> QED
    BY <2>1, <2>2, <2>3 DEF ClTyped, Known
<1>3. ASSUME UNCHANGED clVars PROVE ClTyped'
  BY <1>3 DEF clVars, ClTyped, RequestTyped, Known
<1> QED
  BY <1>1, <1>2, <1>3, CorrectTyped, AdministerTyped, SaveTyped DEF ClNext

(* Rules, categories and the histories are of their types, and a rule       *)
(* counts no more confirmations than there are transactions, whatever       *)
(* requests write over each other.                                          *)
THEOREM RuleTypes == ClSpec => []ClTypeOK
<1>1. ClTyped => ClTypeOK
  <2> SUFFICES ASSUME ClTyped PROVE ClTypeOK
    OBVIOUS
  <2>1. ASSUME NEW r \in Rules, Known(r) PROVE rule[r].count \in 0 .. Cardinality(Txns)
    <3>1. rule[r] \in RuleRows /\ Cardinality(rule[r].evidence) = rule[r].count
      BY <2>1 DEF ClTyped, SoundRow
    <3>2. rule[r].evidence \subseteq Txns /\ rule[r].count \in Nat
      BY <3>1 DEF RuleRows
    <3>3. Cardinality(rule[r].evidence) <= Cardinality(Txns) /\ Cardinality(Txns) \in Nat
      BY <3>2, RulesAssumption, FS_Subset, FS_CardinalityType
    <3> QED
      BY <3>1, <3>2, <3>3
  <2> QED
    BY <2>1 DEF ClTyped, ClTypeOK, SoundRow, RuleRows
<1> QED
  BY <1>1, ClTypedStart, ClTypedStep, PTL DEF ClSpec

-----------------------------------------------------------------------------
(* The memory of a conversation.  Cutting before a round is added, or after *)
(* it only, keeps the same rounds.                                          *)
LEMMA KeptProperties ==
  ASSUME NEW S, NEW s \in Seq(S), NEW n \in Nat \ {0}
  PROVE  /\ Kept(s, n) \in Seq(S)
         /\ Len(Kept(s, n)) = IF Len(s) > n THEN n ELSE Len(s)
         /\ \A i \in 1 .. Len(Kept(s, n)) : Kept(s, n)[i] = s[Len(s) - Len(Kept(s, n)) + i]
<1> DEFINE m == IF Len(s) > n THEN Len(s) - n + 1 ELSE 1
<1>1. Len(s) \in Nat /\ m \in 1 .. Len(s) + 1
  OBVIOUS
<1>2. \A i \in m .. Len(s) : s[i] \in S
  <2> SUFFICES ASSUME NEW i \in m .. Len(s) PROVE s[i] \in S
    OBVIOUS
  <2>1. i \in 1 .. Len(s)
    BY <1>1
  <2> QED
    BY <2>1, ElementOfSeq
<1>3. Kept(s, n) = SubSeq(s, m, Len(s))
  BY DEF Kept
<1>4. m = IF Len(s) > n THEN Len(s) - n + 1 ELSE 1
  OBVIOUS
<1> HIDE DEF m
<1>5. /\ SubSeq(s, m, Len(s)) \in Seq(S)
      /\ Len(SubSeq(s, m, Len(s))) = IF m <= Len(s) THEN Len(s) - m + 1 ELSE 0
      /\ \A i \in 1 .. Len(s) - m + 1 : SubSeq(s, m, Len(s))[i] = s[m + i - 1]
  <2> m \in Int /\ Len(s) \in Int
    BY <1>1
  <2> QED
    BY <1>2, SubSeqProperties
<1>6. Len(Kept(s, n)) = IF Len(s) > n THEN n ELSE Len(s)
  <2>1. Len(Kept(s, n)) = IF m <= Len(s) THEN Len(s) - m + 1 ELSE 0
    BY <1>3, <1>5
  <2>2. PICK l : l = Len(s)
    OBVIOUS
  <2>3. l \in Nat /\ n \in Nat /\ n > 0 /\ m = IF l > n THEN l - n + 1 ELSE 1
    BY <1>1, <1>4, <2>2
  <2>4. (IF m <= l THEN l - m + 1 ELSE 0) = IF l > n THEN n ELSE l
    BY <2>3
  <2> QED
    BY <2>1, <2>2, <2>4
<1>7. ASSUME NEW i \in 1 .. Len(Kept(s, n))
      PROVE  Kept(s, n)[i] = s[Len(s) - Len(Kept(s, n)) + i]
  <2>1. i \in 1 .. Len(s) - m + 1
    BY <1>1, <1>4, <1>6
  <2>2. m + i - 1 = Len(s) - Len(Kept(s, n)) + i
    BY <1>1, <1>4, <1>6
  <2> QED
    BY <1>3, <1>5, <2>1, <2>2
<1> QED
  BY <1>3, <1>5, <1>6, <1>7

LEMMA KeptAppend ==
  ASSUME NEW S, NEW s \in Seq(S), NEW e \in S, NEW n \in Nat \ {0}
  PROVE  Kept(Append(Kept(s, n), e), n) = Kept(Append(s, e), n)
<1>1. PICK k, a, b : k = Kept(s, n) /\ a = Append(k, e) /\ b = Append(s, e)
  OBVIOUS
<1>2. /\ k \in Seq(S) /\ Len(k) = IF Len(s) > n THEN n ELSE Len(s)
      /\ \A i \in 1 .. Len(k) : k[i] = s[Len(s) - Len(k) + i]
  BY <1>1, KeptProperties
<1>3. /\ a \in Seq(S) /\ Len(a) = Len(k) + 1 /\ \A i \in 1 .. Len(k) : a[i] = k[i]
      /\ a[Len(k) + 1] = e
  BY <1>1, <1>2, AppendProperties
<1>4. /\ b \in Seq(S) /\ Len(b) = Len(s) + 1 /\ \A i \in 1 .. Len(s) : b[i] = s[i]
      /\ b[Len(s) + 1] = e
  BY <1>1, AppendProperties
<1>5. PICK x, y : x = Kept(a, n) /\ y = Kept(b, n)
  OBVIOUS
<1>6. /\ x \in Seq(S) /\ Len(x) = IF Len(a) > n THEN n ELSE Len(a)
      /\ \A i \in 1 .. Len(x) : x[i] = a[Len(a) - Len(x) + i]
  BY <1>3, <1>5, KeptProperties
<1>7. /\ y \in Seq(S) /\ Len(y) = IF Len(b) > n THEN n ELSE Len(b)
      /\ \A i \in 1 .. Len(y) : y[i] = b[Len(b) - Len(y) + i]
  BY <1>4, <1>5, KeptProperties, ZenonT(60)
<1>8. Len(s) \in Nat /\ Len(k) \in Nat /\ Len(x) = Len(y)
  BY <1>2, <1>3, <1>4, <1>6, <1>7
<1>9. ASSUME NEW i \in 1 .. Len(x) PROVE x[i] = y[i]
  <2>1. PICK j : j = Len(a) - Len(x) + i
    OBVIOUS
  <2>2. j \in 1 .. Len(k) + 1 /\ Len(b) - Len(y) + i = j + Len(s) - Len(k)
    <3>1. PICK ls, lk, lx : ls = Len(s) /\ lk = Len(k) /\ lx = Len(x)
      OBVIOUS
    <3>2. Len(a) = lk + 1 /\ Len(b) = ls + 1 /\ Len(y) = lx
      BY <1>3, <1>4, <1>8, <3>1
    <3>3. lx = IF lk + 1 > n THEN n ELSE lk + 1
      BY <1>6, <3>1, <3>2
    <3>4. ls \in Nat /\ lk \in Nat /\ i \in 1 .. lx /\ n \in Nat /\ j = lk + 1 - lx + i
      BY <1>8, <2>1, <3>1, <3>2
    <3>5. lx \in 0 .. lk + 1
      BY <3>3, <3>4
    <3>6. j \in 1 .. lk + 1 /\ ls + 1 - lx + i = j + ls - lk
      BY <3>4, <3>5
    <3> QED
      BY <3>1, <3>2, <3>6
  <2>3. x[i] = a[j] /\ y[i] = b[j + Len(s) - Len(k)]
    BY <1>6, <1>7, <1>8, <2>1, <2>2
  <2>4. CASE j = Len(k) + 1
    <3>1. j + Len(s) - Len(k) = Len(s) + 1
      BY <1>8, <2>4
    <3> QED
      BY <1>3, <1>4, <2>3, <2>4, <3>1
  <2>5. CASE j \in 1 .. Len(k)
    <3>1. /\ j + Len(s) - Len(k) \in 1 .. Len(s)
          /\ j + Len(s) - Len(k) = Len(s) - Len(k) + j
      BY <1>2, <1>8, <2>5
    <3> QED
      BY <1>2, <1>3, <1>4, <2>3, <2>5, <3>1
  <2> QED
    BY <1>8, <2>2, <2>4, <2>5
<1>10. x = y
  BY <1>6, <1>7, <1>8, <1>9, SeqEqual
<1> QED
  BY <1>1, <1>5, <1>10

LEMMA KeptTwice ==
  ASSUME NEW S, NEW s \in Seq(S), NEW n \in Nat \ {0}
  PROVE  Kept(Kept(s, n), n) = Kept(s, n)
<1>1. PICK k, x : k = Kept(s, n) /\ x = Kept(k, n)
  OBVIOUS
<1>2. /\ k \in Seq(S) /\ Len(k) = IF Len(s) > n THEN n ELSE Len(s)
  BY <1>1, KeptProperties
<1>3. /\ x \in Seq(S) /\ Len(x) = IF Len(k) > n THEN n ELSE Len(k)
      /\ \A i \in 1 .. Len(x) : x[i] = k[Len(k) - Len(x) + i]
  BY <1>1, <1>2, KeptProperties
<1>4. Len(s) \in Nat /\ Len(k) \in Nat /\ Len(x) = Len(k)
  <2>1. PICK ls, lk, lx : ls = Len(s) /\ lk = Len(k) /\ lx = Len(x)
    OBVIOUS
  <2>2. ls \in Nat /\ lk = (IF ls > n THEN n ELSE ls) /\ lx = IF lk > n THEN n ELSE lk
    BY <1>2, <1>3, <2>1
  <2>3. lk \in Nat /\ lx = lk
    BY <2>2
  <2> QED
    BY <2>1, <2>2, <2>3
<1>5. \A i \in 1 .. Len(x) : x[i] = k[i]
  <2>1. \A i \in 1 .. Len(x) : Len(k) - Len(x) + i = i
    BY <1>4
  <2> QED
    BY <1>3, <2>1
<1>6. x = k
  BY <1>2, <1>3, <1>4, <1>5, SeqEqual
<1> QED
  BY <1>1, <1>6

LEMMA KeptNothing == ASSUME NEW n \in Nat \ {0} PROVE Kept(<<>>, n) = <<>>
<1>1. PICK s : s = <<>>
  OBVIOUS
<1>2. s \in Seq(Nat) /\ Len(s) = 0
  BY <1>1
<1>3. Kept(s, n) \in Seq(Nat) /\ Len(Kept(s, n)) = IF Len(s) > n THEN n ELSE Len(s)
  BY <1>2, KeptProperties
<1>4. Len(Kept(s, n)) = 0
  BY <1>2, <1>3
<1> QED
  BY <1>1, <1>3, <1>4, EmptySeq

LEMMA CvStart == CvInit => CvInv
<1> SUFFICES ASSUME CvInit PROVE CvInv
  OBVIOUS
<1>1. told \in [Conversations -> [turns : Seq(Rounds), steps : Seq(Rounds), last : Nat]]
  BY DEF CvInit
<1>2. \A c \in Conversations : Remembers(c)
  BY DEF CvInit, Remembers
<1> QED
  BY <1>1, <1>2 DEF CvInit, CvInv

(* A step that writes neither the memory nor the history of it.             *)
LEMMA CvOther ==
  ASSUME CvInv, UNCHANGED <<row, told>>, now' \in Nat,
         round' = [r \in Rounds |-> round'[r]],
         NEW r \in Rounds, \A q \in Rounds \ {r} : round'[q] = round[q],
         round'[r] # NoState =>
           /\ round'[r].conv \in Conversations /\ round'[r].moment \in Nat
           /\ DOMAIN round'[r] = {"conv", "phase", "left", "read", "drafted", "moment"}
  PROVE  CvInv'
<1>1. \A c \in Conversations : Remembers(c)' = Remembers(c)
  BY DEF Remembers
<1> QED
  BY <1>1 DEF CvInv

LEMMA RoundMoves ==
  ASSUME CvInv, UNCHANGED <<row, told, now>>, NEW r \in Rounds, round[r] # NoState,
         NEW changed, DOMAIN changed = DOMAIN round[r], changed.conv = round[r].conv,
         changed.moment \in Nat, round' = [round EXCEPT ![r] = changed]
  PROVE  CvInv'
<1>1. /\ round[r].conv \in Conversations
      /\ DOMAIN round[r] = {"conv", "phase", "left", "read", "drafted", "moment"}
      /\ round = [q \in Rounds |-> round[q]] /\ now \in Nat
  BY DEF CvInv
<1>2. /\ round' = [q \in Rounds |-> round'[q]] /\ round'[r] = changed
      /\ \A q \in Rounds \ {r} : round'[q] = round[q]
  BY <1>1
<1>3. now' \in Nat
  BY <1>1
<1> QED
  BY <1>1, <1>2, <1>3, CvOther

LEMMA DoneMoves ==
  ASSUME CvInv, UNCHANGED <<row, told, now>>, NEW r \in Rounds, round[r] # NoState,
         NEW changed, DOMAIN changed = DOMAIN round[r], changed.conv = round[r].conv,
         changed.moment = round[r].moment, Done(r, changed)
  PROVE  CvInv'
<1>1. PICK q : q = [changed EXCEPT !.left = @ - 1,
                       !.phase = IF changed.left = 1 THEN "answered" ELSE "running"]
  OBVIOUS
<1>2. /\ DOMAIN round[r] = {"conv", "phase", "left", "read", "drafted", "moment"}
      /\ round[r].moment \in Nat
  BY DEF CvInv
<1>3. DOMAIN q = DOMAIN changed /\ q.conv = changed.conv /\ q.moment = changed.moment
  BY <1>1, <1>2
<1>4. round' = [round EXCEPT ![r] = q]
  BY <1>1 DEF Done
<1> QED
  BY <1>2, <1>3, <1>4, RoundMoves

(* The turn is added to what the memory holds of the conversation going on. *)
LEMMA BaseIsGoing ==
  ASSUME CvInv, NEW c \in Conversations, NEW m \in Nat
  PROVE  /\ Base(c, m).turns = Kept(Going(c, m).turns, MaxTurns)
         /\ Base(c, m).steps = Kept(Going(c, m).steps, MaxSteps)
         /\ Going(c, m).turns \in Seq(Rounds) /\ Going(c, m).steps \in Seq(Rounds)
<1>1. /\ told[c] \in [turns : Seq(Rounds), steps : Seq(Rounds), last : Nat]
      /\ Remembers(c)
      /\ MaxTurns \in Nat \ {0} /\ MaxSteps \in Nat \ {0} /\ TTL \in Nat
  BY ConversationAssumption DEF CvInv
<1>2. Kept(<<>>, MaxTurns) = <<>> /\ Kept(<<>>, MaxSteps) = <<>>
  BY <1>1, KeptNothing
<1>3. PICK g : g = Going(c, m)
  OBVIOUS
<1>4. CASE m > told[c].last + TTL
  <2>1. g.turns = <<>> /\ g.steps = <<>>
    BY <1>1, <1>3, <1>4 DEF Going
  <2>2. Base(c, m) = Empty
    <3>1. row[c] # NoState => row[c].expires = told[c].last + TTL
      BY <1>1 DEF Remembers
    <3>2. row[c] # NoState => Expired(c, m)
      BY <1>1, <1>4, <3>1 DEF Expired
    <3> QED
      BY <3>2 DEF Base
  <2>3. <<>> \in Seq(Rounds)
    OBVIOUS
  <2> QED
    BY <1>2, <1>3, <2>1, <2>2, <2>3 DEF Empty
<1>5. CASE ~(m > told[c].last + TTL)
  <2>1. g = told[c]
    BY <1>3, <1>5 DEF Going
  <2>2. g.turns \in Seq(Rounds) /\ g.steps \in Seq(Rounds)
    BY <1>1, <2>1
  <2>3. CASE row[c] = NoState
    BY <1>1, <1>2, <1>3, <2>1, <2>2, <2>3 DEF Base, Empty, Remembers
  <2>4. CASE row[c] # NoState
    <3>1. row[c].expires = told[c].last + TTL
      BY <1>1, <2>4 DEF Remembers
    <3>2. ~Expired(c, m)
      BY <1>1, <1>5, <3>1 DEF Expired
    <3>3. Base(c, m) = row[c]
      BY <2>4, <3>2 DEF Base
    <3> QED
      BY <1>1, <1>3, <2>1, <2>2, <2>4, <3>3 DEF Remembers
  <2> QED
    BY <2>3, <2>4
<1> QED
  BY <1>4, <1>5

LEMMA CvRecord ==
  ASSUME CvInv, NEW r \in Rounds, Record(r)
  PROVE  CvInv'
<1>1. PICK c, m, b, g : /\ c = round[r].conv /\ m = round[r].moment
                        /\ b = Base(c, m) /\ g = Going(c, m)
  OBVIOUS
<1>2. round[r] # NoState
  BY DEF Record, In
<1>3. /\ c \in Conversations /\ m \in Nat
      /\ DOMAIN round[r] = {"conv", "phase", "left", "read", "drafted", "moment"}
      /\ MaxTurns \in Nat \ {0} /\ MaxSteps \in Nat \ {0} /\ TTL \in Nat
      /\ told[c] \in [turns : Seq(Rounds), steps : Seq(Rounds), last : Nat]
  BY <1>1, <1>2, ConversationAssumption DEF CvInv
<1>4. /\ b.turns = Kept(g.turns, MaxTurns) /\ b.steps = Kept(g.steps, MaxSteps)
      /\ g.turns \in Seq(Rounds) /\ g.steps \in Seq(Rounds)
  BY <1>1, <1>3, BaseIsGoing
<1>5. PICK us, vs, ts : /\ us = IF round[r].read THEN Append(b.steps, r) ELSE b.steps
                        /\ vs = IF round[r].read THEN Append(g.steps, r) ELSE g.steps
                        /\ ts = Append(g.turns, r)
  OBVIOUS
<1>6. ts \in Seq(Rounds) /\ vs \in Seq(Rounds)
  BY <1>4, <1>5, AppendProperties
<1>7. PICK x, y : x = [turns |-> Kept(Append(b.turns, r), MaxTurns),
                       steps |-> Kept(us, MaxSteps), expires |-> m + TTL]
               /\ y = [turns |-> ts, steps |-> vs, last |-> m]
  OBVIOUS
<1>8. row' = [row EXCEPT ![c] = x] /\ told' = [told EXCEPT ![c] = y]
  BY <1>1, <1>5, <1>7 DEF Record
<1>9. Kept(Append(b.turns, r), MaxTurns) = Kept(ts, MaxTurns)
  BY <1>3, <1>4, <1>5, KeptAppend
<1>10. Kept(us, MaxSteps) = Kept(vs, MaxSteps)
  BY <1>3, <1>4, <1>5, KeptAppend, KeptTwice
<1>11. Kept(ts, MaxTurns) \in Seq(Rounds) /\ Kept(vs, MaxSteps) \in Seq(Rounds)
  BY <1>3, <1>6, KeptProperties
<1>12. x # NoState
  <2>1. x.turns \in Seq(Rounds) /\ x.steps \in Seq(Rounds) /\ x.expires \in Nat
    BY <1>3, <1>7, <1>9, <1>10, <1>11
  <2>2. x \in [turns : Seq(Rounds), steps : Seq(Rounds), expires : Nat]
    BY <1>7, <2>1
  <2> QED
    BY <2>2, ConversationAssumption
<1>13. y \in [turns : Seq(Rounds), steps : Seq(Rounds), last : Nat]
  BY <1>3, <1>6, <1>7
<1>14. /\ row' = [d \in Conversations |-> row'[d]] /\ row'[c] = x
       /\ \A d \in Conversations \ {c} : row'[d] = row[d] /\ told'[d] = told[d]
       /\ told' \in [Conversations -> [turns : Seq(Rounds), steps : Seq(Rounds), last : Nat]]
       /\ told'[c] = y
  BY <1>3, <1>8, <1>13 DEF CvInv
<1>15. ASSUME NEW d \in Conversations PROVE Remembers(d)'
  <2>1. CASE d = c
    BY <1>7, <1>9, <1>10, <1>12, <1>14, <2>1 DEF Remembers
  <2>2. CASE d # c
    <3>1. Remembers(d)
      BY DEF CvInv
    <3> QED
      BY <1>14, <2>2, <3>1 DEF Remembers
  <2> QED
    BY <2>1, <2>2
<1>16. round' = [round EXCEPT ![r].phase = "done"] /\ now' = now
  BY DEF Record
<1>17. /\ round' = [q \in Rounds |-> round'[q]]
       /\ \A q \in Rounds \ {r} : round'[q] = round[q]
       /\ round'[r].conv = c /\ round'[r].moment = m /\ DOMAIN round'[r] = DOMAIN round[r]
  BY <1>1, <1>3, <1>16 DEF CvInv
<1> QED
  BY <1>3, <1>14, <1>15, <1>16, <1>17 DEF CvInv

LEMMA CvStep == CvInv /\ [CvNext]_cvVars => CvInv'
<1> SUFFICES ASSUME CvInv, [CvNext]_cvVars PROVE CvInv'
  OBVIOUS
<1>1. \A r \in Rounds : round[r] # NoState =>
        /\ DOMAIN round[r] = {"conv", "phase", "left", "read", "drafted", "moment"}
        /\ round[r].conv \in Conversations /\ round[r].moment \in Nat
  BY DEF CvInv
<1>2. now \in Nat /\ round = [r \in Rounds |-> round[r]]
  BY DEF CvInv
<1>3. CASE Wait \/ UNCHANGED cvVars
  <2>1. now' \in Nat /\ UNCHANGED <<row, round, told>>
    BY <1>2, <1>3 DEF Wait, cvVars
  <2>2. \A c \in Conversations : Remembers(c)' = Remembers(c)
    BY <2>1 DEF Remembers
  <2> QED
    BY <2>1, <2>2 DEF CvInv
<1>4. ASSUME NEW r \in Rounds, NEW c \in Conversations, Ask(r, c) PROVE CvInv'
  <2>1. PICK q : q = NewRound(c)
    OBVIOUS
  <2>2. /\ q.conv = c /\ q.moment = 0
        /\ DOMAIN q = {"conv", "phase", "left", "read", "drafted", "moment"}
    BY <2>1 DEF NewRound
  <2>3. round' = [round EXCEPT ![r] = q] /\ UNCHANGED <<row, told, now>>
    BY <1>4, <2>1 DEF Ask
  <2>4. /\ round' = [p \in Rounds |-> round'[p]] /\ round'[r] = q
        /\ \A p \in Rounds \ {r} : round'[p] = round[p]
    BY <1>2, <2>3
  <2>5. now' \in Nat
    BY <1>2, <2>3
  <2> QED
    BY <2>2, <2>3, <2>4, <2>5, CvOther
<1>5. ASSUME NEW r \in Rounds, NEW n, Planned(r, n) PROVE CvInv'
  <2>1. PICK q : q = [round[r] EXCEPT !.phase = IF n = 0 THEN "finishing" ELSE "running",
                                      !.left = n]
    OBVIOUS
  <2>2. round[r] # NoState /\ round' = [round EXCEPT ![r] = q] /\ UNCHANGED <<row, told, now>>
    BY <1>5, <2>1 DEF Planned, In
  <2>3. DOMAIN q = DOMAIN round[r] /\ q.conv = round[r].conv /\ q.moment \in Nat
    BY <1>1, <2>1, <2>2
  <2> QED
    BY <2>2, <2>3, RoundMoves
<1>6. ASSUME NEW r \in Rounds, Stop(r) PROVE CvInv'
  <2>1. PICK q : q = [round[r] EXCEPT !.phase = "finishing"]
    OBVIOUS
  <2>2. round[r] # NoState /\ round' = [round EXCEPT ![r] = q] /\ UNCHANGED <<row, told, now>>
    BY <1>6, <2>1 DEF Stop, In
  <2>3. DOMAIN q = DOMAIN round[r] /\ q.conv = round[r].conv /\ q.moment \in Nat
    BY <1>1, <2>1, <2>2
  <2> QED
    BY <2>2, <2>3, RoundMoves
<1>7. ASSUME NEW r \in Rounds, Read(r) PROVE CvInv'
  <2>1. PICK q : q = [round[r] EXCEPT !.read = TRUE]
    OBVIOUS
  <2>2. round[r] # NoState /\ Done(r, q) /\ UNCHANGED <<row, told, now>>
    BY <1>7, <2>1 DEF Read, In
  <2>3. DOMAIN q = DOMAIN round[r] /\ q.conv = round[r].conv /\ q.moment = round[r].moment
    BY <1>1, <2>1, <2>2
  <2> QED
    BY <2>2, <2>3, DoneMoves
<1>8. ASSUME NEW r \in Rounds, DraftProposal(r) PROVE CvInv'
  <2>1. PICK q : q = [round[r] EXCEPT !.drafted = @ \cup {Len(proposals) + 1}]
    OBVIOUS
  <2>2. round[r] # NoState /\ Done(r, q) /\ UNCHANGED <<row, told, now>>
    BY <1>8, <2>1 DEF DraftProposal, In
  <2>3. DOMAIN q = DOMAIN round[r] /\ q.conv = round[r].conv /\ q.moment = round[r].moment
    BY <1>1, <2>1, <2>2
  <2> QED
    BY <2>2, <2>3, DoneMoves
<1>9. ASSUME NEW r \in Rounds, NEW i, NEW state, Decide(r, i, state) PROVE CvInv'
  <2>1. round[r] # NoState /\ Done(r, round[r]) /\ UNCHANGED <<row, told, now>>
    BY <1>9 DEF Decide, In
  <2> QED
    BY <2>1, DoneMoves
<1>10. ASSUME NEW r \in Rounds, Look(r) PROVE CvInv'
  <2>1. PICK q : q = [round[r] EXCEPT !.phase = IF In(r, "answered") THEN "recording"
                                                ELSE "dropping", !.moment = now]
    OBVIOUS
  <2>2. round[r] # NoState /\ round' = [round EXCEPT ![r] = q] /\ UNCHANGED <<row, told, now>>
    BY <1>10, <2>1 DEF Look, In
  <2>3. DOMAIN q = DOMAIN round[r] /\ q.conv = round[r].conv /\ q.moment \in Nat
    BY <1>1, <1>2, <2>1, <2>2
  <2> QED
    BY <2>2, <2>3, RoundMoves
<1> QED
  BY <1>3, <1>4, <1>5, <1>6, <1>7, <1>8, <1>9, <1>10, CvRecord DEF CvNext

(* For any number of conversations and rounds at once, the memory is the    *)
(* last rounds recorded since the conversation was last silent for longer   *)
(* than the TTL: none is lost and none comes back.                          *)
THEOREM MemoryIsTheConversation == CvSpec => []RowRemembersTheConversation
<1>1. CvInv => RowRemembersTheConversation
  BY DEF CvInv, Remembers, RowRemembersTheConversation
<1> QED
  BY <1>1, CvStart, CvStep, PTL DEF CvSpec

(* What a round in progress may still do, and when it looked; what the      *)
(* memory holds is no older than the present, and never empty.              *)
Paced(x, at) == /\ x.left \in 0 .. MaxPlan /\ x.moment \in 0 .. at
                /\ x.phase = "running" => x.left # 0
CvWithin ==
    /\ now \in 0 .. MaxTime
    /\ \A c \in Conversations : /\ told[c].last \in 0 .. now
                                /\ row[c] # NoState => told[c].turns # <<>>
    /\ \A r \in Rounds : round[r] # NoState => Paced(round[r], now)
    /\ holder \in [Conversations -> Rounds \cup {NoState}]

LEMMA RoundPaced ==
  ASSUME CvInv, CvWithin, UNCHANGED <<row, told, now>>, NEW r \in Rounds, NEW x,
         round' = [round EXCEPT ![r] = x], x # NoState => Paced(x, now),
         holder' \in [Conversations -> Rounds \cup {NoState}]
  PROVE  CvWithin'
<1>1. ASSUME NEW q \in Rounds, round'[q] # NoState PROVE Paced(round'[q], now)
  <2>1. round = [p \in Rounds |-> round[p]]
    BY DEF CvInv
  <2>2. round'[q] = IF q = r THEN x ELSE round[q]
    BY <2>1
  <2> QED
    BY <1>1, <2>2 DEF CvWithin
<1>2. ASSUME NEW q \in Rounds, round'[q] # NoState PROVE Paced(round'[q], now')
  BY <1>1, <1>2 DEF Paced
<1> QED
  BY <1>2 DEF CvWithin

\* A step of the plan leaves the others to do, or answers.
LEMMA DonePaced ==
  ASSUME CvInv, CvWithin, UNCHANGED <<row, told, now, holder>>, NEW r \in Rounds,
         In(r, "running"), NEW changed, Done(r, changed),
         DOMAIN changed = DOMAIN round[r], changed.left = round[r].left,
         changed.moment = round[r].moment
  PROVE  CvWithin'
<1>1. PICK x : x = [changed EXCEPT !.left = @ - 1,
                       !.phase = IF changed.left = 1 THEN "answered" ELSE "running"]
  OBVIOUS
<1>2. /\ DOMAIN round[r] = {"conv", "phase", "left", "read", "drafted", "moment"}
      /\ Paced(round[r], now) /\ round[r].phase = "running"
  BY DEF In, CvInv, CvWithin
<1>3. /\ x.left = changed.left - 1 /\ x.moment = changed.moment
      /\ x.phase = "running" => changed.left # 1
  BY <1>1, <1>2
<1>4. Paced(x, now)
  <2>1. changed.left \in 0 .. MaxPlan /\ changed.left # 0 /\ changed.moment \in 0 .. now
    BY <1>2 DEF Paced
  <2>2. MaxPlan \in Nat /\ now \in Nat
    BY ConversationAssumption DEF CvInv
  <2>3. changed.left - 1 \in 0 .. MaxPlan /\ (changed.left # 1 => changed.left - 1 # 0)
    BY <2>1, <2>2
  <2> QED
    BY <1>3, <2>1, <2>3 DEF Paced
<1>5. round' = [round EXCEPT ![r] = x] /\ holder' \in [Conversations -> Rounds \cup {NoState}]
  BY <1>1 DEF Done, CvWithin
<1> QED
  BY <1>4, <1>5, RoundPaced

LEMMA RecordPaced ==
  ASSUME CvInv, CvWithin, NEW r \in Rounds, Record(r)
  PROVE  CvWithin'
<1>1. PICK c, m, g : c = round[r].conv /\ m = round[r].moment /\ g = Going(c, m)
  OBVIOUS
<1>2. round[r] # NoState
  BY DEF Record, In
<1>3. /\ c \in Conversations /\ m \in 0 .. now
      /\ DOMAIN round[r] = {"conv", "phase", "left", "read", "drafted", "moment"}
      /\ Paced(round[r], now) /\ now \in Nat /\ now' = now
  BY <1>1, <1>2 DEF CvInv, CvWithin, Paced, Record
<1>4. g.turns \in Seq(Rounds)
  BY <1>1, <1>3, BaseIsGoing
<1>5. PICK ts, x, y :
        /\ ts = Append(g.turns, r)
        /\ x = [turns |-> Kept(Append(Base(c, m).turns, r), MaxTurns),
                steps |-> Kept(IF round[r].read THEN Append(Base(c, m).steps, r)
                               ELSE Base(c, m).steps, MaxSteps),
                expires |-> m + TTL]
        /\ y = [turns |-> ts,
                steps |-> IF round[r].read THEN Append(g.steps, r) ELSE g.steps, last |-> m]
  OBVIOUS
<1>6. row' = [row EXCEPT ![c] = x] /\ told' = [told EXCEPT ![c] = y]
      /\ holder' = [holder EXCEPT ![c] = NoState]
      /\ round' = [round EXCEPT ![r].phase = "done"]
  BY <1>1, <1>5 DEF Record
<1>7. ts # <<>>
  BY <1>4, <1>5, AppendProperties
<1>8. y.last = m /\ y.turns = ts
  BY <1>5
<1>9. ASSUME NEW d \in Conversations
      PROVE  told'[d].last \in 0 .. now /\ (row'[d] # NoState => told'[d].turns # <<>>)
  <2>1. CASE d = c
    <3>1. told'[d] = y
      BY <1>6, <2>1 DEF CvInv
    <3> QED
      BY <1>3, <1>7, <1>8, <3>1
  <2>2. CASE d # c
    <3>1. told'[d] = told[d] /\ row'[d] = row[d]
      BY <1>6, <2>2 DEF CvInv
    <3> QED
      BY <3>1 DEF CvWithin
  <2> QED
    BY <2>1, <2>2
<1>10. ASSUME NEW q \in Rounds, round'[q] # NoState PROVE Paced(round'[q], now)
  <2>1. PICK z : z = [round[r] EXCEPT !.phase = "done"]
    OBVIOUS
  <2>2. Paced(z, now)
    BY <1>3, <2>1 DEF Paced
  <2>3. round'[q] = IF q = r THEN z ELSE round[q]
    BY <1>6, <2>1 DEF CvInv
  <2> QED
    BY <1>10, <2>2, <2>3 DEF CvWithin
<1>11. ASSUME NEW q \in Rounds, round'[q] # NoState PROVE Paced(round'[q], now')
  BY <1>3, <1>10, <1>11 DEF Paced
<1>12. holder' \in [Conversations -> Rounds \cup {NoState}]
  BY <1>6 DEF CvWithin
<1> QED
  BY <1>3, <1>9, <1>11, <1>12 DEF CvWithin

LEMMA CvPacedStep == CvInv /\ CvWithin /\ [CvNext]_cvVars => CvWithin'
<1> SUFFICES ASSUME CvInv, CvWithin, [CvNext]_cvVars PROVE CvWithin'
  OBVIOUS
<1>1. /\ MaxPlan \in Nat /\ MaxTime \in Nat /\ now \in Nat
      /\ holder \in [Conversations -> Rounds \cup {NoState}]
  BY ConversationAssumption DEF CvInv, CvWithin
<1>2. \A r \in Rounds : round[r] # NoState =>
        /\ DOMAIN round[r] = {"conv", "phase", "left", "read", "drafted", "moment"}
        /\ round[r].conv \in Conversations /\ Paced(round[r], now)
  BY DEF CvInv, CvWithin
<1>3. CASE Wait
  <2>1. /\ now' \in 0 .. MaxTime /\ now' = now + 1
        /\ UNCHANGED <<row, round, holder, told>>
    BY <1>1, <1>3 DEF Wait, CvWithin
  <2>2. ASSUME NEW r \in Rounds, round[r] # NoState PROVE Paced(round[r], now')
    BY <1>1, <1>2, <2>1, <2>2 DEF Paced
  <2>3. ASSUME NEW c \in Conversations PROVE told[c].last \in 0 .. now'
    BY <1>1, <2>1 DEF CvWithin
  <2> QED
    BY <2>1, <2>2, <2>3 DEF CvWithin
<1>4. CASE UNCHANGED cvVars
  BY <1>4 DEF cvVars, CvWithin, Paced
<1>5. ASSUME NEW r \in Rounds, NEW c \in Conversations, Ask(r, c) PROVE CvWithin'
  <2>1. PICK x : x = NewRound(c)
    OBVIOUS
  <2>2. Paced(x, now)
    BY <1>1, <2>1 DEF NewRound, Paced
  <2>3. /\ round' = [round EXCEPT ![r] = x] /\ UNCHANGED <<row, told, now>>
        /\ holder' \in [Conversations -> Rounds \cup {NoState}]
    BY <1>1, <1>5, <2>1 DEF Ask
  <2> QED
    BY <2>2, <2>3, RoundPaced
<1>6. ASSUME NEW r \in Rounds, NEW n \in 0 .. MaxPlan, Planned(r, n) PROVE CvWithin'
  <2>1. PICK x : x = [round[r] EXCEPT !.phase = IF n = 0 THEN "finishing" ELSE "running",
                                      !.left = n]
    OBVIOUS
  <2>2. round[r] # NoState
    BY <1>6 DEF Planned, In
  <2>3. Paced(x, now)
    BY <1>2, <2>1, <2>2 DEF Paced
  <2>4. /\ round' = [round EXCEPT ![r] = x] /\ UNCHANGED <<row, told, now>>
        /\ holder' \in [Conversations -> Rounds \cup {NoState}]
    BY <1>1, <1>6, <2>1 DEF Planned
  <2> QED
    BY <2>3, <2>4, RoundPaced
<1>7. ASSUME NEW r \in Rounds, Stop(r) PROVE CvWithin'
  <2>1. PICK x : x = [round[r] EXCEPT !.phase = "finishing"]
    OBVIOUS
  <2>2. round[r] # NoState
    BY <1>7 DEF Stop, In
  <2>3. Paced(x, now)
    BY <1>2, <2>1, <2>2 DEF Paced
  <2>4. /\ round' = [round EXCEPT ![r] = x] /\ UNCHANGED <<row, told, now>>
        /\ holder' \in [Conversations -> Rounds \cup {NoState}]
    BY <1>1, <1>7, <2>1 DEF Stop
  <2> QED
    BY <2>3, <2>4, RoundPaced
<1>8. ASSUME NEW r \in Rounds, Read(r) PROVE CvWithin'
  <2>1. PICK x : x = [round[r] EXCEPT !.read = TRUE]
    OBVIOUS
  <2>2. round[r] # NoState /\ In(r, "running") /\ Done(r, x)
        /\ UNCHANGED <<row, told, now, holder>>
    BY <1>8, <2>1 DEF Read, In
  <2>3. DOMAIN x = DOMAIN round[r] /\ x.left = round[r].left /\ x.moment = round[r].moment
    BY <1>2, <2>1, <2>2
  <2> QED
    BY <2>2, <2>3, DonePaced
<1>9. ASSUME NEW r \in Rounds, DraftProposal(r) PROVE CvWithin'
  <2>1. PICK x : x = [round[r] EXCEPT !.drafted = @ \cup {Len(proposals) + 1}]
    OBVIOUS
  <2>2. round[r] # NoState /\ In(r, "running") /\ Done(r, x)
        /\ UNCHANGED <<row, told, now, holder>>
    BY <1>9, <2>1 DEF DraftProposal, In
  <2>3. DOMAIN x = DOMAIN round[r] /\ x.left = round[r].left /\ x.moment = round[r].moment
    BY <1>2, <2>1, <2>2
  <2> QED
    BY <2>2, <2>3, DonePaced
<1>10. ASSUME NEW r \in Rounds, NEW i, NEW state, Decide(r, i, state) PROVE CvWithin'
  <2>1. In(r, "running") /\ Done(r, round[r]) /\ UNCHANGED <<row, told, now, holder>>
    BY <1>10 DEF Decide
  <2> QED
    BY <2>1, DonePaced
<1>11. ASSUME NEW r \in Rounds, Look(r) PROVE CvWithin'
  <2>1. PICK c, x : /\ c = round[r].conv
                    /\ x = [round[r] EXCEPT !.phase = IF In(r, "answered") THEN "recording"
                                                      ELSE "dropping", !.moment = now]
    OBVIOUS
  <2>2. /\ round[r] # NoState /\ round' = [round EXCEPT ![r] = x]
        /\ UNCHANGED <<row, told, now>>
        /\ holder' = IF row[c] = NoState THEN holder ELSE [holder EXCEPT ![c] = r]
    BY <1>11, <2>1 DEF Look, In
  <2>3. Paced(x, now)
    BY <1>1, <1>2, <2>1, <2>2 DEF Paced
  <2>4. holder' \in [Conversations -> Rounds \cup {NoState}]
    BY <1>1, <2>2
  <2> QED
    BY <2>2, <2>3, <2>4, RoundPaced
<1> QED
  BY <1>3, <1>4, <1>5, <1>6, <1>7, <1>8, <1>9, <1>10, <1>11, RecordPaced DEF CvNext

(* The memory keeps one round at least and the limits' at most, it expires  *)
(* a TTL after a moment that has been, and a plan has its steps.            *)
THEOREM ConversationTypes == CvSpec => []CvTypeOK
<1>1. CvInit => CvWithin
  BY ConversationAssumption DEF CvInit, CvWithin
<1>2. CvInv /\ CvWithin => CvTypeOK
  <2> SUFFICES ASSUME CvInv, CvWithin PROVE CvTypeOK
    OBVIOUS
  <2>1. ASSUME NEW c \in Conversations, row[c] # NoState
        PROVE  /\ Len(row[c].turns) \in 1 .. MaxTurns /\ Len(row[c].steps) \in 0 .. MaxSteps
               /\ row[c].expires \in 0 .. MaxTime + TTL
    <3>1. PICK ts, ss : ts = told[c].turns /\ ss = told[c].steps
      OBVIOUS
    <3>2. ts \in Seq(Rounds) /\ ss \in Seq(Rounds) /\ ts # <<>>
      BY <2>1, <3>1 DEF CvInv, CvWithin
    <3>3. /\ row[c].turns = Kept(ts, MaxTurns) /\ row[c].steps = Kept(ss, MaxSteps)
          /\ row[c].expires = told[c].last + TTL
      BY <2>1, <3>1 DEF CvInv, Remembers
    <3>4. MaxTurns \in Nat \ {0} /\ MaxSteps \in Nat \ {0} /\ TTL \in Nat /\ MaxTime \in Nat
      BY ConversationAssumption
    <3>5. Len(ts) \in Nat \ {0} /\ Len(ss) \in Nat
      BY <3>2, EmptySeq
    <3>6. /\ Len(Kept(ts, MaxTurns)) = IF Len(ts) > MaxTurns THEN MaxTurns ELSE Len(ts)
          /\ Len(Kept(ss, MaxSteps)) = IF Len(ss) > MaxSteps THEN MaxSteps ELSE Len(ss)
      BY <3>2, <3>4, KeptProperties
    <3>7. told[c].last \in Nat /\ told[c].last <= MaxTime
      BY <3>4 DEF CvWithin
    <3> QED
      BY <3>3, <3>4, <3>5, <3>6, <3>7
  <2> QED
    BY <2>1 DEF CvWithin, Paced, CvTypeOK
<1> QED
  BY <1>1, <1>2, CvStart, CvStep, CvPacedStep, PTL DEF CvSpec

-----------------------------------------------------------------------------
(* The findings.                                                            *)
LEMMA FlStart == FlInit => FlInv
<1> SUFFICES ASSUME FlInit PROVE FlInv
  OBVIOUS
<1>1. facts \in [Watched -> [present : BOOLEAN, flagged : BOOLEAN,
                             reviewed : BOOLEAN, excluded : BOOLEAN]]
  BY DEF FlInit
<1>2. /\ \A t \in Watched : finding[t].status \in FindingStatus
      /\ finding = [t \in Watched |-> [status |-> finding[t].status, count |-> finding[t].count]]
  BY DEF FlInit, FindingStatus
<1>3. RunsSound
  <2> SUFFICES ASSUME NEW r \in Runners
               PROVE  /\ DOMAIN running[r] = {"scope", "result", "clean"}
                      /\ DOMAIN running[r].result = {} /\ running[r].scope = {}
    BY DEF RunsSound, Checked
  <2>1. running[r] = NoRun
    BY DEF FlInit
  <2> QED
    BY <2>1 DEF NoRun
<1> QED
  BY <1>1, <1>2, <1>3 DEF FlInit, FlInv, FindingsFollowTheBooks

(* A row that changes takes its pair out of what is settled, and no run in  *)
(* flight is up to date any more.                                           *)
LEMMA AllOutdated ==
  ASSUME FlInv, Outdate
  PROVE  /\ \A r \in Runners : ~running'[r].clean
         /\ RunsSound' /\ running' = [r \in Runners |-> running'[r]]
<1>1. ASSUME NEW r \in Runners
      PROVE  /\ DOMAIN running'[r] = {"scope", "result", "clean"}
             /\ running'[r].scope = running[r].scope /\ running'[r].result = running[r].result
             /\ running'[r].clean = FALSE
  <2>1. DOMAIN running[r] = {"scope", "result", "clean"}
    BY DEF FlInv, RunsSound
  <2>2. running'[r] = [running[r] EXCEPT !.clean = FALSE]
    BY DEF Outdate
  <2> QED
    BY <2>1, <2>2
<1>2. RunsSound'
  BY <1>1 DEF FlInv, RunsSound
<1> QED
  BY <1>1, <1>2 DEF Outdate

LEMMA RowsChange ==
  ASSUME FlInv, NEW t \in Watched, Changed(t),
         facts' \in [Watched -> [present : BOOLEAN, flagged : BOOLEAN,
                                 reviewed : BOOLEAN, excluded : BOOLEAN]],
         \A u \in Watched \ {t, Twin[t]} : facts'[u] = facts[u]
  PROVE  FlInv'
<1>1. finding' = finding /\ settled' = settled \ {t, Twin[t]} /\ Outdate
  BY DEF Changed
<1>2. ASSUME NEW u \in settled' PROVE facts'[u] = facts[u] /\ facts'[Twin[u]] = facts[Twin[u]]
  <2>1. u \in Watched /\ u # t /\ u # Twin[t] /\ Twin[u] \in Watched
    BY <1>1, TwinType DEF FlInv
  <2>2. Twin[u] # t /\ Twin[u] # Twin[t]
    BY <2>1, TwinsPaired
  <2> QED
    BY <2>1, <2>2
<1>3. ASSUME NEW u \in settled', facts'[u].present
      PROVE  /\ facts'[u].flagged /\ Verdict(u)' # "pass" => finding[u].status \in ActiveStatus
             /\ Verdict(u)' = "pass" => finding[u].status \notin ActiveStatus
  <2>1. Verdict(u)' = Verdict(u)
    BY <1>2 DEF Verdict
  <2>2. u \in settled
    BY <1>1
  <2> QED
    BY <1>2, <1>3, <2>1, <2>2 DEF FlInv, FindingsFollowTheBooks
<1>4. FindingsFollowTheBooks'
  BY <1>1, <1>3 DEF FindingsFollowTheBooks
<1>5. RunsSound' /\ running' = [r \in Runners |-> running'[r]]
  BY <1>1, AllOutdated
<1> QED
  BY <1>1, <1>4, <1>5 DEF FlInv

LEMMA FlRows ==
  ASSUME FlInv, NEW t \in Watched,
         FlagPair(t) \/ MarkLegitimate(t) \/ Include(t) \/ DeleteRow(t)
  PROVE  FlInv'
<1>1. facts \in [Watched -> [present : BOOLEAN, flagged : BOOLEAN,
                             reviewed : BOOLEAN, excluded : BOOLEAN]]
  BY DEF FlInv
<1>2. Changed(t) /\ Twin[t] \in Watched
  BY TwinType DEF FlagPair, MarkLegitimate, Include, DeleteRow
<1>3. CASE FlagPair(t)
  <2>1. PICK f, g : /\ f = [facts EXCEPT ![t].flagged = TRUE]
                    /\ g = [f EXCEPT ![t].excluded = TRUE]
    OBVIOUS
  <2>2. facts' = [g EXCEPT ![Twin[t]].flagged = TRUE]
    BY <1>3, <2>1 DEF FlagPair
  <2>3. f \in [Watched -> [present : BOOLEAN, flagged : BOOLEAN,
                           reviewed : BOOLEAN, excluded : BOOLEAN]]
        /\ \A u \in Watched \ {t} : f[u] = facts[u]
    BY <1>1, <2>1
  <2>4. g \in [Watched -> [present : BOOLEAN, flagged : BOOLEAN,
                           reviewed : BOOLEAN, excluded : BOOLEAN]]
        /\ \A u \in Watched \ {t} : g[u] = facts[u]
    BY <2>1, <2>3, ZenonT(60)
  <2>5. facts' \in [Watched -> [present : BOOLEAN, flagged : BOOLEAN,
                                reviewed : BOOLEAN, excluded : BOOLEAN]]
        /\ \A u \in Watched \ {t, Twin[t]} : facts'[u] = facts[u]
    BY <2>2, <2>4
  <2> QED
    BY <1>2, <2>5, RowsChange
<1>4. CASE MarkLegitimate(t)
  <2>1. PICK f, g : /\ f = [facts EXCEPT ![t].flagged = FALSE]
                    /\ g = [f EXCEPT ![t].reviewed = TRUE]
    OBVIOUS
  <2>2. facts' = [g EXCEPT ![t].excluded = FALSE]
    BY <1>4, <2>1 DEF MarkLegitimate
  <2>3. f \in [Watched -> [present : BOOLEAN, flagged : BOOLEAN,
                           reviewed : BOOLEAN, excluded : BOOLEAN]]
        /\ \A u \in Watched \ {t} : f[u] = facts[u]
    BY <1>1, <2>1
  <2>4. g \in [Watched -> [present : BOOLEAN, flagged : BOOLEAN,
                           reviewed : BOOLEAN, excluded : BOOLEAN]]
        /\ \A u \in Watched \ {t} : g[u] = facts[u]
    BY <2>1, <2>3, ZenonT(60)
  <2>5. facts' \in [Watched -> [present : BOOLEAN, flagged : BOOLEAN,
                                reviewed : BOOLEAN, excluded : BOOLEAN]]
        /\ \A u \in Watched \ {t, Twin[t]} : facts'[u] = facts[u]
    BY <2>2, <2>4
  <2> QED
    BY <1>2, <2>5, RowsChange
<1>5. CASE Include(t) \/ DeleteRow(t)
  <2>1. facts' \in [Watched -> [present : BOOLEAN, flagged : BOOLEAN,
                                reviewed : BOOLEAN, excluded : BOOLEAN]]
        /\ \A u \in Watched \ {t, Twin[t]} : facts'[u] = facts[u]
    BY <1>1, <1>5 DEF Include, DeleteRow
  <2> QED
    BY <1>2, <2>1, RowsChange
<1> QED
  BY <1>3, <1>4, <1>5

LEMMA FlBegin ==
  ASSUME FlInv, NEW r \in Runners, NEW S \in Scopes, BeginRun(r, S)
  PROVE  FlInv'
<1>1. UNCHANGED <<facts, finding, settled>>
  BY DEF BeginRun
<1>2. PICK run : run = [scope |-> S, result |-> [t \in Checked(S) |-> Verdict(t)], clean |-> TRUE]
  OBVIOUS
<1>3. /\ running' = [q \in Runners |-> running'[q]] /\ running'[r] = run
      /\ \A q \in Runners \ {r} : running'[q] = running[q]
  BY <1>2 DEF BeginRun, FlInv
<1>4. /\ DOMAIN run = {"scope", "result", "clean"} /\ run.scope = S
      /\ DOMAIN run.result = Checked(S) /\ \A t \in Checked(S) : run.result[t] = Verdict(t)
  BY <1>2
<1>5. S \subseteq Watched /\ Checked(S) \subseteq S
  BY TwinType DEF Checked
<1>6. /\ \A t : Verdict(t)' = Verdict(t)
      /\ \A T : Checked(T)' = Checked(T)
  BY <1>1 DEF Verdict, Checked
<1>7. ASSUME NEW q \in Runners
      PROVE  /\ DOMAIN running'[q] = {"scope", "result", "clean"}
             /\ DOMAIN running'[q].result \subseteq running'[q].scope
             /\ running'[q].scope \subseteq Watched
             /\ running'[q].clean =>
                  /\ DOMAIN running'[q].result = Checked(running'[q].scope)
                  /\ \A t \in Checked(running'[q].scope) : running'[q].result[t] = Verdict(t)
  <2>1. CASE q = r
    BY <1>3, <1>4, <1>5, <2>1
  <2>2. CASE q # r
    BY <1>3, <2>2 DEF FlInv, RunsSound
  <2> QED
    BY <2>1, <2>2
<1>8. RunsSound'
  BY <1>6, <1>7 DEF RunsSound
<1>9. FindingsFollowTheBooks'
  BY <1>1, <1>6 DEF FlInv, FindingsFollowTheBooks
<1> QED
  BY <1>1, <1>3, <1>8, <1>9 DEF FlInv

LEMMA FlCommit ==
  ASSUME FlInv, NEW r \in Runners, CommitRun(r)
  PROVE  FlInv'
<1>1. PICK run : run = running[r]
  OBVIOUS
<1>2. /\ facts' = facts
      /\ finding' = [t \in Watched |-> IF t \in DOMAIN run.result
                                       THEN Judged(finding[t], run.result[t])
                                       ELSE finding[t]]
      /\ running' = [q \in Runners |-> IF q = r THEN NoRun
                                       ELSE [running[q] EXCEPT !.clean = FALSE]]
      /\ settled' = IF run.clean THEN settled \cup run.scope ELSE settled \ run.scope
  BY <1>1 DEF CommitRun
<1>3. /\ DOMAIN run.result \subseteq run.scope /\ run.scope \subseteq Watched
      /\ run.clean => /\ DOMAIN run.result = Checked(run.scope)
                      /\ \A t \in Checked(run.scope) : run.result[t] = Verdict(t)
  BY <1>1 DEF FlInv, RunsSound
<1>4. \A t : Verdict(t)' = Verdict(t)
  BY <1>2 DEF Verdict
<1>5. ASSUME NEW t \in Watched
      PROVE  /\ finding'[t].status \in FindingStatus
             /\ finding'[t] = [status |-> finding'[t].status, count |-> finding'[t].count]
             /\ t \in DOMAIN run.result =>
                  IF run.result[t] = "pass" THEN finding'[t].status \notin ActiveStatus
                  ELSE finding'[t].status \in ActiveStatus
             /\ t \notin DOMAIN run.result => finding'[t] = finding[t]
  <2>1. PICK f : f = finding[t]
    OBVIOUS
  <2>2. f = [status |-> f.status, count |-> f.count] /\ f.status \in FindingStatus
    BY <2>1 DEF FlInv
  <2>3. CASE t \notin DOMAIN run.result
    BY <1>2, <2>1, <2>2, <2>3
  <2>4. CASE t \in DOMAIN run.result /\ run.result[t] = "pass" /\ f.status \in ActiveStatus
    <3>1. finding'[t] = [f EXCEPT !.status = "superseded"]
      BY <1>2, <2>1, <2>4 DEF Judged, Superseded
    <3>2. finding'[t] = [status |-> "superseded", count |-> f.count]
      BY <2>2, <3>1
    <3> QED
      BY <2>4, <3>2 DEF FindingStatus, ActiveStatus
  <2>5. CASE t \in DOMAIN run.result /\ run.result[t] = "pass" /\ f.status \notin ActiveStatus
    <3>1. finding'[t] = f
      BY <1>2, <2>1, <2>5 DEF Judged, Superseded
    <3> QED
      BY <2>2, <2>5, <3>1
  <2>6. CASE t \in DOMAIN run.result /\ run.result[t] # "pass"
    <3>1. finding'[t] = [status |-> IF f.status \in ActiveStatus THEN f.status ELSE "open",
                         count |-> f.count + 1]
      BY <1>2, <2>1, <2>6 DEF Judged, Reincident
    <3>2. finding'[t].status \in ActiveStatus
      BY <3>1 DEF ActiveStatus
    <3> QED
      BY <2>6, <3>1, <3>2 DEF FindingStatus
  <2> QED
    BY <2>3, <2>4, <2>5, <2>6
<1>6. ASSUME NEW t \in settled', facts[t].present
      PROVE  /\ facts[t].flagged /\ Verdict(t) # "pass" => finding'[t].status \in ActiveStatus
             /\ Verdict(t) = "pass" => finding'[t].status \notin ActiveStatus
  <2>1. t \in Watched
    BY <1>2, <1>3 DEF FlInv
  <2>2. CASE run.clean /\ t \in run.scope
    <3>1. CASE t \in Checked(run.scope)
      BY <1>3, <1>5, <2>1, <2>2, <3>1
    <3>2. CASE t \notin Checked(run.scope)
      <4>1. ~facts[t].flagged /\ finding[t].status \notin ActiveStatus
        BY <1>6, <2>2, <3>2 DEF Checked
      <4> QED
        BY <1>3, <1>5, <2>1, <2>2, <3>2, <4>1
    <3> QED
      BY <3>1, <3>2
  <2>3. CASE t \in settled /\ t \notin run.scope
    BY <1>3, <1>5, <1>6, <2>1, <2>3 DEF FlInv, FindingsFollowTheBooks
  <2> QED
    BY <1>2, <2>2, <2>3
<1>7. FindingsFollowTheBooks'
  BY <1>2, <1>4, <1>6 DEF FindingsFollowTheBooks
<1>8. ASSUME NEW q \in Runners
      PROVE  /\ DOMAIN running'[q] = {"scope", "result", "clean"}
             /\ DOMAIN running'[q].result \subseteq running'[q].scope
             /\ running'[q].scope \subseteq Watched
             /\ running'[q].clean => DOMAIN running'[q].result = {} /\ running'[q].scope = {}
  <2>1. CASE q = r
    <3>1. running'[q] = NoRun
      BY <1>2, <2>1
    <3> QED
      BY <3>1 DEF NoRun
  <2>2. CASE q # r
    <3>1. running'[q] = [running[q] EXCEPT !.clean = FALSE]
      BY <1>2, <2>2
    <3>2. /\ DOMAIN running[q] = {"scope", "result", "clean"}
          /\ DOMAIN running[q].result \subseteq running[q].scope
          /\ running[q].scope \subseteq Watched
      BY DEF FlInv, RunsSound
    <3> QED
      BY <3>1, <3>2
  <2> QED
    BY <2>1, <2>2
<1>9. RunsSound'
  BY <1>8 DEF RunsSound, Checked
<1>10. finding' = [t \in Watched |-> [status |-> finding'[t].status, count |-> finding'[t].count]]
  BY <1>2, <1>5
<1>11. settled' \subseteq Watched
  BY <1>2, <1>3 DEF FlInv
<1> QED
  BY <1>2, <1>5, <1>7, <1>9, <1>10, <1>11 DEF FlInv

LEMMA FlFail ==
  ASSUME FlInv, NEW r \in Runners, FailRun(r)
  PROVE  FlInv'
<1>1. UNCHANGED <<facts, finding, settled>> /\ running' = [running EXCEPT ![r] = NoRun]
  BY DEF FailRun
<1>2. /\ running' = [q \in Runners |-> running'[q]] /\ running'[r] = NoRun
      /\ \A q \in Runners \ {r} : running'[q] = running[q]
  BY <1>1 DEF FlInv
<1>3. /\ \A t : Verdict(t)' = Verdict(t)
      /\ \A T : Checked(T)' = Checked(T)
  BY <1>1 DEF Verdict, Checked
<1>4. ASSUME NEW q \in Runners
      PROVE  /\ DOMAIN running'[q] = {"scope", "result", "clean"}
             /\ DOMAIN running'[q].result \subseteq running'[q].scope
             /\ running'[q].scope \subseteq Watched
             /\ running'[q].clean =>
                  /\ DOMAIN running'[q].result = Checked(running'[q].scope)
                  /\ \A t \in Checked(running'[q].scope) : running'[q].result[t] = Verdict(t)
  <2>1. CASE q = r
    <3>1. /\ DOMAIN running'[q] = {"scope", "result", "clean"}
          /\ running'[q].scope = {} /\ DOMAIN running'[q].result = {}
      BY <1>2, <2>1 DEF NoRun
    <3> QED
      BY <3>1 DEF Checked
  <2>2. CASE q # r
    BY <1>2, <2>2 DEF FlInv, RunsSound
  <2> QED
    BY <2>1, <2>2
<1>5. RunsSound'
  BY <1>3, <1>4 DEF RunsSound
<1>6. FindingsFollowTheBooks'
  BY <1>1, <1>3 DEF FlInv, FindingsFollowTheBooks
<1> QED
  BY <1>1, <1>2, <1>5, <1>6 DEF FlInv

LEMMA FlDecision ==
  ASSUME FlInv, NEW d \in Deciders, WriteFinding(d),
         asked[d].to \in FindingStatus
  PROVE  FlInv'
<1>1. PICK on, to : on = asked[d].on /\ to = asked[d].to
  OBVIOUS
<1>2. /\ facts' = facts /\ Outdate /\ settled' = settled \ {on}
      /\ finding' = [finding EXCEPT ![on].status = to]
  BY <1>1 DEF WriteFinding
<1>3. \A t : Verdict(t)' = Verdict(t)
  BY <1>2 DEF Verdict
<1>4. ASSUME NEW t \in Watched
      PROVE  /\ finding'[t].status \in FindingStatus
             /\ finding'[t] = [status |-> finding'[t].status, count |-> finding'[t].count]
             /\ t # on => finding'[t] = finding[t]
  <2>1. PICK f : f = finding[t]
    OBVIOUS
  <2>2. /\ f = [status |-> f.status, count |-> f.count] /\ f.status \in FindingStatus
        /\ t \in DOMAIN finding
    BY <2>1 DEF FlInv
  <2>3. CASE t = on
    <3>1. finding'[t] = [f EXCEPT !.status = to]
      BY <1>2, <2>1, <2>2, <2>3
    <3>2. finding'[t] = [status |-> to, count |-> f.count]
      BY <2>2, <3>1
    <3> QED
      BY <1>1, <2>3, <3>2
  <2>4. CASE t # on
    BY <1>2, <2>1, <2>2, <2>4
  <2> QED
    BY <2>3, <2>4
<1>5. finding' = [t \in Watched |-> [status |-> finding'[t].status, count |-> finding'[t].count]]
  <2>1. DOMAIN finding' = Watched /\ finding' = [t \in Watched |-> finding'[t]]
    BY <1>2 DEF FlInv
  <2> QED
    BY <1>4, <2>1
<1>6. FindingsFollowTheBooks'
  BY <1>2, <1>3, <1>4 DEF FlInv, FindingsFollowTheBooks
<1>7. RunsSound' /\ running' = [r \in Runners |-> running'[r]]
  BY <1>2, AllOutdated
<1>8. settled' \subseteq Watched
  BY <1>2 DEF FlInv
<1> QED
  BY <1>2, <1>4, <1>5, <1>6, <1>7, <1>8 DEF FlInv

(* A decision asks for a status that exists.                                *)
AsksSound == \A d \in Deciders : asked[d] # NoAsk => asked[d].to \in FindingStatus

LEMMA FlStep == FlInv /\ AsksSound /\ [FlNext]_flVars => FlInv' /\ AsksSound'
<1> SUFFICES ASSUME FlInv, AsksSound, [FlNext]_flVars PROVE FlInv' /\ AsksSound'
  OBVIOUS
<1>1. ASSUME NEW t \in Watched, FlagPair(t) \/ MarkLegitimate(t) \/ Include(t) \/ DeleteRow(t)
      PROVE  FlInv' /\ AsksSound'
  <2>1. asked' = asked
    BY <1>1 DEF FlagPair, MarkLegitimate, Include, DeleteRow, Changed
  <2> QED
    BY <1>1, <2>1, FlRows DEF AsksSound
<1>2. ASSUME NEW r \in Runners, NEW S \in Scopes, BeginRun(r, S) PROVE FlInv' /\ AsksSound'
  BY <1>2, FlBegin DEF BeginRun, AsksSound
<1>3. ASSUME NEW r \in Runners, CommitRun(r) PROVE FlInv' /\ AsksSound'
  BY <1>3, FlCommit DEF CommitRun, AsksSound
<1>4. ASSUME NEW r \in Runners, FailRun(r) PROVE FlInv' /\ AsksSound'
  BY <1>4, FlFail DEF FailRun, AsksSound
<1>5. ASSUME NEW d \in Deciders, NEW t \in Watched, NEW to \in Verdicts \cup {"acknowledged"},
             ReadFinding(d, t, to)
      PROVE  FlInv' /\ AsksSound'
  <2>1. UNCHANGED <<facts, finding, running, settled>>
    BY <1>5 DEF ReadFinding
  <2>2. /\ \A u : Verdict(u)' = Verdict(u)
        /\ \A T : Checked(T)' = Checked(T)
    BY <2>1 DEF Verdict, Checked
  <2>3. RunsSound' /\ FindingsFollowTheBooks'
    BY <2>1, <2>2 DEF FlInv, RunsSound, FindingsFollowTheBooks
  <2>4. to \in FindingStatus
    BY DEF FindingStatus, ActiveStatus
  <2>5. AsksSound'
    BY <1>5, <2>4 DEF ReadFinding, AsksSound
  <2> QED
    BY <2>1, <2>3, <2>5 DEF FlInv
<1>6. ASSUME NEW d \in Deciders, WriteFinding(d) PROVE FlInv' /\ AsksSound'
  <2>1. asked[d].to \in FindingStatus
    BY <1>6 DEF WriteFinding, AsksSound
  <2>2. AsksSound'
    BY <1>6 DEF WriteFinding, AsksSound
  <2> QED
    BY <1>6, <2>1, <2>2, FlDecision
<1>7. ASSUME UNCHANGED flVars PROVE FlInv' /\ AsksSound'
  <2>1. UNCHANGED <<facts, finding, running, settled, asked>>
    BY <1>7 DEF flVars
  <2>2. /\ \A u : Verdict(u)' = Verdict(u)
        /\ \A T : Checked(T)' = Checked(T)
    BY <2>1 DEF Verdict, Checked
  <2>3. RunsSound' /\ FindingsFollowTheBooks' /\ AsksSound'
    BY <2>1, <2>2 DEF FlInv, RunsSound, FindingsFollowTheBooks, AsksSound
  <2> QED
    BY <2>1, <2>3 DEF FlInv
<1> QED
  BY <1>1, <1>2, <1>3, <1>4, <1>5, <1>6, <1>7 DEF FlNext

(* Once a run that read nothing outdated has covered a row its finding is   *)
(* open exactly when the check fails, until the row changes or a person     *)
(* decides, for any number of runs and decisions in flight.                 *)
THEOREM FindingsAreCurrent == FlSpec => []FindingsFollowTheBooks
<1>1. FlInv => FindingsFollowTheBooks
  BY DEF FlInv
<1>2. FlInit => AsksSound
  BY DEF FlInit, AsksSound
<1> QED
  BY <1>1, <1>2, FlStart, FlStep, PTL DEF FlSpec

(* Each commit adds one occurrence at most to a finding, so occurrences are *)
(* bounded by the commits, and a run covers one of the scopes.              *)
FlCounted ==
    /\ events \in 0 .. MaxEvents
    /\ \A t \in Watched : finding[t].count \in 0 .. events
    /\ \A r \in Runners : running[r].scope \in Scopes \cup {{}}

LEMMA OccurrencesFollow ==
  ASSUME FlInv, FlCounted, NEW r \in Runners, CommitRun(r), NEW t \in Watched
  PROVE  finding'[t].count \in 0 .. events + 1
<1>1. PICK f : f = finding[t]
  OBVIOUS
<1>2. PICK run : run = running[r]
  OBVIOUS
<1>3. finding'[t] = IF t \in DOMAIN run.result THEN Judged(f, run.result[t]) ELSE f
  BY <1>1, <1>2 DEF CommitRun
<1>4. f = [status |-> f.status, count |-> f.count] /\ f.count \in 0 .. events /\ events \in Nat
  BY <1>1 DEF FlInv, FlCounted
<1>5. Superseded(f).count = f.count
  <2>1. CASE f.status \in ActiveStatus
    <3>1. Superseded(f) = [f EXCEPT !.status = "superseded"]
      BY <2>1 DEF Superseded
    <3> QED
      BY <1>4, <3>1
  <2>2. CASE f.status \notin ActiveStatus
    BY <2>2 DEF Superseded
  <2> QED
    BY <2>1, <2>2
<1>6. Reincident(f).count = f.count + 1
  BY DEF Reincident
<1>7. finding'[t].count \in {f.count, f.count + 1}
  BY <1>3, <1>5, <1>6 DEF Judged
<1> QED
  BY <1>4, <1>7

LEMMA FlCountedStart == FlInit => FlCounted
<1> SUFFICES ASSUME FlInit PROVE FlCounted
  OBVIOUS
<1>1. ASSUME NEW r \in Runners PROVE running[r].scope = {}
  BY DEF FlInit, NoRun
<1> QED
  BY <1>1, EventsBound DEF FlInit, FlCounted

LEMMA FlCountedStep ==
  FlInv /\ FlCounted /\ [FlNext]_flVars => FlCounted'
<1> SUFFICES ASSUME FlInv, FlCounted, [FlNext]_flVars PROVE FlCounted'
  OBVIOUS
<1> USE EventsBound
<1>1. ASSUME Outdate PROVE \A r \in Runners : running'[r].scope = running[r].scope
  <2> SUFFICES ASSUME NEW r \in Runners PROVE running'[r].scope = running[r].scope
    OBVIOUS
  <2>1. running'[r] = [running[r] EXCEPT !.clean = FALSE]
    BY <1>1 DEF Outdate
  <2> QED
    BY <2>1 DEF FlInv, RunsSound
<1>2. ASSUME NEW t \in Watched, FlagPair(t) \/ MarkLegitimate(t) \/ Include(t) \/ DeleteRow(t)
      PROVE  FlCounted'
  <2>1. Commit /\ Outdate /\ finding' = finding
    BY <1>2 DEF FlagPair, MarkLegitimate, Include, DeleteRow, Changed
  <2> QED
    BY <1>1, <2>1 DEF Commit, FlCounted
<1>3. ASSUME NEW r \in Runners, NEW S \in Scopes, BeginRun(r, S) PROVE FlCounted'
  <2>1. PICK run : run = [scope |-> S, result |-> [t \in Checked(S) |-> Verdict(t)], clean |-> TRUE]
    OBVIOUS
  <2>2. running' = [running EXCEPT ![r] = run] /\ UNCHANGED <<finding, events>> /\ run.scope = S
    BY <1>3, <2>1 DEF BeginRun
  <2> QED
    BY <2>2 DEF FlInv, FlCounted
<1>4. ASSUME NEW r \in Runners, CommitRun(r) PROVE FlCounted'
  <2>1. Commit /\ running' = [q \in Runners |-> IF q = r THEN NoRun
                                              ELSE [running[q] EXCEPT !.clean = FALSE]]
    BY <1>4 DEF CommitRun
  <2>2. ASSUME NEW q \in Runners PROVE running'[q].scope \in Scopes \cup {{}}
    <3>1. CASE q = r
      BY <2>1, <3>1 DEF NoRun
    <3>2. CASE q # r
      BY <2>1, <3>2 DEF FlInv, RunsSound, FlCounted
    <3> QED
      BY <3>1, <3>2
  <2> QED
    BY <1>4, <2>1, <2>2, OccurrencesFollow DEF Commit, FlCounted
<1>5. ASSUME NEW r \in Runners, FailRun(r) PROVE FlCounted'
  <2>1. Commit /\ finding' = finding /\ running' = [running EXCEPT ![r] = NoRun] /\ NoRun.scope = {}
    BY <1>5 DEF FailRun, NoRun
  <2> QED
    BY <2>1 DEF Commit, FlInv, FlCounted
<1>6. ASSUME NEW d \in Deciders, NEW t \in Watched, NEW to \in Verdicts \cup {"acknowledged"},
             ReadFinding(d, t, to)
      PROVE  FlCounted'
  BY <1>6 DEF ReadFinding, FlCounted
<1>7. ASSUME NEW d \in Deciders, WriteFinding(d) PROVE FlCounted'
  <2>1. Commit /\ Outdate /\ finding' = [finding EXCEPT ![asked[d].on].status = asked[d].to]
    BY <1>7 DEF WriteFinding
  <2>2. ASSUME NEW t \in Watched PROVE finding'[t].count = finding[t].count
    <3>1. PICK f : f = finding[t]
      OBVIOUS
    <3>2. f = [status |-> f.status, count |-> f.count] /\ t \in DOMAIN finding
      BY <3>1 DEF FlInv
    <3>3. finding'[t] \in {f, [f EXCEPT !.status = asked[d].to]}
      BY <2>1, <3>1, <3>2
    <3> QED
      BY <3>1, <3>2, <3>3
  <2> QED
    BY <1>1, <2>1, <2>2 DEF Commit, FlCounted
<1>8. ASSUME UNCHANGED flVars PROVE FlCounted'
  BY <1>8 DEF flVars, FlCounted
<1> QED
  BY <1>2, <1>3, <1>4, <1>5, <1>6, <1>7, <1>8 DEF FlNext

(* Findings, runs and decisions are of their types, and no finding has more *)
(* occurrences than there were commits.                                     *)
THEOREM FindingTypes == FlSpec => []FindingTypeOK
<1>1. FlInv /\ AsksSound /\ FlCounted => FindingTypeOK
  <2> SUFFICES ASSUME FlInv, AsksSound, FlCounted PROVE FindingTypeOK
    OBVIOUS
  <2>1. \A t \in Watched : finding[t].count \in 0 .. MaxEvents
    BY EventsBound DEF FlCounted
  <2>2. finding \in [Watched -> [status : FindingStatus, count : 0 .. MaxEvents]]
    BY <2>1 DEF FlInv
  <2>3. \A r \in Runners : DOMAIN running[r].result \subseteq running[r].scope
    BY DEF FlInv, RunsSound
  <2> QED
    BY <2>2, <2>3 DEF FlInv, AsksSound, FlCounted, FindingTypeOK
<1>2. FlInit => AsksSound
  BY DEF FlInit, AsksSound
<1> QED
  BY <1>1, <1>2, FlStart, FlStep, FlCountedStart, FlCountedStep, PTL DEF FlSpec

-----------------------------------------------------------------------------
(* A set of numbers has a least one, and a finite set a foremost element.   *)
LEMMA LeastNumber ==
  ASSUME NEW S \in SUBSET Nat, S # {}
  PROVE  \E m \in S : \A k \in S : m <= k
<1> DEFINE R == {ss \in Nat \X Nat : ss[1] < ss[2]}
<1>1. IsWellFoundedOn(R, Nat)
  <2> R = OpToRel(<, Nat)
    BY DEF OpToRel
  <2> QED
    BY NatLessThanWellFounded
<1>2. \A x, y \in Nat : y < x => <<y, x>> \in R
  OBVIOUS
<1> HIDE DEF R
<1>3. PICK x \in S : \A y \in S : ~ (<<y, x>> \in R)
  BY <1>1, WFMin
<1>4. ASSUME NEW y \in S PROVE x <= y
  <2>1. x \in Nat /\ y \in Nat
    OBVIOUS
  <2>2. ~ (y < x)
    BY <2>1, <1>2, <1>3
  <2> QED
    BY <2>1, <2>2
<1> QED
  BY <1>4

(* A finite set has a member whose value is as high as any.                 *)
LEMMA Foremost ==
  ASSUME NEW S, IsFiniteSet(S), S # {}, NEW f \in [S -> Nat]
  PROVE  \E r \in S : \A s \in S : f[s] <= f[r]
<1> DEFINE Above(r) == {s \in S : f[s] > f[r]}
           Ns == {Cardinality(Above(r)) : r \in S}
<1>1. ASSUME NEW r \in S PROVE IsFiniteSet(Above(r)) /\ Cardinality(Above(r)) \in Nat
  <2> Above(r) \subseteq S
    OBVIOUS
  <2> HIDE DEF Above
  <2> QED
    BY FS_Subset, FS_CardinalityType
<1>2. PICK m \in Ns : \A k \in Ns : m <= k
  <2> Ns \in SUBSET Nat /\ Ns # {}
    BY <1>1
  <2> HIDE DEF Ns
  <2> QED
    BY LeastNumber
<1>3. PICK r \in S : m = Cardinality(Above(r))
  BY <1>2
<1>4. ASSUME NEW s \in S, f[s] > f[r] PROVE FALSE
  <2>1. Above(s) \subseteq Above(r) /\ s \in Above(r) /\ s \notin Above(s)
    BY <1>4
  <2>2. Cardinality(Above(s)) \in Ns
    OBVIOUS
  <2> HIDE DEF Above, Ns
  <2>3. Cardinality(Above(s)) < Cardinality(Above(r))
    <3>1. Above(s) # Above(r)
      BY <2>1
    <3>2. Cardinality(Above(s)) <= Cardinality(Above(r))
      BY <1>1, <2>1, FS_Subset
    <3>3. Cardinality(Above(s)) = Cardinality(Above(r)) => Above(s) = Above(r)
      BY <1>1, <2>1, FS_Subset
    <3>4. Cardinality(Above(s)) \in Nat /\ Cardinality(Above(r)) \in Nat
      BY <1>1
    <3> QED
      BY <3>1, <3>2, <3>3, <3>4
  <2>4. Cardinality(Above(r)) <= Cardinality(Above(s))
    BY <1>2, <1>3, <2>2
  <2>5. Cardinality(Above(s)) \in Nat /\ Cardinality(Above(r)) \in Nat
    BY <1>1
  <2> QED
    BY <2>3, <2>4, <2>5
<1>5. \A s \in S : f[s] <= f[r]
  BY <1>4
<1> QED
  BY <1>5

(* Duplicate groups.  The row a new one is paired with is one of its        *)
(* candidates: the most alike of them, the first of those.                  *)
LEMMA BestIsACandidate ==
  ASSUME NEW d, NEW r \in DupRows, Candidates(d, r) # {}
  PROVE  BestCandidate(d, r) \in Candidates(d, r)
<1> DEFINE C == Candidates(d, r)
           f == [s \in C |-> Confidence[s][r]]
<1>1. C \subseteq DupRows /\ IsFiniteSet(C) /\ C # {}
  <2>1. C \subseteq DupRows
    BY DEF Candidates, Present
  <2> QED
    BY <2>1, RowsNat, FS_Subset
<1>2. \A s \in C : Confidence[s][r] \in Nat
  BY <1>1, Scores
<1> HIDE DEF C
<1>3. f \in [C -> Nat] /\ \A s \in C : f[s] = Confidence[s][r]
  BY <1>2
<1>4. PICK b \in C : \A s \in C : Confidence[s][r] <= Confidence[b][r]
  <2> HIDE DEF f
  <2>1. PICK b \in C : \A s \in C : f[s] <= f[b]
    BY <1>1, <1>3, Foremost
  <2> QED
    BY <1>3, <2>1
<1> DEFINE T == {s \in C : Confidence[s][r] = Confidence[b][r]}
<1>5. T \in SUBSET Nat /\ T # {}
  BY <1>1, <1>4, RowsNat
<1>6. PICK m \in T : \A k \in T : m <= k
  <2> HIDE DEF T
  <2> QED
    BY <1>5, LeastNumber
<1>7. \A t \in C : \/ Confidence[m][r] > Confidence[t][r]
                   \/ Confidence[m][r] = Confidence[t][r] /\ m <= t
  BY <1>2, <1>4, <1>6
<1> QED
  BY <1>6, <1>7 DEF BestCandidate, C

LEMMA PairedWith ==
  ASSUME NEW d, Shape(d), NEW r \in DupRows, Candidates(d, r) # {}
  PROVE  /\ BestCandidate(d, r) \in DupRows \ {r} /\ d.rows[BestCandidate(d, r)].present
         /\ GroupFor(d, r, BestCandidate(d, r)) \in Keys
<1>1. PICK s : s = BestCandidate(d, r)
  OBVIOUS
<1>2. s \in DupRows \ {r} /\ d.rows[s].present
  BY <1>1, BestIsACandidate DEF Candidates, Present
<1>3. d.rows[s].group \in Keys \cup {NoRow} /\ KeyOf[s][r] \in Keys
  BY <1>2, Scores DEF Shape
<1>4. GroupFor(d, r, s) \in Keys
  BY <1>3 DEF GroupFor
<1> QED
  BY <1>1, <1>2, <1>4

(* What grouping two rows changes: c counts, x is kept out.                 *)
GroupedAs(d, n, k, c, x, apply) ==
    /\ Shape(n)
    /\ \A t \in DupRows : /\ n.rows[t].present = d.rows[t].present
                          /\ n.rows[t].excluded = ((apply /\ t = x) \/ d.rows[t].excluded)
    /\ n.groups[k].status = "open" /\ n.groups[k].canonical = c
    /\ \A j \in Keys \ {k} : n.groups[j] = d.groups[j] /\ n.members[j] = d.members[j]
    /\ \A t \in DupRows \ {c, x} : n.members[k][t] = d.members[k][t]
    /\ n.members[k][c].role \notin {"none", "distinct"} /\ ~n.members[k][c].byPolicy
    /\ n.members[k][x].role \notin {"none", "distinct"} /\ n.members[k][x].byPolicy

LEMMA GroupedRows ==
  ASSUME NEW d, Shape(d), NEW r \in DupRows, NEW s \in DupRows, r # s, NEW k \in Keys,
         NEW apply
  PROVE  \E c, x \in DupRows :
            /\ {c, x} = {r, Rival(d, r, s, k)} /\ c # x
            /\ GroupedAs(d, Grouped(d, r, s, k, apply), k, c, x, apply)
<1>1. PICK rival : rival = Rival(d, r, s, k)
  OBVIOUS
<1>2. rival \in DupRows /\ rival # r
  BY <1>1, RowsNat DEF Rival, Shape
<1>3. PICK c, x \in DupRows : /\ {c, x} = {r, rival} /\ c # x
                              /\ c = Winner(r, rival)
                              /\ x = IF c = r THEN rival ELSE r
  BY <1>2 DEF Winner
<1>4. PICK n : n = Grouped(d, r, s, k, apply)
  OBVIOUS
<1>5. n = [rows |-> IF apply
              THEN [d.rows EXCEPT ![c].group = k, ![x].group = k, ![x].excluded = TRUE]
              ELSE d.rows,
           groups |-> [d.groups EXCEPT ![k] = Reopened(@, c)],
           members |-> [d.members EXCEPT
              ![k][c] = [role |-> Label(k, "canonical"), byPolicy |-> FALSE],
              ![k][x] = [role |-> Label(k, "supporting"), byPolicy |-> TRUE]]]
  BY <1>1, <1>3, <1>4 DEF Grouped
<1>6. /\ n = [rows |-> n.rows, groups |-> n.groups, members |-> n.members]
      /\ n.rows = IF apply
              THEN [d.rows EXCEPT ![c].group = k, ![x].group = k, ![x].excluded = TRUE]
              ELSE d.rows
      /\ n.groups = [d.groups EXCEPT ![k] = Reopened(@, c)]
      /\ n.members = [d.members EXCEPT
              ![k][c] = [role |-> Label(k, "canonical"), byPolicy |-> FALSE],
              ![k][x] = [role |-> Label(k, "supporting"), byPolicy |-> TRUE]]
  BY <1>5
<1> DEFINE Rows == [present : BOOLEAN, excluded : BOOLEAN, group : Keys \cup {NoRow}]
           Mems == [role : Roles, byPolicy : BOOLEAN]
<1>7. d.rows \in [DupRows -> Rows] /\ d.members \in [Keys -> [DupRows -> Mems]]
  BY DEF Shape
<1>8. /\ n.rows \in [DupRows -> Rows]
      /\ \A t \in DupRows : /\ n.rows[t].present = d.rows[t].present
                            /\ n.rows[t].excluded = ((apply /\ t = x) \/ d.rows[t].excluded)
  <2>1. CASE ~apply
    BY <1>6, <1>7, <2>1
  <2>2. CASE apply
    <3>1. n.rows = [d.rows EXCEPT ![c].group = k, ![x].group = k, ![x].excluded = TRUE]
      BY <1>6, <2>2
    <3>2. PICK f : f = [d.rows EXCEPT ![c].group = k]
      OBVIOUS
    <3>3. PICK g : g = [f EXCEPT ![x].group = k]
      OBVIOUS
    <3>4. n.rows = [g EXCEPT ![x].excluded = TRUE]
      BY <3>1, <3>2, <3>3
    <3>5. f \in [DupRows -> Rows] /\ \A t \in DupRows : /\ f[t].present = d.rows[t].present
                                                        /\ f[t].excluded = d.rows[t].excluded
      BY <1>7, <3>2
    <3>6. g \in [DupRows -> Rows] /\ \A t \in DupRows : /\ g[t].present = d.rows[t].present
                                                        /\ g[t].excluded = d.rows[t].excluded
      BY <3>3, <3>5
    <3>7. n.rows \in [DupRows -> Rows]
      BY <3>4, <3>6, ZenonT(60)
    <3>8. ASSUME NEW t \in DupRows
          PROVE  /\ n.rows[t].present = d.rows[t].present
                 /\ n.rows[t].excluded = (t = x \/ d.rows[t].excluded)
      <4>1. g[t] \in Rows /\ g \in [DupRows -> Rows]
        BY <3>6
      <4>2. CASE t = x
        BY <3>4, <3>6, <4>1, <4>2
      <4>3. CASE t # x
        <5>1. n.rows[t] = g[t]
          BY <3>4, <4>1, <4>3
        <5>2. g[t].excluded \in BOOLEAN
          BY <4>1
        <5> QED
          BY <3>6, <4>3, <5>1, <5>2
      <4> QED
        BY <4>2, <4>3
    <3> QED
      BY <2>2, <3>7, <3>8
  <2> QED
    BY <2>1, <2>2
<1>9. /\ \A j \in Keys : /\ DOMAIN n.groups[j] = {"status", "resolution", "canonical", "past"}
                         /\ n.groups[j] = [y \in DOMAIN n.groups[j] |-> n.groups[j][y]]
                         /\ n.groups[j].canonical \in DupRows \cup {NoRow}
      /\ n.groups = [j \in Keys |-> n.groups[j]]
      /\ n.groups[k].status = "open" /\ n.groups[k].canonical = c
      /\ \A j \in Keys \ {k} : n.groups[j] = d.groups[j]
  <2>1. d.groups = [j \in Keys |-> d.groups[j]]
    BY DEF Shape
  <2>2. DOMAIN d.groups = Keys
    BY <2>1
  <2>3. n.groups[k] = Reopened(d.groups[k], c) /\ \A j \in Keys \ {k} : n.groups[j] = d.groups[j]
    BY <1>6, <2>2
  <2>4. n.groups = [j \in Keys |-> n.groups[j]]
    BY <1>6, <2>2
  <2>5. /\ DOMAIN n.groups[k] = {"status", "resolution", "canonical", "past"}
        /\ n.groups[k] = [y \in DOMAIN n.groups[k] |-> n.groups[k][y]]
        /\ n.groups[k].canonical = c /\ n.groups[k].status = "open"
    <3>1. PICK g : g = n.groups[k]
      OBVIOUS
    <3>2. PICK q : g = [status |-> "open", resolution |-> "none", canonical |-> c, past |-> q]
      BY <2>3, <3>1 DEF Reopened
    <3>3. /\ DOMAIN g = {"status", "resolution", "canonical", "past"}
          /\ g = [y \in DOMAIN g |-> g[y]] /\ g.canonical = c /\ g.status = "open"
      BY <3>2
    <3> QED
      BY <3>1, <3>3
  <2> QED
    BY <1>3, <2>3, <2>4, <2>5 DEF Shape
<1>10. Label(k, "canonical") \in {"canonical", "candidate"}
       /\ Label(k, "supporting") \in {"supporting", "candidate"}
  BY DEF Label
<1>11. PICK A, B \in Mems :
          /\ A = [role |-> Label(k, "canonical"), byPolicy |-> FALSE]
          /\ B = [role |-> Label(k, "supporting"), byPolicy |-> TRUE]
  BY <1>10 DEF Roles
<1>12. /\ A.role \notin {"none", "distinct"} /\ ~A.byPolicy
       /\ B.role \notin {"none", "distinct"} /\ B.byPolicy
  BY <1>10, <1>11
<1>13. n.members = [d.members EXCEPT ![k][c] = A, ![k][x] = B]
  BY <1>6, <1>11
<1>14. /\ n.members \in [Keys -> [DupRows -> Mems]]
       /\ \A j \in Keys \ {k} : n.members[j] = d.members[j]
       /\ \A t \in DupRows \ {c, x} : n.members[k][t] = d.members[k][t]
       /\ n.members[k][c] = A /\ n.members[k][x] = B
  <2> HIDE DEF Mems
  <2> QED
    BY <1>3, <1>7, <1>13, SMTT(30)
<1>15. Shape(n)
  BY <1>6, <1>8, <1>9, <1>14 DEF Shape
<1>16. GroupedAs(d, n, k, c, x, apply)
  BY <1>8, <1>9, <1>12, <1>14, <1>15 DEF GroupedAs
<1> QED
  BY <1>1, <1>3, <1>4, <1>16

(* Grouping a row that nothing keeps out but itself leaves a group whose    *)
(* rows are in no other in order, and the groups beside it as they were.    *)
LEMMA GroupedIsSound ==
  ASSUME NEW d, NEW mine, NEW past, SoundBooks(d, mine, past),
         NEW r \in DupRows, NEW s \in DupRows, r # s, NEW k \in Keys, NEW apply \in BOOLEAN,
         d.rows[r].present, d.rows[s].present, ~KeptOut(d, mine, r),
         AloneIn(d, k) /\ past[k] \subseteq {"backfill"} /\ d.groups[k].canonical = r
             => \A t \in DupRows : InGroup(d, k, t) => ~KeptOut(d, mine, t),
         NEW n, n = Grouped(d, r, s, k, apply)
  PROVE  /\ Shape(n) /\ RowsThere(n) /\ LoneRows(n, mine)
         /\ \A t \in DupRows : n.rows[t].present = d.rows[t].present
         /\ ~apply => \A t \in DupRows : n.rows[t].excluded = d.rows[t].excluded
         /\ \A j \in Keys, t \in DupRows : InGroup(d, j, t) => InGroup(n, j, t)
         /\ \A j \in Keys : AloneIn(n, j) /\ past[j] \subseteq {"backfill"} =>
               /\ Ordered(n, mine, j)
               /\ past[j] = {} /\ (apply \/ j # k) => OthersOut(n, j)
         /\ AloneIn(n, k) /\ past[k] \subseteq {"backfill"} =>
               \/ n.groups[k].canonical = r
               \/ /\ n.groups[k].canonical = d.groups[k].canonical
                  /\ \A t \in DupRows : InGroup(n, k, t) =>
                        InGroup(d, k, t) \/ t \in {r, n.groups[k].canonical}
               \/ \A t \in DupRows : InGroup(n, k, t) => ~KeptOut(d, mine, t)
         /\ \A j \in Keys \ {k} : n.groups[j] = d.groups[j] /\ n.members[j] = d.members[j]
<1>1. PICK rival : rival = Rival(d, r, s, k)
  OBVIOUS
<1>2. PICK c, x \in DupRows : {c, x} = {r, rival} /\ c # x /\ GroupedAs(d, n, k, c, x, apply)
  <2>1. Shape(d)
    BY DEF SoundBooks
  <2>2. \E c, x \in DupRows :
            /\ {c, x} = {r, Rival(d, r, s, k)} /\ c # x
            /\ GroupedAs(d, Grouped(d, r, s, k, apply), k, c, x, apply)
    BY <2>1, GroupedRows
  <2> QED
    BY <1>1, <2>2
<1> DEFINE Has(j, t) == InGroup(d, j, t)
           Out(t) == KeptOut(d, mine, t)
           clean(j) == AloneIn(n, j) /\ past[j] \subseteq {"backfill"}
<1>3. /\ \A j \in Keys \ {k}, t \in DupRows : InGroup(n, j, t) <=> Has(j, t)
      /\ \A t \in DupRows : InGroup(n, k, t) <=> (t \in {c, x} \/ Has(k, t))
  BY <1>2 DEF GroupedAs, InGroup
<1>4. ASSUME NEW j \in Keys, clean(j)
      PROVE  /\ AloneIn(d, j) /\ Ordered(d, mine, j)
             /\ past[j] = {} => OthersOut(d, j)
  <2>1. AloneIn(d, j)
    BY <1>3, <1>4 DEF AloneIn
  <2> QED
    BY <1>4, <2>1 DEF SoundBooks
<1>5. Shape(n)
  BY <1>2 DEF GroupedAs
<1>6. rival \in DupRows /\ d.rows[rival].present
  BY <1>1, RowsNat DEF Rival, SoundBooks, Shape, RowsThere
<1>7. RowsThere(n)
  <2>1. d.rows[c].present /\ d.rows[x].present
    BY <1>2, <1>6
  <2> QED
    <3>1. \A j \in Keys, t \in DupRows : InGroup(n, j, t) => n.rows[t].present
      BY <1>2, <1>3, <2>1 DEF RowsThere, GroupedAs, SoundBooks
    <3>2. ASSUME NEW j \in Keys, n.groups[j].canonical # NoRow
          PROVE  n.rows[n.groups[j].canonical].present
      <4>1. CASE j = k
        BY <1>2, <2>1, <4>1 DEF GroupedAs
      <4>2. CASE j # k
        <5>1. n.groups[j].canonical = d.groups[j].canonical
          BY <1>2, <4>2 DEF GroupedAs
        <5>2. d.groups[j].canonical \in DupRows /\ d.rows[d.groups[j].canonical].present
          BY <3>2, <5>1 DEF SoundBooks, Shape, RowsThere
        <5> QED
          BY <1>2, <5>1, <5>2 DEF GroupedAs
      <4> QED
        BY <4>1, <4>2
    <3> QED
      BY <3>1, <3>2 DEF RowsThere
<1>8. \A t \in DupRows : t # x => (KeptOut(n, mine, t) <=> Out(t))
  BY <1>2 DEF GroupedAs, KeptOut
<1>8a. ~apply => \A t \in DupRows : KeptOut(n, mine, t) <=> Out(t)
  BY <1>2 DEF GroupedAs, KeptOut
<1>8b. \A t \in DupRows \ {x} : n.rows[t].excluded = d.rows[t].excluded
  <2>1. ASSUME NEW t \in DupRows \ {x} PROVE n.rows[t].excluded = d.rows[t].excluded
    <3>1. n.rows[t].excluded = ((apply /\ t = x) \/ d.rows[t].excluded)
      BY <1>2 DEF GroupedAs
    <3>2. d.rows[t].excluded \in BOOLEAN
      BY DEF SoundBooks, Shape
    <3> QED
      BY <2>1, <3>1, <3>2
  <2> QED
    BY <2>1
<1>9. LoneRows(n, mine)
  <2>1. \A t \in DupRows : Out(t) => \E j \in Keys : Has(j, t)
    BY DEF SoundBooks, LoneRows
  <2> QED
    BY <1>3, <1>8, <2>1 DEF LoneRows
<1>10. ASSUME NEW j \in Keys \ {k}, clean(j)
       PROVE  Ordered(n, mine, j) /\ (past[j] = {} => OthersOut(n, j))
  <2>1. ~InGroup(n, j, c) /\ ~InGroup(n, j, x)
    BY <1>3, <1>10 DEF AloneIn
  <2>2. \A t \in DupRows : InGroup(n, j, t) =>
             /\ Has(j, t) /\ KeptOut(n, mine, t) = Out(t)
             /\ n.rows[t].excluded = d.rows[t].excluded
    BY <1>2, <1>3, <1>8b, <2>1 DEF KeptOut
  <2>3. n.groups[j] = d.groups[j] /\ n.members[j] = d.members[j]
    BY <1>2 DEF GroupedAs
  <2>4. Decidable(n, j) <=> Decidable(d, j)
    BY <2>3 DEF Decidable
  <2>5. Ordered(d, mine, j) /\ (past[j] = {} => OthersOut(d, j))
    BY <1>4, <1>10
  <2>6. \A t \in DupRows : InGroup(n, j, t) <=> Has(j, t)
    BY <1>3
  <2>7. Ordered(n, mine, j)
    BY <2>2, <2>3, <2>4, <2>5, <2>6 DEF Ordered
  <2>8. past[j] = {} => OthersOut(n, j)
    BY <2>2, <2>3, <2>4, <2>5, <2>6 DEF OthersOut
  <2> QED
    BY <2>7, <2>8
<1>11. ASSUME clean(k)
       PROVE  /\ ~Out(c)
              /\ \A t \in DupRows : Has(k, t) /\ Out(t) => d.members[k][t].byPolicy
              /\ \/ d.groups[k].canonical \in {c, x}
                 \/ ~Decidable(d, k) /\ \A t \in DupRows : Has(k, t) => ~Out(t)
  <2>1. AloneIn(d, k) /\ Ordered(d, mine, k)
    BY <1>4, <1>11
  <2>2. \A t \in DupRows : Has(k, t) =>
            /\ Out(t) => d.members[k][t].byPolicy
            /\ d.members[k][t].role = "distinct" => ~d.members[k][t].byPolicy
    BY <2>1 DEF Ordered
  <2>3. CASE d.groups[k].canonical \notin {NoRow, r}
    <3>1. rival = d.groups[k].canonical
      BY <1>1, <2>3 DEF Rival
    <3>2. ~Out(rival)
      BY <2>1, <2>3, <3>1, RowsNat DEF Ordered
    <3> QED
      BY <1>2, <2>2, <3>1, <3>2
  <2>4. CASE d.groups[k].canonical \in {NoRow, r}
    <3>1. rival = s
      BY <1>1, <2>4 DEF Rival
    <3>2. \A t \in DupRows : Has(k, t) => ~Out(t)
      <4>1. CASE d.groups[k].canonical = r
        BY <1>11, <2>1, <4>1
      <4>2. CASE d.groups[k].canonical = NoRow
        <5>1. ~Decidable(d, k)
          BY <2>1, <4>2, RowsNat DEF Ordered
        <5>2. \A t \in DupRows : Has(k, t) => d.members[k][t].role = "distinct"
          BY <2>1, <5>1 DEF Ordered
        <5> QED
          BY <2>2, <5>2
      <4> QED
        BY <2>4, <4>1, <4>2
    <3>3. ~Out(s)
      <4>1. SUFFICES ASSUME Out(s), ~Has(k, s) PROVE FALSE
        BY <3>2
      <4>2. PICK j \in Keys : Has(j, s)
        BY <4>1 DEF SoundBooks, LoneRows
      <4>3. InGroup(n, k, s) /\ InGroup(n, j, s) /\ j # k
        BY <1>2, <1>3, <3>1, <4>1, <4>2
      <4> QED
        BY <1>11, <4>3 DEF AloneIn
    <3>4. d.groups[k].canonical = NoRow => ~Decidable(d, k)
      BY <2>1, RowsNat DEF Ordered
    <3> QED
      BY <1>2, <2>2, <2>4, <3>1, <3>2, <3>3, <3>4
  <2> QED
    BY <2>3, <2>4
<1>12. n.groups[k].status = "open" /\ n.groups[k].canonical = c /\ Decidable(n, k)
  BY <1>2 DEF GroupedAs, Decidable
<1>13. ASSUME clean(k) PROVE Ordered(n, mine, k)
  <2>1. /\ c \in DupRows /\ InGroup(n, k, c) /\ n.members[k][c].role # "distinct"
        /\ ~KeptOut(n, mine, c)
    BY <1>2, <1>3, <1>8, <1>11, <1>13 DEF GroupedAs
  <2>2. ASSUME NEW t \in DupRows, InGroup(n, k, t)
        PROVE  /\ KeptOut(n, mine, t) => n.members[k][t].byPolicy
               /\ n.members[k][t].role = "distinct" => ~n.members[k][t].byPolicy
    <3>1. CASE t = c
      BY <1>2, <2>1, <3>1 DEF GroupedAs
    <3>2. CASE t = x
      BY <1>2, <3>2 DEF GroupedAs
    <3>3. CASE t \notin {c, x}
      <4>1. Has(k, t) /\ n.members[k][t] = d.members[k][t] /\ KeptOut(n, mine, t) = Out(t)
        BY <1>2, <1>3, <2>2, <3>3 DEF GroupedAs, KeptOut
      <4>2. Ordered(d, mine, k)
        BY <1>4, <1>13
      <4> QED
        BY <4>1, <4>2 DEF Ordered
    <3> QED
      BY <3>1, <3>2, <3>3
  <2> QED
    BY <1>12, <2>1, <2>2 DEF Ordered
<1>14. ASSUME clean(k), past[k] = {}, apply PROVE OthersOut(n, k)
  <2>1. SUFFICES ASSUME NEW t \in DupRows, InGroup(n, k, t),
                        n.members[k][t].role # "distinct", t # c
                 PROVE  n.rows[t].excluded
    BY <1>12 DEF OthersOut
  <2>2. CASE t = x
    BY <1>2, <1>14, <2>2 DEF GroupedAs
  <2>3. CASE t # x
    <3>1. /\ Has(k, t) /\ d.members[k][t].role # "distinct"
          /\ t # d.groups[k].canonical \/ ~Decidable(d, k)
      <4>1. Has(k, t) /\ t \notin {c, x}
        BY <1>3, <2>1, <2>3
      <4>2. d.members[k][t].role # "distinct"
        BY <1>2, <2>1, <4>1 DEF GroupedAs
      <4> QED
        <5>1. d.groups[k].canonical \in {c, x} \/ ~Decidable(d, k)
          BY <1>11, <1>14
        <5> QED
          BY <4>1, <4>2, <5>1
    <3>2. Decidable(d, k)
      BY <1>4, <1>14, <3>1 DEF Ordered
    <3>3. d.rows[t].excluded
      BY <1>4, <1>14, <3>1, <3>2 DEF OthersOut
    <3> QED
      BY <1>2, <3>3 DEF GroupedAs
  <2> QED
    BY <2>2, <2>3
<1>15. ASSUME clean(k), c # r, c # d.groups[k].canonical
       PROVE  \A t \in DupRows : InGroup(n, k, t) => ~Out(t)
  <2>1. x = r /\ c = rival
    BY <1>2, <1>15
  <2>2. d.groups[k].canonical \in {NoRow, r}
    BY <1>1, <1>15, <2>1 DEF Rival
  <2>3. \A t \in DupRows : Has(k, t) => ~Out(t)
    <3>1. AloneIn(d, k) /\ past[k] \subseteq {"backfill"}
      BY <1>4, <1>15
    <3> QED
      BY <1>11, <1>15, <2>1, <2>2, <3>1, RowsNat
  <2> QED
    BY <1>3, <1>11, <1>15, <2>1, <2>3
<1>15a. ASSUME c # r
        PROVE  \A t \in DupRows : InGroup(n, k, t) => Has(k, t) \/ t \in {r, n.groups[k].canonical}
  BY <1>2, <1>3, <1>12, <1>15a
<1>16. \A t \in DupRows : n.rows[t].present = d.rows[t].present
  BY <1>2 DEF GroupedAs
<1>17. ~apply => \A t \in DupRows : n.rows[t].excluded = d.rows[t].excluded
  <2>1. ASSUME NEW t \in DupRows, ~apply PROVE n.rows[t].excluded = d.rows[t].excluded
    <3>1. n.rows[t].excluded = ((apply /\ t = x) \/ d.rows[t].excluded)
      BY <1>2 DEF GroupedAs
    <3>2. d.rows[t].excluded \in BOOLEAN
      BY DEF SoundBooks, Shape
    <3> QED
      BY <2>1, <3>1, <3>2
  <2> QED
    BY <2>1
<1>18. \A j \in Keys, t \in DupRows : Has(j, t) => InGroup(n, j, t)
  BY <1>3
<1>19. \A j \in Keys \ {k} : n.groups[j] = d.groups[j] /\ n.members[j] = d.members[j]
  BY <1>2 DEF GroupedAs
<1> QED
  BY <1>5, <1>7, <1>9, <1>10, <1>12, <1>13, <1>14, <1>15, <1>15a, <1>16, <1>17, <1>18, <1>19

LEMMA RegisteredIsSound ==
  ASSUME NEW d, NEW mine, NEW past, SoundBooks(d, mine, past),
         NEW r \in DupRows, d.rows[r].present, ~KeptOut(d, mine, r),
         \A k \in Keys : d.groups[k].canonical # r,
         NEW n, n = Registered(d, r)
  PROVE  /\ SoundBooks(n, mine, past)
         /\ \A t \in DupRows : n.rows[t].present = d.rows[t].present
         /\ \A k \in Keys, t \in DupRows : InGroup(d, k, t) => InGroup(n, k, t)
<1>1. CASE Candidates(d, r) = {}
  BY <1>1 DEF Registered
<1>2. CASE Candidates(d, r) # {}
  <2>1. PICK s, k : s = BestCandidate(d, r) /\ k = GroupFor(d, r, s)
    OBVIOUS
  <2>2. Shape(d)
    BY DEF SoundBooks
  <2>3. s \in DupRows /\ r # s /\ d.rows[s].present /\ k \in Keys
    BY <1>2, <2>1, <2>2, PairedWith
  <2>4. PICK apply \in BOOLEAN : apply
    OBVIOUS
  <2>5. Registered(d, r) = Grouped(d, r, s, k, TRUE)
    BY <1>2, <2>1 DEF Registered
  <2>6. n = Grouped(d, r, s, k, apply)
    BY <2>4, <2>5 DEF Grouped
  <2>7. /\ Shape(n) /\ RowsThere(n) /\ LoneRows(n, mine)
        /\ \A t \in DupRows : n.rows[t].present = d.rows[t].present
        /\ \A j \in Keys, t \in DupRows : InGroup(d, j, t) => InGroup(n, j, t)
        /\ \A j \in Keys : AloneIn(n, j) /\ past[j] \subseteq {"backfill"} =>
               /\ Ordered(n, mine, j)
               /\ past[j] = {} /\ (apply \/ j # k) => OthersOut(n, j)
    BY <2>3, <2>6, GroupedIsSound
  <2> QED
    BY <2>4, <2>7 DEF SoundBooks
<1> QED
  BY <1>1, <1>2

(* What a decision has read is still sound when nothing it read is there    *)
(* again and no row left its group.                                         *)
LEMMA DecisionStays ==
  ASSUME DecisionSound, decision' = decision,
         \A t \in DupRows : book'.rows[t].present
                            /\ (decision # Idle => decision.read.rows[t].present) =>
             /\ book.rows[t].present
             /\ \A k \in Keys : InGroup(book, k, t) => InGroup(book', k, t)
  PROVE  DecisionSound'
<1> SUFFICES ASSUME decision # Idle PROVE DecisionSound'
  BY DEF DecisionSound
<1>1. /\ Shape(decision.read) /\ RowsThere(decision.read)
      /\ decision.q \in Questions /\ Valid(decision.read, decision.q)
  BY DEF DecisionSound
<1>2. decision.q.key \in Keys
  BY <1>1 DEF Questions
<1>3. ASSUME NEW t \in DupRows, InGroup(decision.read, decision.q.key, t), book'.rows[t].present
      PROVE  InGroup(book', decision.q.key, t)
  <2>1. decision.read.rows[t].present
    BY <1>1, <1>2, <1>3 DEF RowsThere
  <2>2. book.rows[t].present
    BY <1>3, <2>1
  <2>3. InGroup(book, decision.q.key, t)
    BY <1>3, <2>2 DEF DecisionSound
  <2> QED
    BY <1>2, <1>3, <2>1, <2>3
<1> QED
  BY <1>1, <1>3 DEF DecisionSound

(* The books with a new row, before its candidates are looked for.          *)
LEMMA RowAdded ==
  ASSUME NEW d, NEW mine, NEW past, SoundBooks(d, mine, past),
         NEW r \in DupRows, ~d.rows[r].present,
         NEW new, r \in new <=> r \in NotSpent, \A t \in DupRows \ {r} : t \in new <=> t \in mine,
         NEW n, n = [rows |-> n.rows, groups |-> d.groups, members |-> d.members],
         n.rows[r] = Arrived(r), DOMAIN n.rows = DupRows, n.rows = [t \in DupRows |-> n.rows[t]],
         \A t \in DupRows \ {r} : n.rows[t] = d.rows[t]
  PROVE  /\ SoundBooks(n, new, past)
         /\ n.rows[r].present /\ ~KeptOut(n, new, r)
         /\ \A t \in DupRows \ {r} : n.rows[t].present = d.rows[t].present
         /\ \A k \in Keys : n.groups[k] = d.groups[k] /\ n.members[k] = d.members[k]
         /\ \A k \in Keys : n.groups[k].canonical # r
<1> DEFINE Rows == [present : BOOLEAN, excluded : BOOLEAN, group : Keys \cup {NoRow}]
<1>1. Shape(d) /\ RowsThere(d) /\ LoneRows(d, mine)
  BY DEF SoundBooks
<1>2. d = [rows |-> d.rows, groups |-> d.groups, members |-> d.members]
      /\ d.rows \in [DupRows -> Rows]
  BY <1>1 DEF Shape
<1>3. PICK e : e = Arrived(r)
  OBVIOUS
<1>4. e \in Rows /\ e.present /\ (e.excluded <=> r \in NotSpent)
  <2>1. (r \in NotSpent) \in BOOLEAN /\ NoRow \in Keys \cup {NoRow} /\ TRUE \in BOOLEAN
    OBVIOUS
  <2>2. e = [present |-> TRUE, excluded |-> r \in NotSpent, group |-> NoRow]
    BY <1>3 DEF Arrived
  <2> QED
    BY <2>1, <2>2
<1>5. n.groups = d.groups /\ n.members = d.members
      /\ n = [rows |-> n.rows, groups |-> n.groups, members |-> n.members]
  OBVIOUS
<1>6. /\ n.rows[r] = e /\ \A t \in DupRows \ {r} : n.rows[t] = d.rows[t]
      /\ n.rows \in [DupRows -> Rows]
  <2>1. \A t \in DupRows : n.rows[t] \in Rows
    BY <1>2, <1>3, <1>4
  <2> HIDE DEF Rows
  <2> QED
    BY <1>3, <2>1
<1>7. Shape(n)
  BY <1>1, <1>5, <1>6 DEF Shape
<1>8. \A k \in Keys : ~InGroup(d, k, r) /\ d.groups[k].canonical # r
  BY <1>1, RowsNat DEF RowsThere
<1>9. \A k \in Keys, t \in DupRows : InGroup(n, k, t) <=> InGroup(d, k, t)
  BY <1>5 DEF InGroup
<1>10. \A t \in DupRows \ {r} : KeptOut(n, new, t) <=> KeptOut(d, mine, t)
  BY <1>6 DEF KeptOut
<1>11. ~KeptOut(n, new, r)
  BY <1>4, <1>6 DEF KeptOut
<1>12. RowsThere(n)
  <2>1. \A t \in DupRows : d.rows[t].present => n.rows[t].present
    BY <1>4, <1>6
  <2> QED
    <3>1. \A k \in Keys : d.groups[k].canonical # NoRow =>
              d.groups[k].canonical \in DupRows /\ d.rows[d.groups[k].canonical].present
      BY <1>1 DEF RowsThere, Shape
    <3>2. \A k \in Keys : n.groups[k].canonical # NoRow => n.rows[n.groups[k].canonical].present
      BY <1>5, <2>1, <3>1
    <3>3. \A k \in Keys, t \in DupRows : InGroup(n, k, t) => n.rows[t].present
      BY <1>1, <1>9, <2>1 DEF RowsThere
    <3> QED
      BY <3>2, <3>3 DEF RowsThere
<1>13. LoneRows(n, new)
  BY <1>1, <1>9, <1>10, <1>11 DEF LoneRows
<1>14. ASSUME NEW k \in Keys, AloneIn(n, k), past[k] \subseteq {"backfill"}
       PROVE  Ordered(n, new, k) /\ (past[k] = {} => OthersOut(n, k))
  <2>1. AloneIn(d, k)
    BY <1>9, <1>14 DEF AloneIn
  <2>2. Ordered(d, mine, k) /\ (past[k] = {} => OthersOut(d, k))
    BY <1>14, <2>1 DEF SoundBooks
  <2>3. n.groups[k] = d.groups[k] /\ n.members[k] = d.members[k]
    BY <1>5
  <2>4. Decidable(n, k) <=> Decidable(d, k)
    BY <2>3 DEF Decidable
  <2>5. \A t \in DupRows : InGroup(n, k, t) =>
            (KeptOut(n, new, t) <=> KeptOut(d, mine, t)) /\ n.rows[t] = d.rows[t] /\ InGroup(d, k, t)
    BY <1>6, <1>8, <1>9, <1>10
  <2>6. Ordered(n, new, k)
    <3>1. \A t \in DupRows : InGroup(n, k, t) <=> InGroup(d, k, t)
      BY <1>9
    <3>2. \A t \in DupRows : InGroup(n, k, t) => (KeptOut(n, new, t) <=> KeptOut(d, mine, t))
      BY <2>5
    <3> QED
      BY <2>2, <2>3, <2>4, <3>1, <3>2 DEF Ordered
  <2>7. past[k] = {} => OthersOut(n, k)
    BY <2>2, <2>3, <2>4, <2>5 DEF OthersOut
  <2> QED
    BY <2>6, <2>7
<1> QED
  <2>1. SoundBooks(n, new, past)
    BY <1>7, <1>12, <1>13, <1>14 DEF SoundBooks
  <2>2. n.rows[r].present /\ \A t \in DupRows \ {r} : n.rows[t].present = d.rows[t].present
    BY <1>4, <1>6
  <2> QED
    BY <1>5, <1>8, <1>11, <2>1, <2>2

LEMMA ArriveIsSound ==
  ASSUME DupInv, NEW r \in DupRows, Arrive(r)
  PROVE  DupInv'
<1>2. PICK d0 : d0 = [book EXCEPT !.rows[r] = Arrived(r)]
  OBVIOUS
<1>3. PICK n : n = book'
  OBVIOUS
<1>4. PICK new : new = own'
  OBVIOUS
<1>5. /\ ~book.rows[r].present
      /\ decision # Idle => ~decision.read.rows[r].present
      /\ new = IF r \in NotSpent THEN own \cup {r} ELSE own \ {r}
      /\ n = Registered(d0, r)
      /\ decision' = decision /\ history' = history
  BY <1>2, <1>3, <1>4 DEF Arrive
<1>6. /\ SoundBooks(d0, new, history)
      /\ d0.rows[r].present /\ ~KeptOut(d0, new, r)
      /\ \A t \in DupRows \ {r} : d0.rows[t].present = book.rows[t].present
      /\ \A k \in Keys : d0.groups[k] = book.groups[k] /\ d0.members[k] = book.members[k]
      /\ \A k \in Keys : d0.groups[k].canonical # r
  <2>1. SoundBooks(book, own, history)
    BY DEF DupInv
  <2>2. /\ book = [rows |-> book.rows, groups |-> book.groups, members |-> book.members]
        /\ book.rows \in [DupRows -> [present : BOOLEAN, excluded : BOOLEAN,
                                      group : Keys \cup {NoRow}]]
    BY <2>1 DEF SoundBooks, Shape
  <2>3. PICK rows : rows = [book.rows EXCEPT ![r] = Arrived(r)]
    OBVIOUS
  <2>4. d0 = [rows |-> rows, groups |-> book.groups, members |-> book.members]
    BY <1>2, <2>2, <2>3
  <2>5. /\ rows[r] = Arrived(r) /\ DOMAIN rows = DupRows
        /\ rows = [t \in DupRows |-> rows[t]]
        /\ \A t \in DupRows \ {r} : rows[t] = book.rows[t]
    BY <2>2, <2>3
  <2>6. d0.rows = rows /\ d0.groups = book.groups /\ d0.members = book.members
    BY <2>4
  <2>7. /\ d0 = [rows |-> d0.rows, groups |-> book.groups, members |-> book.members]
        /\ d0.rows[r] = Arrived(r) /\ DOMAIN d0.rows = DupRows
        /\ d0.rows = [t \in DupRows |-> d0.rows[t]]
        /\ \A t \in DupRows \ {r} : d0.rows[t] = book.rows[t]
    BY <2>4, <2>5, <2>6
  <2>8. /\ ~book.rows[r].present
        /\ r \in new <=> r \in NotSpent
        /\ \A t \in DupRows \ {r} : t \in new <=> t \in own
    BY <1>5
  <2> QED
    BY <2>1, <2>7, <2>8, RowAdded
<1>7. /\ SoundBooks(n, new, history)
      /\ \A t \in DupRows : n.rows[t].present = d0.rows[t].present
      /\ \A k \in Keys, t \in DupRows : InGroup(d0, k, t) => InGroup(n, k, t)
  BY <1>5, <1>6, RegisteredIsSound
<1>8. DecisionSound'
  <2>1. ASSUME NEW t \in DupRows, book'.rows[t].present,
               decision # Idle => decision.read.rows[t].present
        PROVE  /\ decision # Idle => book.rows[t].present
               /\ \A k \in Keys : InGroup(book, k, t) => InGroup(book', k, t)
    <3>1. \A k \in Keys : InGroup(book, k, t) => InGroup(d0, k, t)
      BY <1>6 DEF InGroup
    <3> QED
      BY <1>3, <1>5, <1>6, <1>7, <2>1, <3>1
  <2>2. CASE decision = Idle
    BY <1>5, <2>2 DEF DecisionSound
  <2>3. CASE decision # Idle
    BY <1>5, <2>1, <2>3, DecisionStays DEF DupInv
  <2> QED
    BY <2>2, <2>3
<1>9. SoundBooks(book, own, history)'
  BY <1>3, <1>4, <1>5, <1>7
<1> QED
  BY <1>5, <1>8, <1>9 DEF DupInv

(* The books change in nothing that the groups without a mark look at.      *)
LEMMA UnmarkedGroupsStand ==
  ASSUME NEW d, NEW mine, NEW past, SoundBooks(d, mine, past),
         NEW n, NEW new, NEW marks, Shape(n), RowsThere(n), LoneRows(n, new),
         \A k \in Keys : AloneIn(n, k) /\ marks[k] \subseteq {"backfill"} =>
            /\ AloneIn(d, k) /\ past[k] \subseteq {"backfill"} /\ (marks[k] = {} => past[k] = {})
            /\ n.groups[k] = d.groups[k] /\ n.members[k] = d.members[k]
            /\ \A t \in DupRows : InGroup(n, k, t) =>
                 /\ KeptOut(n, new, t) <=> KeptOut(d, mine, t)
                 /\ d.rows[t].excluded => n.rows[t].excluded
  PROVE  SoundBooks(n, new, marks)
<1>1. ASSUME NEW k \in Keys, AloneIn(n, k), marks[k] \subseteq {"backfill"}
      PROVE  Ordered(n, new, k) /\ (marks[k] = {} => OthersOut(n, k))
  <2>1. /\ AloneIn(d, k) /\ past[k] \subseteq {"backfill"} /\ (marks[k] = {} => past[k] = {})
        /\ n.groups[k] = d.groups[k] /\ n.members[k] = d.members[k]
        /\ \A t \in DupRows : InGroup(n, k, t) =>
                 /\ KeptOut(n, new, t) <=> KeptOut(d, mine, t)
                 /\ d.rows[t].excluded => n.rows[t].excluded
    BY <1>1
  <2>2. Ordered(d, mine, k) /\ (past[k] = {} => OthersOut(d, k))
    BY <2>1 DEF SoundBooks
  <2>3. Decidable(n, k) <=> Decidable(d, k)
    BY <2>1 DEF Decidable
  <2>4. \A t \in DupRows : InGroup(n, k, t) <=> InGroup(d, k, t)
    BY <2>1 DEF InGroup
  <2>5. Ordered(n, new, k)
    BY <2>1, <2>2, <2>3, <2>4 DEF Ordered
  <2>6. marks[k] = {} => OthersOut(n, k)
    BY <2>1, <2>2, <2>3, <2>4 DEF OthersOut
  <2> QED
    BY <2>5, <2>6
<1> QED
  BY <1>1 DEF SoundBooks

LEMMA EditIsSound ==
  ASSUME DupInv, NEW r \in DupRows, NEW out \in BOOLEAN, EditExcluded(r, out)
  PROVE  DupInv'
<1> DEFINE Rows == [present : BOOLEAN, excluded : BOOLEAN, group : Keys \cup {NoRow}]
<1>1. SoundBooks(book, own, history) /\ Shape(book) /\ RowsThere(book) /\ LoneRows(book, own)
  BY DEF DupInv, SoundBooks
<1>2. PICK n, new, marks : n = book' /\ new = own' /\ marks = history'
  OBVIOUS
<1>3. /\ n = [book EXCEPT !.rows[r].excluded = out]
      /\ new = IF out THEN own \cup {r} ELSE own \ {r}
      /\ \A k \in Keys : marks[k] = IF r \in Members(book, k)
                                    THEN history[k] \cup {"edited"} ELSE history[k]
      /\ marks = [k \in Keys |-> marks[k]]
      /\ decision' = decision
  BY <1>2 DEF EditExcluded
<1>4. /\ book = [rows |-> book.rows, groups |-> book.groups, members |-> book.members]
      /\ book.rows \in [DupRows -> Rows]
  BY <1>1 DEF Shape
<1>5. PICK e : e = [book.rows[r] EXCEPT !.excluded = out]
  OBVIOUS
<1>6. e \in Rows /\ e.present = book.rows[r].present /\ e.excluded = out
  <2>1. book.rows[r] \in Rows
    BY <1>4
  <2> QED
    BY <1>5, <2>1
<1>7. n = [book EXCEPT !.rows = [book.rows EXCEPT ![r] = e]]
  BY <1>3, <1>5
<1>8. /\ n.rows = [book.rows EXCEPT ![r] = e]
      /\ n.groups = book.groups /\ n.members = book.members
      /\ n = [rows |-> n.rows, groups |-> n.groups, members |-> n.members]
  BY <1>4, <1>7
<1>9. /\ n.rows \in [DupRows -> Rows] /\ n.rows[r] = e
      /\ \A t \in DupRows \ {r} : n.rows[t] = book.rows[t]
  <2> HIDE DEF Rows
  <2> QED
    BY <1>4, <1>6, <1>8
<1>10. Shape(n)
  BY <1>1, <1>8, <1>9 DEF Shape
<1>11. \A k \in Keys, t \in DupRows : InGroup(n, k, t) <=> InGroup(book, k, t)
  BY <1>8 DEF InGroup
<1>12. \A t \in DupRows : n.rows[t].present = book.rows[t].present
  BY <1>6, <1>9
<1>13. RowsThere(n)
  BY <1>1, <1>8, <1>11, <1>12 DEF RowsThere, Shape
<1>14. ~KeptOut(n, new, r)
  BY <1>3, <1>6, <1>9 DEF KeptOut
<1>15. \A t \in DupRows \ {r} : KeptOut(n, new, t) <=> KeptOut(book, own, t)
  BY <1>3, <1>9 DEF KeptOut
<1>16. LoneRows(n, new)
  BY <1>1, <1>11, <1>14, <1>15 DEF LoneRows
<1>17. ASSUME NEW k \in Keys, AloneIn(n, k), marks[k] \subseteq {"backfill"}
       PROVE  /\ AloneIn(book, k) /\ history[k] \subseteq {"backfill"}
              /\ marks[k] = {} => history[k] = {}
              /\ n.groups[k] = book.groups[k] /\ n.members[k] = book.members[k]
              /\ \A t \in DupRows : InGroup(n, k, t) =>
                 /\ KeptOut(n, new, t) <=> KeptOut(book, own, t)
                 /\ book.rows[t].excluded => n.rows[t].excluded
  <2>1. AloneIn(book, k)
    BY <1>11, <1>17 DEF AloneIn
  <2>2. r \notin Members(book, k) /\ marks[k] = history[k]
    BY <1>3, <1>17
  <2>3. ~InGroup(book, k, r)
    BY <2>2 DEF Members, InGroup
  <2> QED
    BY <1>8, <1>9, <1>11, <1>15, <1>17, <2>1, <2>2, <2>3
<1>18. SoundBooks(n, new, marks)
  BY <1>1, <1>10, <1>13, <1>16, <1>17, UnmarkedGroupsStand
<1>19. DecisionSound'
  BY <1>2, <1>3, <1>11, <1>12, DecisionStays DEF DupInv
<1>20. SoundBooks(book, own, history)'
  BY <1>2, <1>18
<1> QED
  BY <1>2, <1>3, <1>19, <1>20 DEF DupInv

LEMMA DeleteIsSound ==
  ASSUME DupInv, NEW r \in DupRows, DeleteManual(r)
  PROVE  DupInv'
<1> DEFINE Rows == [present : BOOLEAN, excluded : BOOLEAN, group : Keys \cup {NoRow}]
           Mems == [role : Roles, byPolicy : BOOLEAN]
<1>1. SoundBooks(book, own, history) /\ Shape(book) /\ RowsThere(book) /\ LoneRows(book, own)
  BY DEF DupInv, SoundBooks
<1>2. PICK n, marks : n = book' /\ marks = history'
  OBVIOUS
<1>3. /\ n = [rows |-> [book.rows EXCEPT ![r] = Absent],
              groups |-> [k \in Keys |-> IF book.groups[k].canonical = r
                            THEN [book.groups[k] EXCEPT !.canonical = NoRow]
                            ELSE book.groups[k]],
              members |-> [k \in Keys |-> [book.members[k] EXCEPT ![r] = NoMember]]]
      /\ marks = Since(book, n, "deleted")
      /\ decision' = decision /\ own' = own
  BY <1>2 DEF DeleteManual
<1>4. /\ \A k \in Keys : marks[k] = IF book.groups[k] # n.groups[k] \/ book.members[k] # n.members[k]
                                    THEN history[k] \cup {"deleted"} ELSE history[k]
      /\ marks = [j \in Keys |-> marks[j]]
  BY <1>3 DEF Since
<1>5. Absent \in Rows /\ ~Absent.present /\ ~Absent.excluded /\ NoMember \in Mems
      /\ NoMember.role = "none"
  BY DEF Absent, NoMember, Roles
<1>6. /\ n = [rows |-> n.rows, groups |-> n.groups, members |-> n.members]
      /\ n.rows = [book.rows EXCEPT ![r] = Absent]
      /\ n.groups = [k \in Keys |-> IF book.groups[k].canonical = r
                            THEN [book.groups[k] EXCEPT !.canonical = NoRow]
                            ELSE book.groups[k]]
      /\ n.members = [k \in Keys |-> [book.members[k] EXCEPT ![r] = NoMember]]
  BY <1>3
<1>7. book.rows \in [DupRows -> Rows] /\ book.members \in [Keys -> [DupRows -> Mems]]
  BY <1>1 DEF Shape
<1>8. /\ n.rows \in [DupRows -> Rows] /\ n.rows[r] = Absent
      /\ \A t \in DupRows \ {r} : n.rows[t] = book.rows[t]
  <2> HIDE DEF Rows
  <2> QED
    BY <1>5, <1>6, <1>7
<1>9. /\ n.members \in [Keys -> [DupRows -> Mems]]
      /\ \A k \in Keys : n.members[k][r] = NoMember
      /\ \A k \in Keys, t \in DupRows \ {r} : n.members[k][t] = book.members[k][t]
  <2> HIDE DEF Mems
  <2> QED
    BY <1>5, <1>6, <1>7
<1>10. /\ \A k \in Keys : n.groups[k].canonical = IF book.groups[k].canonical = r THEN NoRow
                                                    ELSE book.groups[k].canonical
       /\ \A k \in Keys : DOMAIN n.groups[k] = {"status", "resolution", "canonical", "past"}
       /\ \A k \in Keys : n.groups[k] = [y \in DOMAIN n.groups[k] |-> n.groups[k][y]]
       /\ n.groups = [j \in Keys |-> n.groups[j]]
  <2>1. \A k \in Keys : DOMAIN book.groups[k] = {"status", "resolution", "canonical", "past"}
    BY <1>1 DEF Shape
  <2>2. ASSUME NEW k \in Keys
        PROVE  n.groups[k] = [y \in DOMAIN n.groups[k] |-> n.groups[k][y]]
    <3>1. CASE book.groups[k].canonical = r
      <4>1. n.groups[k] = [book.groups[k] EXCEPT !.canonical = NoRow]
        BY <1>6, <3>1
      <4> QED
        BY <4>1
    <3>2. CASE book.groups[k].canonical # r
      <4>1. n.groups[k] = book.groups[k]
        BY <1>6, <3>2
      <4> QED
        BY <1>1, <4>1 DEF Shape
    <3> QED
      BY <3>1, <3>2
  <2> QED
    BY <1>6, <2>1, <2>2
<1>11. Shape(n)
  <2>1. \A k \in Keys : book.groups[k].canonical \in DupRows \cup {NoRow}
    BY <1>1 DEF Shape
  <2> QED
    BY <1>6, <1>8, <1>9, <1>10, <2>1 DEF Shape
<1>12. \A k \in Keys, t \in DupRows : InGroup(n, k, t) <=> InGroup(book, k, t) /\ t # r
  BY <1>5, <1>9 DEF InGroup
<1>13. RowsThere(n)
  <2>1. \A k \in Keys, t \in DupRows : InGroup(n, k, t) => n.rows[t].present
    BY <1>1, <1>8, <1>12 DEF RowsThere
  <2>2. ASSUME NEW k \in Keys, n.groups[k].canonical # NoRow
        PROVE  n.rows[n.groups[k].canonical].present
    <3>1. n.groups[k].canonical = book.groups[k].canonical /\ book.groups[k].canonical # r
      BY <1>10, <2>2
    <3>2. book.groups[k].canonical \in DupRows /\ book.rows[book.groups[k].canonical].present
      BY <1>1, <2>2, <3>1 DEF RowsThere, Shape
    <3> QED
      BY <1>8, <3>1, <3>2
  <2> QED
    BY <2>1, <2>2 DEF RowsThere
<1>14. \A t \in DupRows : KeptOut(n, own, t) => KeptOut(book, own, t) /\ t # r
  BY <1>5, <1>8 DEF KeptOut
<1>15. LoneRows(n, own)
  BY <1>1, <1>12, <1>14 DEF LoneRows
<1>16. ASSUME NEW k \in Keys, AloneIn(n, k), marks[k] \subseteq {"backfill"}
       PROVE  /\ AloneIn(book, k) /\ history[k] \subseteq {"backfill"}
              /\ marks[k] = {} => history[k] = {}
              /\ n.groups[k] = book.groups[k] /\ n.members[k] = book.members[k]
              /\ \A t \in DupRows : InGroup(n, k, t) =>
                 /\ KeptOut(n, own, t) <=> KeptOut(book, own, t)
                 /\ book.rows[t].excluded => n.rows[t].excluded
  <2>1. n.groups[k] = book.groups[k] /\ n.members[k] = book.members[k] /\ marks[k] = history[k]
    BY <1>4, <1>16
  <2>2. ~InGroup(book, k, r)
    BY <1>12, <2>1 DEF InGroup
  <2>3. AloneIn(book, k)
    BY <1>12, <1>16, <2>2 DEF AloneIn
  <2>4. \A t \in DupRows \ {r} : KeptOut(n, own, t) <=> KeptOut(book, own, t)
    BY <1>8 DEF KeptOut
  <2> QED
    BY <1>8, <1>12, <1>16, <2>1, <2>2, <2>3, <2>4
<1>17. SoundBooks(n, own, marks)
  BY <1>1, <1>11, <1>13, <1>15, <1>16, UnmarkedGroupsStand
<1>18. DecisionSound'
  <2>1. \A t \in DupRows : n.rows[t].present =>
             /\ book.rows[t].present
             /\ \A k \in Keys : InGroup(book, k, t) => InGroup(n, k, t)
    BY <1>5, <1>8, <1>12
  <2> QED
    BY <1>2, <1>3, <2>1, DecisionStays DEF DupInv
<1>19. SoundBooks(book, own, history)'
  BY <1>2, <1>3, <1>17
<1> QED
  BY <1>2, <1>4, <1>18, <1>19 DEF DupInv

ColumnSaved(was, read, new) == IF new # read THEN new ELSE was

(* A decision as it would be on what it has read.                           *)
DecidedAs(d, q, new) ==
    /\ \A t \in DupRows : /\ new.rows[t].present = d.rows[t].present
                          /\ new.rows[t].group = d.rows[t].group
                          /\ new.rows[t].excluded = IF InGroup(d, q.key, t)
                               THEN ExcludedAfter(d, q, t) ELSE d.rows[t].excluded
                          /\ new.rows[t].excluded \in BOOLEAN
    /\ \A j \in Keys \ {q.key} : new.groups[j] = d.groups[j] /\ new.members[j] = d.members[j]
    /\ new.groups[q.key].status = "resolved" /\ new.groups[q.key].resolution = q.op
    /\ new.groups[q.key].canonical = q.named
    /\ new.groups[q.key].past = d.groups[q.key].past
    /\ \A t \in DupRows : /\ new.members[q.key][t] = IF InGroup(d, q.key, t)
                               THEN MemberAfter(d, q, t) ELSE d.members[q.key][t]
                          /\ new.members[q.key][t] \in [role : Roles, byPolicy : BOOLEAN]

LEMMA QuestionTyped ==
  ASSUME NEW q \in Questions
  PROVE  /\ q.key \in Keys
         /\ \/ q.op = "duplicate" /\ q.named \in DupRows
            \/ q.op = "distinct" /\ q.named = NoRow
BY DEF Questions

LEMMA DecidedRows ==
  ASSUME NEW d, Shape(d), NEW q \in Questions, NEW new, new = Decided(d, q)
  PROVE  DecidedAs(d, q, new)
<1> DEFINE Rows == [present : BOOLEAN, excluded : BOOLEAN, group : Keys \cup {NoRow}]
           Mems == [role : Roles, byPolicy : BOOLEAN]
<1>1. PICK in : in = Members(d, q.key)
  OBVIOUS
<1>2. \A t \in DupRows : t \in in <=> InGroup(d, q.key, t)
  BY <1>1 DEF Members, InGroup
<1>3. /\ new.rows = [r \in DupRows |-> IF r \in in
                 THEN [d.rows[r] EXCEPT !.excluded = ExcludedAfter(d, q, r)]
                 ELSE d.rows[r]]
      /\ new.groups = [d.groups EXCEPT ![q.key].status = "resolved",
                                 ![q.key].resolution = q.op,
                                 ![q.key].canonical = q.named]
      /\ new.members = [d.members EXCEPT ![q.key] = [r \in DupRows |->
                    IF r \in in THEN MemberAfter(d, q, r) ELSE d.members[q.key][r]]]
  BY <1>1 DEF Decided
<1>4. d.rows \in [DupRows -> Rows] /\ d.members \in [Keys -> [DupRows -> Mems]]
  BY DEF Shape
<1>5. q.key \in Keys
  BY QuestionTyped
<1>6. ASSUME NEW t \in DupRows
      PROVE  /\ new.rows[t].present = d.rows[t].present /\ new.rows[t].group = d.rows[t].group
             /\ new.rows[t].excluded = IF InGroup(d, q.key, t)
                               THEN ExcludedAfter(d, q, t) ELSE d.rows[t].excluded
             /\ new.rows[t].excluded \in BOOLEAN
  <2>1. d.rows[t] \in Rows
    BY <1>4
  <2>2. ExcludedAfter(d, q, t) \in BOOLEAN
    BY <2>1 DEF ExcludedAfter
  <2>3. PICK e : e = ExcludedAfter(d, q, t)
    OBVIOUS
  <2>4. CASE t \in in
    <3>1. new.rows[t] = [d.rows[t] EXCEPT !.excluded = e]
      BY <1>3, <2>3, <2>4
    <3>2. /\ new.rows[t].excluded = e /\ new.rows[t].present = d.rows[t].present
          /\ new.rows[t].group = d.rows[t].group
      BY <2>1, <3>1
    <3> QED
      BY <1>2, <2>2, <2>3, <2>4, <3>2
  <2>5. CASE t \notin in
    <3>1. new.rows[t] = d.rows[t]
      BY <1>3, <2>5
    <3> QED
      BY <1>2, <2>1, <2>5, <3>1
  <2> QED
    BY <2>4, <2>5
<1>7. /\ \A j \in Keys \ {q.key} : new.groups[j] = d.groups[j]
      /\ new.groups[q.key].status = "resolved" /\ new.groups[q.key].resolution = q.op
      /\ new.groups[q.key].canonical = q.named
      /\ new.groups[q.key].past = d.groups[q.key].past
  <2>1. /\ d.groups = [j \in Keys |-> d.groups[j]]
        /\ DOMAIN d.groups[q.key] = {"status", "resolution", "canonical", "past"}
    BY <1>5 DEF Shape
  <2>2. DOMAIN d.groups = Keys
    BY <2>1
  <2>3. PICK g : g = [d.groups[q.key] EXCEPT !.status = "resolved"]
    OBVIOUS
  <2>4. PICK h : h = [g EXCEPT !.resolution = q.op]
    OBVIOUS
  <2>5. PICK i : i = [h EXCEPT !.canonical = q.named]
    OBVIOUS
  <2>6. i.status = "resolved" /\ i.resolution = q.op /\ i.canonical = q.named
        /\ i.past = d.groups[q.key].past
    BY <2>1, <2>3, <2>4, <2>5
  <2>7. new.groups[q.key] = i /\ \A j \in Keys \ {q.key} : new.groups[j] = d.groups[j]
    BY <1>3, <1>5, <2>2, <2>3, <2>4, <2>5
  <2> QED
    BY <2>6, <2>7
<1>8. \A j \in Keys \ {q.key} : new.members[j] = d.members[j]
  BY <1>3, <1>4
<1>9. ASSUME NEW t \in DupRows
      PROVE  /\ new.members[q.key][t] = IF InGroup(d, q.key, t)
                               THEN MemberAfter(d, q, t) ELSE d.members[q.key][t]
             /\ new.members[q.key][t] \in Mems
  <2>1. MemberAfter(d, q, t) \in Mems /\ d.members[q.key][t] \in Mems
    BY <1>4, <1>5 DEF MemberAfter, Roles
  <2>2. new.members[q.key][t] = IF t \in in THEN MemberAfter(d, q, t) ELSE d.members[q.key][t]
    BY <1>3, <1>4, <1>5
  <2> HIDE DEF Mems
  <2> QED
    BY <1>2, <2>1, <2>2
<1> QED
  BY <1>6, <1>7, <1>8, <1>9 DEF DecidedAs

(* What saving a decision leaves, column by column.                         *)
SavedAs(d, read, q, new, n) ==
    /\ Shape(n)
    /\ \A t \in DupRows :
         /\ n.rows[t].present = d.rows[t].present
         /\ n.rows[t].excluded = ColumnSaved(d.rows[t].excluded, read.rows[t].excluded,
                                        new.rows[t].excluded)
         /\ n.members[q.key][t].role = ColumnSaved(d.members[q.key][t].role,
                 read.members[q.key][t].role, new.members[q.key][t].role)
         /\ n.members[q.key][t].byPolicy = ColumnSaved(d.members[q.key][t].byPolicy,
                 read.members[q.key][t].byPolicy, new.members[q.key][t].byPolicy)
    /\ \A j \in Keys \ {q.key} : n.groups[j] = d.groups[j] /\ n.members[j] = d.members[j]
    /\ n.groups[q.key].status = ColumnSaved(d.groups[q.key].status,
           read.groups[q.key].status, new.groups[q.key].status)
    /\ n.groups[q.key].resolution = ColumnSaved(d.groups[q.key].resolution,
           read.groups[q.key].resolution, new.groups[q.key].resolution)
    /\ n.groups[q.key].canonical = ColumnSaved(d.groups[q.key].canonical,
           read.groups[q.key].canonical, new.groups[q.key].canonical)

LEMMA SavedRows ==
  ASSUME NEW d, Shape(d), NEW read, Shape(read), NEW q \in Questions,
         NEW new, DecidedAs(read, q, new), NEW n, n = Saved(d, read, new)
  PROVE  SavedAs(d, read, q, new, n)
<1> DEFINE Rows == [present : BOOLEAN, excluded : BOOLEAN, group : Keys \cup {NoRow}]
           Mems == [role : Roles, byPolicy : BOOLEAN]
<1>1. /\ n = [rows |-> n.rows, groups |-> n.groups, members |-> n.members]
      /\ n.rows = [r \in DupRows |-> Flushed(d.rows[r], read.rows[r], new.rows[r])]
      /\ n.groups = [k \in Keys |-> Flushed(d.groups[k], read.groups[k], new.groups[k])]
      /\ n.members = [k \in Keys |-> [r \in DupRows |->
            Flushed(d.members[k][r], read.members[k][r], new.members[k][r])]]
  BY DEF Saved
<1>2. /\ d.rows \in [DupRows -> Rows] /\ d.members \in [Keys -> [DupRows -> Mems]]
      /\ read.rows \in [DupRows -> Rows] /\ read.members \in [Keys -> [DupRows -> Mems]]
  BY DEF Shape
<1>3. q.key \in Keys /\ q.named \in DupRows \cup {NoRow}
  BY QuestionTyped
<1>4. ASSUME NEW t \in DupRows
      PROVE  /\ n.rows[t] \in Rows
             /\ n.rows[t].present = d.rows[t].present
             /\ n.rows[t].excluded = ColumnSaved(d.rows[t].excluded, read.rows[t].excluded,
                                            new.rows[t].excluded)
  <2>1. /\ d.rows[t] \in Rows /\ new.rows[t].excluded \in BOOLEAN
        /\ new.rows[t].present = read.rows[t].present /\ new.rows[t].group = read.rows[t].group
    BY <1>2 DEF DecidedAs
  <2>2. PICK e : e = Flushed(d.rows[t], read.rows[t], new.rows[t])
    OBVIOUS
  <2>3. DOMAIN d.rows[t] = {"present", "excluded", "group"}
    BY <2>1
  <2>4. /\ DOMAIN e = {"present", "excluded", "group"} /\ e = [c \in DOMAIN e |-> e[c]]
        /\ e.present = d.rows[t].present /\ e.group = d.rows[t].group
        /\ e.excluded = ColumnSaved(d.rows[t].excluded, read.rows[t].excluded, new.rows[t].excluded)
    BY <2>1, <2>2, <2>3 DEF Flushed, ColumnSaved
  <2>5. e \in Rows
    <3>1. e.present \in BOOLEAN /\ e.group \in Keys \cup {NoRow} /\ e.excluded \in BOOLEAN
      BY <2>1, <2>4 DEF ColumnSaved
    <3> QED
      BY <2>4, <3>1
  <2>6. n.rows[t] = e
    BY <1>1, <2>2
  <2> QED
    BY <2>4, <2>5, <2>6
<1>5. ASSUME NEW k \in Keys
      PROVE  /\ DOMAIN n.groups[k] = {"status", "resolution", "canonical", "past"}
             /\ n.groups[k].status = ColumnSaved(d.groups[k].status,
                    read.groups[k].status, new.groups[k].status)
             /\ n.groups[k].resolution = ColumnSaved(d.groups[k].resolution,
                    read.groups[k].resolution, new.groups[k].resolution)
             /\ n.groups[k].canonical = ColumnSaved(d.groups[k].canonical,
                    read.groups[k].canonical, new.groups[k].canonical)
             /\ n.groups[k].past = d.groups[k].past
             /\ n.groups[k] = [y \in DOMAIN n.groups[k] |-> n.groups[k][y]]
  <2>1. DOMAIN d.groups[k] = {"status", "resolution", "canonical", "past"}
    BY DEF Shape
  <2>2. n.groups[k] = Flushed(d.groups[k], read.groups[k], new.groups[k])
    BY <1>1
  <2>3. new.groups[k].past = read.groups[k].past
    <3>1. CASE k = q.key
      BY <3>1 DEF DecidedAs
    <3>2. CASE k # q.key
      BY <3>2 DEF DecidedAs
    <3> QED
      BY <3>1, <3>2
  <2> QED
    BY <2>1, <2>2, <2>3 DEF Flushed, ColumnSaved
<1>6. ASSUME NEW k \in Keys, NEW t \in DupRows
      PROVE  /\ n.members[k][t].role = ColumnSaved(d.members[k][t].role,
                    read.members[k][t].role, new.members[k][t].role)
             /\ n.members[k][t].byPolicy = ColumnSaved(d.members[k][t].byPolicy,
                    read.members[k][t].byPolicy, new.members[k][t].byPolicy)
             /\ n.members[k][t] \in Mems
             /\ k # q.key => n.members[k][t] = d.members[k][t]
  <2>1. d.members[k][t] \in Mems /\ read.members[k][t] \in Mems /\ new.members[k][t] \in Mems
    <3>1. CASE k = q.key
      BY <1>2, <3>1 DEF DecidedAs
    <3>2. CASE k # q.key
      BY <1>2, <3>2 DEF DecidedAs
    <3> QED
      BY <3>1, <3>2
  <2>2. PICK a, b : /\ a = ColumnSaved(d.members[k][t].role, read.members[k][t].role,
                                  new.members[k][t].role)
                    /\ b = ColumnSaved(d.members[k][t].byPolicy, read.members[k][t].byPolicy,
                                  new.members[k][t].byPolicy)
    OBVIOUS
  <2>3. a \in Roles /\ b \in BOOLEAN
    BY <2>1, <2>2 DEF ColumnSaved
  <2>4. n.members[k][t] = Flushed(d.members[k][t], read.members[k][t], new.members[k][t])
    BY <1>1
  <2>5. n.members[k][t].role = a /\ n.members[k][t].byPolicy = b /\ n.members[k][t] \in Mems
    <3>1. DOMAIN d.members[k][t] = {"role", "byPolicy"}
      BY <2>1
    <3>2. PICK e : e = n.members[k][t]
      OBVIOUS
    <3>3. e = [c \in DOMAIN e |-> e[c]] /\ DOMAIN e = {"role", "byPolicy"}
          /\ e.role = a /\ e.byPolicy = b
      BY <2>2, <2>4, <3>1, <3>2 DEF Flushed, ColumnSaved
    <3> QED
      BY <2>3, <3>2, <3>3
  <2>6. ASSUME k # q.key PROVE n.members[k][t] = d.members[k][t]
    <3>1. new.members[k] = read.members[k]
      BY <2>6 DEF DecidedAs
    <3>2. a = d.members[k][t].role /\ b = d.members[k][t].byPolicy
      BY <2>2, <3>1 DEF ColumnSaved
    <3> QED
      BY <2>1, <2>5, <3>2
  <2> QED
    BY <2>2, <2>5, <2>6
<1>7. n.rows \in [DupRows -> Rows]
  <2> HIDE DEF Rows
  <2> QED
    BY <1>1, <1>4
<1>8. n.members \in [Keys -> [DupRows -> Mems]]
  <2> HIDE DEF Mems
  <2> QED
    BY <1>1, <1>6
<1>9. ASSUME NEW j \in Keys \ {q.key}
      PROVE  n.groups[j] = d.groups[j] /\ n.members[j] = d.members[j]
  <2>1. n.groups[j] = d.groups[j]
    <3>1. new.groups[j] = read.groups[j]
      BY DEF DecidedAs
    <3>2. DOMAIN d.groups[j] = {"status", "resolution", "canonical", "past"}
      BY DEF Shape
    <3>3. /\ DOMAIN n.groups[j] = {"status", "resolution", "canonical", "past"}
          /\ n.groups[j].status = d.groups[j].status
          /\ n.groups[j].resolution = d.groups[j].resolution
          /\ n.groups[j].canonical = d.groups[j].canonical
          /\ n.groups[j].past = d.groups[j].past
          /\ n.groups[j] = [y \in DOMAIN n.groups[j] |-> n.groups[j][y]]
      BY <1>5, <3>1 DEF ColumnSaved
    <3>4. d.groups[j] = [y \in DOMAIN d.groups[j] |-> d.groups[j][y]]
      BY DEF Shape
    <3> QED
      BY <3>2, <3>3, <3>4
  <2>2. n.members[j] = d.members[j]
    <3>1. \A t \in DupRows : n.members[j][t] = d.members[j][t]
      BY <1>6
    <3> HIDE DEF Mems
    <3> QED
      BY <1>2, <1>8, <3>1
  <2> QED
    BY <2>1, <2>2
<1>10. \A k \in Keys : n.groups[k].canonical \in DupRows \cup {NoRow}
  <2>1. ASSUME NEW k \in Keys PROVE n.groups[k].canonical \in DupRows \cup {NoRow}
    <3>1. d.groups[k].canonical \in DupRows \cup {NoRow}
      BY DEF Shape
    <3>2. CASE k = q.key
      BY <1>3, <1>5, <3>1, <3>2 DEF ColumnSaved, DecidedAs
    <3>3. CASE k # q.key
      BY <1>9, <3>1, <3>3
    <3> QED
      BY <3>2, <3>3
  <2> QED
    BY <2>1
<1>11. n.groups = [k \in Keys |-> n.groups[k]]
  BY <1>1
<1>12. Shape(n)
  BY <1>1, <1>5, <1>7, <1>8, <1>10, <1>11 DEF Shape
<1> QED
  BY <1>3, <1>4, <1>5, <1>6, <1>9, <1>12 DEF SavedAs

(* Saving a decision moves no row in or out of a group, and leaves a group  *)
(* nobody touched since it was read in order.                               *)
LEMMA SettledIsSound ==
  ASSUME NEW d, NEW mine, NEW past, SoundBooks(d, mine, past),
         NEW q \in Questions, NEW read, Shape(read), RowsThere(read), Valid(read, q),
         \A t \in DupRows : InGroup(read, q.key, t) /\ d.rows[t].present => InGroup(d, q.key, t),
         NEW new, new = Decided(read, q), ~Overtaken(d, read, new),
         NEW n, n = Saved(d, read, new),
         NEW marks, \A j \in Keys \ {q.key} : marks[j] = past[j],
         \/ "overlap" \in marks[q.key]
         \/ read = d /\ marks[q.key] = past[q.key] \ {"backfill"}
  PROVE  /\ SoundBooks(n, mine, marks)
         /\ \A t \in DupRows : n.rows[t].present = d.rows[t].present
         /\ \A j \in Keys, t \in DupRows : InGroup(n, j, t) <=> InGroup(d, j, t)
<1>1. Shape(d) /\ RowsThere(d) /\ LoneRows(d, mine)
  BY DEF SoundBooks
<1>2. PICK k : k = q.key
  OBVIOUS
<1>3. /\ k \in Keys
      /\ \/ q.op = "duplicate" /\ q.named \in DupRows
         \/ q.op = "distinct" /\ q.named = NoRow
  BY <1>2, QuestionTyped
<1>4. DecidedAs(read, q, new)
  BY DecidedRows
<1>5. /\ Shape(n)
      /\ \A t \in DupRows :
              /\ n.rows[t].present = d.rows[t].present
              /\ n.rows[t].excluded = ColumnSaved(d.rows[t].excluded, read.rows[t].excluded,
                                             new.rows[t].excluded)
              /\ n.members[k][t].role = ColumnSaved(d.members[k][t].role,
                      read.members[k][t].role, new.members[k][t].role)
              /\ n.members[k][t].byPolicy = ColumnSaved(d.members[k][t].byPolicy,
                      read.members[k][t].byPolicy, new.members[k][t].byPolicy)
      /\ \A j \in Keys \ {k} : n.groups[j] = d.groups[j] /\ n.members[j] = d.members[j]
      /\ n.groups[k].status = ColumnSaved(d.groups[k].status,
                read.groups[k].status, new.groups[k].status)
      /\ n.groups[k].resolution = ColumnSaved(d.groups[k].resolution,
                read.groups[k].resolution, new.groups[k].resolution)
      /\ n.groups[k].canonical = ColumnSaved(d.groups[k].canonical,
                read.groups[k].canonical, new.groups[k].canonical)
  <2>1. Shape(d)
    BY <1>1
  <2>2. SavedAs(d, read, q, new, n)
    BY <2>1, <1>4, SavedRows
  <2> QED
    BY <1>2, <2>2 DEF SavedAs
<1>6. ASSUME NEW t \in DupRows, InGroup(read, k, t) PROVE MemberAfter(read, q, t).role # "none"
  BY DEF MemberAfter
<1>7. ASSUME NEW t \in DupRows, read.rows[t].present,
             \/ new.rows[t].excluded # read.rows[t].excluded
             \/ new.members[k][t] # read.members[k][t]
             \/ new.groups[k].canonical = t /\ read.groups[k].canonical # t
      PROVE  d.rows[t].present
  <2>1. CASE new.rows[t].excluded # read.rows[t].excluded
    <3>1. new.rows[t] # read.rows[t]
      BY <2>1
    <3> QED
      BY <1>7, <3>1 DEF Overtaken
  <2>2. CASE new.members[k][t] # read.members[k][t]
    BY <1>3, <1>7, <2>2 DEF Overtaken
  <2>3. CASE new.groups[k].canonical = t /\ read.groups[k].canonical # t
    BY <1>3, <1>7, <2>3 DEF Overtaken
  <2> QED
    BY <1>7, <2>1, <2>2, <2>3
<1>8. ASSUME NEW t \in DupRows, \/ new.rows[t].excluded # read.rows[t].excluded
                                \/ new.members[k][t] # read.members[k][t]
      PROVE  InGroup(d, k, t) /\ InGroup(read, k, t)
  <2>1. InGroup(read, k, t)
    BY <1>2, <1>4, <1>8 DEF DecidedAs
  <2>2. read.rows[t].present
    BY <1>3, <2>1 DEF RowsThere
  <2>3. d.rows[t].present
    BY <1>7, <1>8, <2>2
  <2> QED
    BY <1>2, <2>1, <2>3
<1>9. \A j \in Keys, t \in DupRows : InGroup(n, j, t) <=> InGroup(d, j, t)
  <2>1. ASSUME NEW t \in DupRows PROVE InGroup(n, k, t) <=> InGroup(d, k, t)
    <3>1. CASE new.members[k][t].role = read.members[k][t].role
      BY <1>5, <3>1 DEF ColumnSaved, InGroup
    <3>2. CASE new.members[k][t].role # read.members[k][t].role
      <4>1. InGroup(d, k, t) /\ InGroup(read, k, t)
        BY <1>8, <3>2
      <4>2. new.members[k][t] = MemberAfter(read, q, t)
        BY <1>2, <1>4, <4>1 DEF DecidedAs
      <4>3. n.members[k][t].role = new.members[k][t].role
        BY <1>5, <3>2 DEF ColumnSaved
      <4> QED
        BY <1>6, <4>1, <4>2, <4>3 DEF InGroup
    <3> QED
      BY <3>1, <3>2
  <2> QED
    BY <1>5, <2>1 DEF InGroup
<1>10. ASSUME NEW t \in DupRows, ~InGroup(d, k, t)
       PROVE  n.rows[t].excluded = d.rows[t].excluded
  BY <1>5, <1>8, <1>10 DEF ColumnSaved
<1>11. RowsThere(n)
  <2>1. \A j \in Keys, t \in DupRows : InGroup(n, j, t) => n.rows[t].present
    BY <1>1, <1>5, <1>9 DEF RowsThere
  <2>2. ASSUME NEW j \in Keys, n.groups[j].canonical # NoRow,
               n.groups[j].canonical = d.groups[j].canonical
        PROVE  n.rows[n.groups[j].canonical].present
    <3>1. d.groups[j].canonical \in DupRows /\ d.rows[d.groups[j].canonical].present
      BY <1>1, <2>2 DEF RowsThere, Shape
    <3> QED
      BY <1>5, <2>2, <3>1
  <2>3. ASSUME n.groups[k].canonical # NoRow, n.groups[k].canonical # d.groups[k].canonical
        PROVE  n.rows[n.groups[k].canonical].present
    <3>1. /\ n.groups[k].canonical = new.groups[k].canonical
          /\ new.groups[k].canonical # read.groups[k].canonical
      BY <1>5, <2>3 DEF ColumnSaved
    <3>2. new.groups[k].canonical = q.named
      BY <1>2, <1>4 DEF DecidedAs
    <3>3. q.named \in DupRows /\ q.op = "duplicate"
      BY <1>3, <2>3, <3>1, <3>2
    <3>4. InGroup(read, k, q.named)
      BY <1>2, <3>3 DEF Valid, Members, InGroup
    <3>5. read.rows[q.named].present
      BY <1>3, <3>3, <3>4 DEF RowsThere
    <3>6. d.rows[q.named].present
      BY <1>7, <3>1, <3>2, <3>3, <3>5
    <3> QED
      BY <1>5, <3>1, <3>2, <3>3, <3>6
  <2>4. \A j \in Keys \ {k} : n.groups[j].canonical = d.groups[j].canonical
    BY <1>5
  <2> QED
    BY <2>1, <2>2, <2>3, <2>4 DEF RowsThere
<1>12. LoneRows(n, mine)
  <2>1. ASSUME NEW t \in DupRows, KeptOut(n, mine, t) PROVE \E j \in Keys : InGroup(n, j, t)
    <3>1. CASE InGroup(d, k, t)
      BY <1>3, <1>9, <3>1
    <3>2. CASE ~InGroup(d, k, t)
      <4>1. KeptOut(d, mine, t)
        BY <1>10, <2>1, <3>2 DEF KeptOut
      <4> QED
        BY <1>1, <1>9, <4>1 DEF LoneRows
    <3> QED
      BY <3>1, <3>2
  <2> QED
    BY <2>1 DEF LoneRows
<1>13. \A j \in Keys : AloneIn(n, j) <=> AloneIn(d, j)
  BY <1>9 DEF AloneIn
<1>14. ASSUME NEW j \in Keys \ {k}, AloneIn(n, j), marks[j] \subseteq {"backfill"}
       PROVE  Ordered(n, mine, j) /\ (marks[j] = {} => OthersOut(n, j))
  <2>1. Ordered(d, mine, j) /\ (marks[j] = {} => OthersOut(d, j))
    BY <1>2, <1>13, <1>14 DEF SoundBooks
  <2>2. \A t \in DupRows : InGroup(n, j, t) =>
           InGroup(d, j, t) /\ n.rows[t].excluded = d.rows[t].excluded
    BY <1>3, <1>9, <1>10, <1>14 DEF AloneIn
  <2>3. n.groups[j] = d.groups[j] /\ n.members[j] = d.members[j]
    BY <1>5
  <2>4. Decidable(n, j) <=> Decidable(d, j)
    BY <2>3 DEF Decidable
  <2>5. \A t \in DupRows : InGroup(n, j, t) => (KeptOut(n, mine, t) <=> KeptOut(d, mine, t))
    BY <2>2 DEF KeptOut
  <2>6. \A t \in DupRows : InGroup(n, j, t) <=> InGroup(d, j, t)
    BY <1>9
  <2>7. Ordered(n, mine, j)
    BY <2>1, <2>3, <2>4, <2>5, <2>6 DEF Ordered
  <2>8. marks[j] = {} => OthersOut(n, j)
    BY <2>1, <2>2, <2>3, <2>4, <2>6 DEF OthersOut
  <2> QED
    BY <2>7, <2>8
<1>15. ASSUME AloneIn(n, k), marks[k] \subseteq {"backfill"}
       PROVE  Ordered(n, mine, k) /\ OthersOut(n, k)
  <2>1. read = d /\ past[k] \subseteq {"backfill"}
    BY <1>2, <1>15
  <2>2. Ordered(d, mine, k)
    BY <1>3, <1>13, <1>15, <2>1 DEF SoundBooks
  <2>3. /\ n.groups[k].status = "resolved" /\ n.groups[k].resolution = q.op
        /\ n.groups[k].canonical = q.named
    <3>1. /\ new.groups[k].status = "resolved" /\ new.groups[k].resolution = q.op
          /\ new.groups[k].canonical = q.named
      BY <1>2, <1>4 DEF DecidedAs
    <3>2. \A x, y : ColumnSaved(x, x, y) = y
      BY DEF ColumnSaved
    <3>3. /\ n.groups[k].status = new.groups[k].status
          /\ n.groups[k].resolution = new.groups[k].resolution
          /\ n.groups[k].canonical = new.groups[k].canonical
      BY <1>5, <2>1, <3>2
    <3> QED
      BY <3>1, <3>3
  <2>4. ASSUME NEW t \in DupRows, InGroup(n, k, t)
        PROVE  /\ n.members[k][t].role = MemberAfter(d, q, t).role
               /\ n.members[k][t].byPolicy = MemberAfter(d, q, t).byPolicy
               /\ n.rows[t].excluded = ExcludedAfter(d, q, t)
               /\ KeptOut(d, mine, t) => d.members[k][t].byPolicy
    <3>1. InGroup(d, k, t)
      BY <1>9, <2>4, <1>3
    <3>2. /\ new.rows[t].excluded = ExcludedAfter(d, q, t)
          /\ new.members[k][t] = MemberAfter(d, q, t)
      BY <1>2, <1>4, <2>1, <3>1 DEF DecidedAs
    <3>3. KeptOut(d, mine, t) => d.members[k][t].byPolicy
      BY <2>2, <3>1 DEF Ordered
    <3> QED
      BY <1>5, <2>1, <3>2, <3>3 DEF ColumnSaved
  <2>5. CASE q.op = "duplicate"
    <3>1. q.named \in DupRows /\ InGroup(n, k, q.named)
      <4>1. q.named \in DupRows /\ InGroup(d, k, q.named)
        BY <1>2, <1>3, <2>1, <2>5 DEF Valid, Members, InGroup
      <4> QED
        BY <1>3, <1>9, <4>1
    <3>2. n.members[k][q.named].role # "distinct" /\ ~KeptOut(n, mine, q.named)
      <4>1. MemberAfter(d, q, q.named).role = "canonical"
        BY <2>5 DEF MemberAfter
      <4>2. KeptOut(n, mine, q.named) => d.rows[q.named].excluded /\ ~d.members[k][q.named].byPolicy
                                         /\ q.named \notin mine
        BY <1>2, <2>4, <2>5, <3>1 DEF ExcludedAfter, KeptOut
      <4>3. KeptOut(n, mine, q.named) => KeptOut(d, mine, q.named)
        BY <4>2 DEF KeptOut
      <4> QED
        BY <2>4, <3>1, <4>1, <4>2, <4>3
    <3>3. ASSUME NEW t \in DupRows, InGroup(n, k, t), t # q.named
          PROVE  /\ n.members[k][t].role # "distinct" /\ n.members[k][t].byPolicy
                 /\ n.rows[t].excluded
      <4>1. /\ MemberAfter(d, q, t).role = "supporting" /\ MemberAfter(d, q, t).byPolicy
            /\ ExcludedAfter(d, q, t)
        BY <2>5, <3>3 DEF MemberAfter, ExcludedAfter
      <4> QED
        BY <2>4, <3>3, <4>1
    <3>4. Ordered(n, mine, k)
      BY <2>3, <2>5, <3>1, <3>2, <3>3 DEF Ordered, Decidable
    <3>5. OthersOut(n, k)
      BY <2>3, <3>3 DEF OthersOut
    <3> QED
      BY <3>4, <3>5
  <2>6. CASE q.op = "distinct"
    <3>1. ~Decidable(n, k) /\ n.groups[k].canonical = NoRow
      BY <1>3, <2>3, <2>6 DEF Decidable
    <3>2. ASSUME NEW t \in DupRows, InGroup(n, k, t)
          PROVE  /\ n.members[k][t].role = "distinct" /\ ~n.members[k][t].byPolicy
                 /\ ~KeptOut(n, mine, t)
      <4>1. /\ MemberAfter(d, q, t).role = "distinct" /\ ~MemberAfter(d, q, t).byPolicy
            /\ ExcludedAfter(d, q, t) => d.rows[t].excluded /\ ~d.members[k][t].byPolicy
        BY <1>2, <2>6 DEF MemberAfter, ExcludedAfter
      <4>2. KeptOut(n, mine, t) => KeptOut(d, mine, t) /\ ~d.members[k][t].byPolicy
        BY <2>4, <3>2, <4>1 DEF KeptOut
      <4> QED
        BY <2>4, <3>2, <4>1, <4>2
    <3>3. Ordered(n, mine, k)
      BY <3>1, <3>2 DEF Ordered
    <3> QED
      BY <3>1, <3>3 DEF OthersOut
  <2> QED
    BY <1>3, <2>5, <2>6
<1> QED
  BY <1>5, <1>9, <1>11, <1>12, <1>14, <1>15 DEF SoundBooks

LEMMA SettleIsSound ==
  ASSUME DupInv, NEW q \in Questions, NEW read, Shape(read), RowsThere(read), Valid(read, q),
         \A t \in DupRows : InGroup(read, q.key, t) /\ book.rows[t].present
                                => InGroup(book, q.key, t),
         NEW overlap, ~overlap => read = book, Settle(q, read, overlap)
  PROVE  /\ SoundBooks(book, own, history)'
         /\ history' = [k \in Keys |-> history'[k]]
         /\ \A t \in DupRows : /\ book'.rows[t].present = book.rows[t].present
                               /\ \A k \in Keys : InGroup(book, k, t) => InGroup(book', k, t)
<1>1. PICK new, n, marks : new = Decided(read, q) /\ n = book' /\ marks = history'
  OBVIOUS
<1>2. /\ ~Overtaken(book, read, new) /\ n = Saved(book, read, new) /\ own' = own
      /\ marks = [history EXCEPT ![q.key] = IF overlap THEN @ \cup {"overlap"}
                                            ELSE @ \ {"backfill"}]
  BY <1>1 DEF Settle
<1>3. q.key \in Keys /\ history = [k \in Keys |-> history[k]]
  BY QuestionTyped DEF DupInv
<1>4. DOMAIN history = Keys
  BY <1>3
<1>5. /\ \A j \in Keys \ {q.key} : marks[j] = history[j]
      /\ marks = [k \in Keys |-> marks[k]]
      /\ \/ "overlap" \in marks[q.key]
         \/ read = book /\ marks[q.key] = history[q.key] \ {"backfill"}
  <2>1. marks[q.key] = IF overlap THEN history[q.key] \cup {"overlap"}
                       ELSE history[q.key] \ {"backfill"}
    BY <1>2, <1>3, <1>4
  <2> QED
    BY <1>2, <1>3, <1>4, <2>1
<1>6. /\ SoundBooks(n, own, marks)
      /\ \A t \in DupRows : n.rows[t].present = book.rows[t].present
      /\ \A j \in Keys, t \in DupRows : InGroup(n, j, t) <=> InGroup(book, j, t)
  <2>1. SoundBooks(book, own, history)
    BY DEF DupInv
  <2>2. new = Decided(read, q) /\ ~Overtaken(book, read, new) /\ n = Saved(book, read, new)
    BY <1>1, <1>2
  <2> QED
    BY <1>5, <2>1, <2>2, SettledIsSound
<1>7. SoundBooks(book, own, history)'
  BY <1>1, <1>2, <1>6
<1> QED
  BY <1>1, <1>5, <1>6, <1>7

LEMMA ResolveIsSound ==
  ASSUME DupInv, NEW q \in Questions, ResolveGroup(q)
  PROVE  DupInv'
<1>1. PICK overlap \in BOOLEAN : ~overlap
  OBVIOUS
<1>2. Settle(q, book, overlap) /\ Valid(book, q) /\ decision' = decision
  <2>1. overlap = FALSE
    BY <1>1
  <2> QED
    BY <2>1 DEF ResolveGroup
<1>3. Shape(book) /\ RowsThere(book)
  BY DEF DupInv, SoundBooks
<1>4. /\ SoundBooks(book, own, history)'
      /\ history' = [k \in Keys |-> history'[k]]
      /\ \A t \in DupRows : /\ book'.rows[t].present = book.rows[t].present
                            /\ \A k \in Keys : InGroup(book, k, t) => InGroup(book', k, t)
  BY <1>2, <1>3, SettleIsSound
<1>5. DecisionSound'
  BY <1>2, <1>4, DecisionStays DEF DupInv
<1> QED
  BY <1>4, <1>5 DEF DupInv

LEMMA BeginIsSound ==
  ASSUME DupInv, NEW q \in Questions, BeginResolve(q)
  PROVE  DupInv'
<1>1. /\ Valid(book, q) /\ book' = book /\ history' = history /\ own' = own
      /\ decision' = [op |-> q.op, q |-> q, read |-> book]
  BY DEF BeginResolve
<1>2. decision'.q = q /\ decision'.read = book
  BY <1>1
<1>3. Shape(book) /\ RowsThere(book)
  BY DEF DupInv, SoundBooks
<1>4. DecisionSound'
  BY <1>1, <1>2, <1>3 DEF DecisionSound
<1>5. SoundBooks(book, own, history)'
  BY <1>1 DEF DupInv
<1> QED
  BY <1>1, <1>4, <1>5 DEF DupInv

LEMMA FinishIsSound ==
  ASSUME DupInv, FinishResolve
  PROVE  DupInv'
<1>1. decision # Idle /\ decision' = Idle
  BY DEF FinishResolve
<1>2. DecisionSound'
  BY <1>1 DEF DecisionSound
<1>3. CASE UNCHANGED <<book, history, own>>
  <2>1. SoundBooks(book, own, history)' /\ history' = [k \in Keys |-> history'[k]]
    BY <1>3 DEF DupInv
  <2> QED
    BY <1>2, <2>1 DEF DupInv
<1>4. CASE Settle(decision.q, decision.read, book # decision.read)
  <2>1. PICK q, read : q = decision.q /\ read = decision.read
    OBVIOUS
  <2>2. /\ Shape(read) /\ RowsThere(read) /\ q \in Questions /\ Valid(read, q)
        /\ \A t \in DupRows : InGroup(read, q.key, t) /\ book.rows[t].present
                                => InGroup(book, q.key, t)
    BY <1>1, <2>1 DEF DupInv, DecisionSound
  <2>3. PICK overlap : overlap = (book # read)
    OBVIOUS
  <2>4. Settle(q, read, overlap) /\ (~overlap => read = book)
    BY <1>4, <2>1, <2>3
  <2>5. SoundBooks(book, own, history)' /\ history' = [k \in Keys |-> history'[k]]
    BY <2>2, <2>4, SettleIsSound
  <2> QED
    BY <1>2, <2>5 DEF DupInv
<1> QED
  BY <1>3, <1>4 DEF FinishResolve

(* Discovery is grouping without touching the rows.                         *)
LEMMA DiscoveredIsSound ==
  ASSUME NEW d, NEW mine, NEW past, SoundBooks(d, mine, past), \A k \in Keys : past[k] # {},
         NEW r \in DupRows, d.rows[r].present, ~KeptOut(d, mine, r),
         \A k \in Keys : AloneIn(d, k) /\ past[k] \subseteq {"backfill"} /\ d.groups[k].canonical = r
             => \A t \in DupRows : InGroup(d, k, t) => ~KeptOut(d, mine, t),
         NEW n, n = Discovered(d, r)
  PROVE  /\ SoundBooks(n, mine, past)
         /\ \A t \in DupRows : n.rows[t].present = d.rows[t].present
                               /\ n.rows[t].excluded = d.rows[t].excluded
         /\ \A k \in Keys, t \in DupRows : InGroup(d, k, t) => InGroup(n, k, t)
         /\ \A k \in Keys : AloneIn(n, k) /\ past[k] \subseteq {"backfill"} =>
               \/ n.groups[k].canonical = r
               \/ /\ n.groups[k].canonical = d.groups[k].canonical
                  /\ \A t \in DupRows : InGroup(n, k, t) =>
                        InGroup(d, k, t) \/ t \in {r, n.groups[k].canonical}
               \/ \A t \in DupRows : InGroup(n, k, t) => ~KeptOut(d, mine, t)
<1>1. CASE n = d
  BY <1>1
<1>2. CASE n # d
  <2>1. PICK s, k : s = BestCandidate(d, r) /\ k = GroupFor(d, r, s)
    OBVIOUS
  <2>2. Shape(d)
    BY DEF SoundBooks
  <2>3. Candidates(d, r) # {} /\ n = Grouped(d, r, s, k, FALSE)
    BY <1>2, <2>1 DEF Discovered
  <2>4. s \in DupRows /\ r # s /\ d.rows[s].present /\ k \in Keys
    BY <2>1, <2>2, <2>3, PairedWith
  <2>5. PICK apply \in BOOLEAN : ~apply
    OBVIOUS
  <2>6. n = Grouped(d, r, s, k, apply)
    BY <2>3, <2>5 DEF Grouped
  <2>7. AloneIn(d, k) /\ past[k] \subseteq {"backfill"} /\ d.groups[k].canonical = r
             => \A t \in DupRows : InGroup(d, k, t) => ~KeptOut(d, mine, t)
    BY <2>4
  <2>8. /\ Shape(n) /\ RowsThere(n) /\ LoneRows(n, mine)
        /\ \A t \in DupRows : n.rows[t].present = d.rows[t].present
        /\ ~apply => \A t \in DupRows : n.rows[t].excluded = d.rows[t].excluded
        /\ \A j \in Keys, t \in DupRows : InGroup(d, j, t) => InGroup(n, j, t)
        /\ \A j \in Keys : AloneIn(n, j) /\ past[j] \subseteq {"backfill"} =>
               /\ Ordered(n, mine, j)
               /\ past[j] = {} /\ (apply \/ j # k) => OthersOut(n, j)
        /\ AloneIn(n, k) /\ past[k] \subseteq {"backfill"} =>
               \/ n.groups[k].canonical = r
               \/ /\ n.groups[k].canonical = d.groups[k].canonical
                  /\ \A t \in DupRows : InGroup(n, k, t) =>
                        InGroup(d, k, t) \/ t \in {r, n.groups[k].canonical}
               \/ \A t \in DupRows : InGroup(n, k, t) => ~KeptOut(d, mine, t)
        /\ \A j \in Keys \ {k} : n.groups[j] = d.groups[j] /\ n.members[j] = d.members[j]
    BY <2>4, <2>6, <2>7, GroupedIsSound
  <2>9. \A j \in Keys \ {k} : \A t \in DupRows : InGroup(n, j, t) <=> InGroup(d, j, t)
    BY <2>8 DEF InGroup
  <2>10. SoundBooks(n, mine, past)
    BY <2>8 DEF SoundBooks
  <2> QED
    BY <2>5, <2>8, <2>9, <2>10
<1> QED
  BY <1>1, <1>2

(* The backfill's walk over the rows is defined at each of them.            *)
LEMMA WalkIsDefined ==
  ASSUME NEW d, NEW last \in Nat
  PROVE  \E f : f = [n \in 0 .. last |->
                       IF n = 0 THEN d
                       ELSE IF n \in Unexamined(d) THEN Discovered(f[n - 1], n) ELSE f[n - 1]]
<1> DEFINE Step(b, n) == IF n \in Unexamined(d) THEN Discovered(b, n) ELSE b
           Is(f, m) == f = [n \in 0 .. m |-> IF n = 0 THEN d ELSE Step(f[n - 1], n)]
           Fails == {m \in Nat : \A f : ~Is(f, m)}
<1>1. SUFFICES ASSUME Fails # {} PROVE FALSE
  <2>1. \E f : Is(f, last)
    BY <1>1
  <2> QED
    BY <2>1
<1>2. PICK m \in Fails : \A k \in Fails : m <= k
  <2>1. Fails \in SUBSET Nat
    OBVIOUS
  <2> HIDE DEF Fails
  <2> QED
    BY <1>1, <2>1, LeastNumber
<1>3. m # 0
  <2>1. PICK f : f = [n \in 0 .. 0 |-> d]
    OBVIOUS
  <2>2. Is(f, 0)
    BY <2>1
  <2> HIDE DEF Is
  <2> QED
    BY <1>2, <2>2
<1>4. m - 1 \in Nat /\ m \in Nat
  BY <1>2, <1>3
<1>5. PICK f : Is(f, m - 1)
  <2> HIDE DEF Is
  <2>1. m - 1 \notin Fails
    BY <1>2, <1>4
  <2> QED
    BY <1>4, <2>1
<1> HIDE DEF Step
<1>6. PICK g : g = [n \in 0 .. m |-> IF n = m THEN Step(f[m - 1], m) ELSE f[n]]
  OBVIOUS
<1>7. /\ \A n \in 0 .. (m - 1) : f[n] = IF n = 0 THEN d ELSE Step(f[n - 1], n)
  BY <1>5
<1>8. /\ g[m] = Step(f[m - 1], m) /\ \A n \in 0 .. (m - 1) : g[n] = f[n]
  BY <1>4, <1>6
<1>9. ASSUME NEW n \in 0 .. m PROVE g[n] = IF n = 0 THEN d ELSE Step(g[n - 1], n)
  <2>1. CASE n = m
    BY <1>3, <1>4, <1>8, <2>1
  <2>2. CASE n # m
    <3>1. n \in 0 .. (m - 1) /\ (n # 0 => n - 1 \in 0 .. (m - 1))
      BY <1>4, <2>2
    <3> QED
      BY <1>7, <1>8, <3>1
  <2> QED
    BY <2>1, <2>2
<1>10. Is(g, m)
  <2>1. g = [n \in 0 .. m |-> g[n]]
    BY <1>6
  <2> QED
    BY <1>9, <2>1
<1> HIDE DEF Is
<1> QED
  BY <1>2, <1>10

LEMMA WalkOf ==
  ASSUME NEW d, DupRows # {}
  PROVE  \E last \in Nat : \E f :
            /\ DupRows \subseteq 1 .. last
            /\ f[0] = d /\ Backfilled(d) = f[last]
            /\ \A n \in 1 .. last : f[n] = IF n \in Unexamined(d) THEN Discovered(f[n - 1], n)
                                           ELSE f[n - 1]
<1> DEFINE last == CHOOSE n \in DupRows : \A r \in DupRows : r <= n
           Is(f) == f = [n \in 0 .. last |->
                       IF n = 0 THEN d
                       ELSE IF n \in Unexamined(d) THEN Discovered(f[n - 1], n) ELSE f[n - 1]]
           upTo == CHOOSE f : Is(f)
<1>1. last \in DupRows /\ \A r \in DupRows : r <= last
  <2> DEFINE id == [r \in DupRows |-> r]
  <2>1. id \in [DupRows -> Nat] /\ \A r \in DupRows : id[r] = r
    BY RowsNat
  <2>2. \E n \in DupRows : \A r \in DupRows : r <= n
    <3> HIDE DEF id
    <3>1. PICK n \in DupRows : \A r \in DupRows : id[r] <= id[n]
      BY <2>1, RowsNat, Foremost
    <3> QED
      BY <2>1, <3>1
  <2> QED
    BY <2>2
<1>2. last \in Nat /\ DupRows \subseteq 1 .. last
  <2> HIDE DEF last
  <2> QED
    BY <1>1, RowsNat, SMTT(30)
<1>3. Backfilled(d) = upTo[last]
  BY DEF Backfilled
<1> HIDE DEF last
<1>4. Is(upTo)
  <2>1. \E f : Is(f)
    BY <1>2, WalkIsDefined
  <2> HIDE DEF Is
  <2> QED
    BY <2>1
<1> HIDE DEF upTo
<1>5. /\ upTo[0] = d
      /\ \A n \in 1 .. last : upTo[n] = IF n \in Unexamined(d) THEN Discovered(upTo[n - 1], n)
                                        ELSE upTo[n - 1]
  BY <1>2, <1>4
<1> QED
  BY <1>2, <1>3, <1>5

(* What the walk keeps: rows as they were, groups with every row they had,  *)
(* in order, and no row still to be visited counts for one that is kept     *)
(* out.                                                                     *)
WalkKeeps(d, mine, past, b, n) ==
    /\ SoundBooks(b, mine, past)
    /\ \A t \in DupRows : /\ b.rows[t].present = d.rows[t].present
                          /\ b.rows[t].excluded = d.rows[t].excluded
    /\ \A k \in Keys, t \in DupRows : InGroup(d, k, t) => InGroup(b, k, t)
    /\ \A k \in Keys : /\ AloneIn(b, k) /\ past[k] \subseteq {"backfill"}
                       /\ b.groups[k].canonical \in Unexamined(d) /\ b.groups[k].canonical > n
                       => \A t \in DupRows : InGroup(b, k, t) => ~KeptOut(d, mine, t)

LEMMA WalkStep ==
  ASSUME NEW d, NEW mine, NEW past, LoneRows(d, mine), \A k \in Keys : past[k] # {},
         NEW n \in Nat, n > 0, NEW b, WalkKeeps(d, mine, past, b, n - 1),
         NEW e, e = IF n \in Unexamined(d) THEN Discovered(b, n) ELSE b
  PROVE  WalkKeeps(d, mine, past, e, n)
<1>1. /\ SoundBooks(b, mine, past)
      /\ \A t \in DupRows : /\ b.rows[t].present = d.rows[t].present
                            /\ b.rows[t].excluded = d.rows[t].excluded
      /\ \A k \in Keys, t \in DupRows : InGroup(d, k, t) => InGroup(b, k, t)
      /\ \A k \in Keys : /\ AloneIn(b, k) /\ past[k] \subseteq {"backfill"}
                         /\ b.groups[k].canonical \in Unexamined(d)
                         /\ b.groups[k].canonical > n - 1
                         => \A t \in DupRows : InGroup(b, k, t) => ~KeptOut(d, mine, t)
  BY DEF WalkKeeps
<1>2. \A u \in Unexamined(d) : u \in DupRows /\ u \in Nat /\ d.rows[u].present
                               /\ ~KeptOut(d, mine, u)
  BY RowsNat DEF Unexamined, Present, Members, LoneRows, InGroup
<1>3. \A t \in DupRows : KeptOut(b, mine, t) <=> KeptOut(d, mine, t)
  BY <1>1 DEF KeptOut
<1>4. CASE n \notin Unexamined(d)
  <2>1. \A u \in Unexamined(d) : u > n => u > n - 1
    BY <1>2
  <2> QED
    BY <1>1, <1>4, <2>1 DEF WalkKeeps
<1>5. CASE n \in Unexamined(d)
  <2>1. n \in DupRows /\ b.rows[n].present /\ ~KeptOut(b, mine, n) /\ n > n - 1
    BY <1>1, <1>2, <1>3, <1>5
  <2>2. \A k \in Keys : AloneIn(b, k) /\ past[k] \subseteq {"backfill"} /\ b.groups[k].canonical = n
             => \A t \in DupRows : InGroup(b, k, t) => ~KeptOut(b, mine, t)
    BY <1>1, <1>3, <1>5, <2>1
  <2>3. e = Discovered(b, n)
    BY <1>5
  <2>4. /\ SoundBooks(e, mine, past)
        /\ \A t \in DupRows : e.rows[t].present = b.rows[t].present
                              /\ e.rows[t].excluded = b.rows[t].excluded
        /\ \A k \in Keys, t \in DupRows : InGroup(b, k, t) => InGroup(e, k, t)
        /\ \A k \in Keys : AloneIn(e, k) /\ past[k] \subseteq {"backfill"} =>
               \/ e.groups[k].canonical = n
               \/ /\ e.groups[k].canonical = b.groups[k].canonical
                  /\ \A t \in DupRows : InGroup(e, k, t) =>
                        InGroup(b, k, t) \/ t \in {n, e.groups[k].canonical}
               \/ \A t \in DupRows : InGroup(e, k, t) => ~KeptOut(b, mine, t)
    <3>1. SoundBooks(b, mine, past)
      BY <1>1
    <3> QED
      BY <3>1, <2>1, <2>2, <2>3, DiscoveredIsSound
  <2>5. ASSUME NEW k \in Keys, AloneIn(e, k), past[k] \subseteq {"backfill"},
               e.groups[k].canonical \in Unexamined(d), e.groups[k].canonical > n,
               NEW t \in DupRows, InGroup(e, k, t)
        PROVE  ~KeptOut(d, mine, t)
    <3>1. e.groups[k].canonical # n /\ e.groups[k].canonical > n - 1
          /\ ~KeptOut(d, mine, e.groups[k].canonical) /\ ~KeptOut(d, mine, n)
      <4>1. PICK u : u = e.groups[k].canonical
        OBVIOUS
      <4>2. u \in Nat /\ ~KeptOut(d, mine, u) /\ u > n
        BY <1>2, <2>5, <4>1
      <4>3. u # n /\ u > n - 1
        BY <4>2
      <4> QED
        BY <1>2, <1>5, <4>1, <4>2, <4>3
    <3>2. CASE \A u \in DupRows : InGroup(e, k, u) => ~KeptOut(b, mine, u)
      BY <1>3, <2>5, <3>2
    <3>3. CASE /\ e.groups[k].canonical = b.groups[k].canonical
               /\ InGroup(b, k, t) \/ t \in {n, e.groups[k].canonical}
      <4>1. AloneIn(b, k)
        BY <2>4, <2>5 DEF AloneIn
      <4>2. InGroup(b, k, t) => ~KeptOut(d, mine, t)
        BY <1>1, <2>5, <3>1, <3>3, <4>1
      <4> QED
        BY <3>1, <3>3, <4>2
    <3> QED
      BY <2>4, <2>5, <3>1, <3>2, <3>3
  <2>6. \A k \in Keys, t \in DupRows : InGroup(d, k, t) => InGroup(e, k, t)
    BY <1>1, <2>4
  <2> QED
    BY <1>1, <2>4, <2>5, <2>6 DEF WalkKeeps
<1> QED
  BY <1>4, <1>5

LEMMA BackfilledIsSound ==
  ASSUME NEW d, NEW mine, NEW past, SoundBooks(d, mine, past), \A k \in Keys : past[k] # {},
         DupRows # {}, NEW n, n = Backfilled(d)
  PROVE  /\ SoundBooks(n, mine, past)
         /\ \A t \in DupRows : n.rows[t].present = d.rows[t].present
                               /\ n.rows[t].excluded = d.rows[t].excluded
         /\ \A k \in Keys, t \in DupRows : InGroup(d, k, t) => InGroup(n, k, t)
<1>0. PICK last \in Nat : \E f :
            /\ f[0] = d /\ n = f[last]
            /\ \A i \in 1 .. last : f[i] = IF i \in Unexamined(d) THEN Discovered(f[i - 1], i)
                                           ELSE f[i - 1]
  BY WalkOf
<1>1. PICK f : /\ f[0] = d /\ n = f[last]
               /\ \A i \in 1 .. last : f[i] = IF i \in Unexamined(d) THEN Discovered(f[i - 1], i)
                                              ELSE f[i - 1]
  BY <1>0
<1> DEFINE Fails == {i \in 0 .. last : ~WalkKeeps(d, mine, past, f[i], i)}
<1>2. LoneRows(d, mine)
  BY DEF SoundBooks
<1>3. PICK zero \in Nat : zero = 0
  OBVIOUS
<1>4. WalkKeeps(d, mine, past, d, zero)
  <2>1. ASSUME NEW k \in Keys, AloneIn(d, k), past[k] \subseteq {"backfill"},
               d.groups[k].canonical \in Unexamined(d)
        PROVE  FALSE
    <3>1. ~InGroup(d, k, d.groups[k].canonical) /\ d.groups[k].canonical # NoRow
      BY <2>1, RowsNat DEF Unexamined, Present, Members, InGroup
    <3> QED
      BY <2>1, <3>1 DEF SoundBooks, Ordered
  <2> QED
    BY <2>1 DEF WalkKeeps
<1>5. ASSUME NEW i \in 1 .. last, WalkKeeps(d, mine, past, f[i - 1], i - 1)
      PROVE  WalkKeeps(d, mine, past, f[i], i)
  <2>1. PICK b, e : b = f[i - 1] /\ e = f[i]
    OBVIOUS
  <2>2. i \in Nat /\ i > 0 /\ e = IF i \in Unexamined(d) THEN Discovered(b, i) ELSE b
    BY <1>1, <2>1
  <2>3. WalkKeeps(d, mine, past, b, i - 1)
    BY <1>5, <2>1
  <2>4. WalkKeeps(d, mine, past, e, i)
    BY <1>2, <2>2, <2>3, WalkStep
  <2> QED
    BY <2>1, <2>4
<1>6. Fails = {}
  <2>1. SUFFICES ASSUME Fails # {} PROVE FALSE
    OBVIOUS
  <2>2. PICK m \in Fails : \A i \in Fails : m <= i
    <3>1. Fails \in SUBSET Nat
      OBVIOUS
    <3> HIDE DEF Fails
    <3> QED
      BY <2>1, <3>1, LeastNumber
  <2>3. m # 0
    BY <1>1, <1>3, <1>4, <2>2
  <2>4. m \in 1 .. last /\ m - 1 \in 0 .. last
    BY <2>2, <2>3
  <2>5. WalkKeeps(d, mine, past, f[m - 1], m - 1)
    BY <2>2, <2>4
  <2>6. WalkKeeps(d, mine, past, f[m], m)
    BY <1>5, <2>4, <2>5
  <2> QED
    BY <2>2, <2>6
<1>7. WalkKeeps(d, mine, past, n, last)
  <2>1. last \in 0 .. last
    OBVIOUS
  <2> QED
    BY <1>1, <1>6, <2>1
<1> QED
  BY <1>7 DEF WalkKeeps

LEMMA BackfillIsSound ==
  ASSUME DupInv, Backfill
  PROVE  DupInv'
<1>1. PICK n, marks, past : /\ n = book' /\ marks = history'
                            /\ past = [k \in Keys |-> history[k] \cup {"backfill"}]
  OBVIOUS
<1>2. /\ n = Backfilled(book) /\ marks = Since(book, n, "backfill")
      /\ decision' = decision /\ own' = own
  BY <1>1 DEF Backfill
<1>3. \A k \in Keys : past[k] = history[k] \cup {"backfill"}
  BY <1>1
<1>4. SoundBooks(book, own, history)
  BY DEF DupInv
<1>5. SoundBooks(book, own, past) /\ \A k \in Keys : past[k] # {}
  BY <1>3, <1>4 DEF SoundBooks
<1>6. DupRows # {}
  BY DEF Backfill, Unexamined, Present
<1>7. /\ SoundBooks(n, own, past)
      /\ \A t \in DupRows : n.rows[t].present = book.rows[t].present
                            /\ n.rows[t].excluded = book.rows[t].excluded
      /\ \A k \in Keys, t \in DupRows : InGroup(book, k, t) => InGroup(n, k, t)
  BY <1>2, <1>5, <1>6, BackfilledIsSound
<1>8. /\ \A k \in Keys : marks[k] = IF book.groups[k] # n.groups[k] \/ book.members[k] # n.members[k]
                                    THEN history[k] \cup {"backfill"} ELSE history[k]
      /\ marks = [j \in Keys |-> marks[j]]
  BY <1>2 DEF Since
<1>9. ASSUME NEW k \in Keys, AloneIn(n, k), marks[k] \subseteq {"backfill"}
      PROVE  Ordered(n, own, k) /\ (marks[k] = {} => OthersOut(n, k))
  <2>1. history[k] \subseteq {"backfill"} /\ past[k] \subseteq {"backfill"}
    BY <1>3, <1>8, <1>9
  <2>2. Ordered(n, own, k)
    BY <1>7, <1>9, <2>1 DEF SoundBooks
  <2>3. ASSUME marks[k] = {} PROVE OthersOut(n, k)
    <3>1. n.groups[k] = book.groups[k] /\ n.members[k] = book.members[k] /\ history[k] = {}
      BY <1>8, <2>3
    <3>2. AloneIn(book, k)
      BY <1>7, <1>9 DEF AloneIn
    <3>3. OthersOut(book, k)
      BY <1>4, <3>1, <3>2 DEF SoundBooks
    <3> QED
      BY <1>7, <3>1, <3>3 DEF OthersOut, Decidable, InGroup
  <2> QED
    BY <2>2, <2>3
<1>10. SoundBooks(n, own, marks)
  BY <1>7, <1>9 DEF SoundBooks
<1>11. DecisionSound'
  BY <1>1, <1>2, <1>7, DecisionStays DEF DupInv
<1>12. SoundBooks(book, own, history)'
  BY <1>1, <1>2, <1>10
<1> QED
  BY <1>1, <1>8, <1>11, <1>12 DEF DupInv

LEMMA DupStart == DupInit => DupInv
<1> SUFFICES ASSUME DupInit PROVE DupInv
  OBVIOUS
<1> DEFINE Rows == [present : BOOLEAN, excluded : BOOLEAN, group : Keys \cup {NoRow}]
           Mems == [role : Roles, byPolicy : BOOLEAN]
<1>1. /\ book = [rows |-> book.rows, groups |-> book.groups, members |-> book.members]
      /\ book.rows = [r \in DupRows |-> IF r \in Legacy THEN Arrived(r) ELSE Absent]
      /\ book.groups = [k \in Keys |-> NoGroup]
      /\ book.members = [k \in Keys |-> [r \in DupRows |-> NoMember]]
      /\ own = NotSpent
  BY DEF DupInit
<1>2. \A r \in DupRows : Arrived(r) \in Rows
  <2>1. ASSUME NEW r \in DupRows PROVE Arrived(r) \in Rows
    <3>1. (r \in NotSpent) \in BOOLEAN /\ NoRow \in Keys \cup {NoRow} /\ TRUE \in BOOLEAN
      OBVIOUS
    <3> QED
      BY <3>1 DEF Arrived
  <2> QED
    BY <2>1
<1>3. Absent \in Rows /\ NoMember \in Mems /\ NoMember.role = "none"
  BY DEF Absent, NoMember, Roles
<1>4. book.rows \in [DupRows -> Rows] /\ book.members \in [Keys -> [DupRows -> Mems]]
  <2> HIDE DEF Rows, Mems
  <2> QED
    BY <1>1, <1>2, <1>3
<1>5. /\ DOMAIN NoGroup = {"status", "resolution", "canonical", "past"}
      /\ NoGroup = [c \in DOMAIN NoGroup |-> NoGroup[c]]
      /\ NoGroup.canonical = NoRow /\ NoGroup.status = "none" /\ NoGroup.resolution = "none"
  BY DEF NoGroup
<1>6. \A k \in Keys : book.groups[k] = NoGroup
  BY <1>1
<1>7. Shape(book)
  <2>1. book.groups = [k \in Keys |-> book.groups[k]]
    BY <1>1
  <2> QED
    BY <1>1, <1>4, <1>5, <1>6, <2>1 DEF Shape
<1>8. \A k \in Keys, r \in DupRows : ~InGroup(book, k, r)
  BY <1>1, <1>3 DEF InGroup
<1>9. \A r \in DupRows : ~KeptOut(book, own, r)
  <2>1. ASSUME NEW r \in DupRows PROVE book.rows[r].excluded => r \in own
    <3>1. Arrived(r).excluded => r \in NotSpent
      BY DEF Arrived
    <3>2. ~Absent.excluded
      BY DEF Absent
    <3> QED
      BY <1>1, <3>1, <3>2
  <2> QED
    BY <2>1 DEF KeptOut
<1>10. RowsThere(book) /\ LoneRows(book, own)
  BY <1>5, <1>6, <1>8, <1>9 DEF RowsThere, LoneRows
<1>11. \A k \in Keys : Ordered(book, own, k) /\ OthersOut(book, k)
  BY <1>5, <1>6, <1>8 DEF Ordered, OthersOut, Decidable
<1>12. DecisionSound
  BY DEF DupInit, DecisionSound
<1>13. history = [k \in Keys |-> history[k]]
  BY DEF DupInit
<1> QED
  BY <1>7, <1>10, <1>11, <1>12, <1>13 DEF DupInv, SoundBooks

LEMMA DupStep == DupInv /\ [DupNext]_dupVars => DupInv'
<1> SUFFICES ASSUME DupInv, [DupNext]_dupVars PROVE DupInv'
  OBVIOUS
<1>1. ASSUME NEW r \in DupRows, Arrive(r) \/ DeleteManual(r) PROVE DupInv'
  BY <1>1, ArriveIsSound, DeleteIsSound
<1>2. ASSUME NEW r \in DupRows, NEW out \in BOOLEAN, EditExcluded(r, out) PROVE DupInv'
  BY <1>2, EditIsSound
<1>3. ASSUME Backfill PROVE DupInv'
  BY <1>3, BackfillIsSound
<1>4. ASSUME NEW q \in Questions, ResolveGroup(q) \/ BeginResolve(q) PROVE DupInv'
  BY <1>4, ResolveIsSound, BeginIsSound
<1>5. ASSUME FinishResolve PROVE DupInv'
  BY <1>5, FinishIsSound
<1>6. ASSUME UNCHANGED dupVars PROVE DupInv'
  BY <1>6 DEF dupVars, DupInv, DecisionSound
<1> QED
  BY <1>1, <1>2, <1>3, <1>4, <1>5, <1>6 DEF DupNext

(* In such a group the row it points at is the one that counts.             *)
LEMMA OneOfTheGroupCounts ==
  ASSUME DupInv, NEW k \in Keys, InForce(k), Alone(k), history[k] \subseteq {"backfill"}, Spendable(k)
  PROVE  /\ book.groups[k].canonical \in Undecided(k)
         /\ Counting(book, book.groups[k].canonical)
         /\ history[k] = {} => \A r \in Undecided(k) :
               Counting(book, r) => r = book.groups[k].canonical
<1>1. SoundBooks(book, own, history)
  BY DEF DupInv
<1>2. \A r \in DupRows, j \in Keys : r \in Members(book, j) <=> InGroup(book, j, r)
  BY DEF Members, InGroup
<1>3. Members(book, k) \subseteq DupRows
  BY DEF Members
<1>4. AloneIn(book, k)
  BY <1>2, <1>3 DEF Alone, AloneIn
<1>5. Ordered(book, own, k) /\ (history[k] = {} => OthersOut(book, k)) /\ RowsThere(book)
  BY <1>1, <1>4 DEF SoundBooks
<1>6. Decidable(book, k)
  BY DEF InForce, Decidable
<1>7. PICK c : c = book.groups[k].canonical
  OBVIOUS
<1>8. /\ c \in DupRows /\ InGroup(book, k, c) /\ book.members[k][c].role # "distinct"
      /\ ~KeptOut(book, own, c)
  BY <1>5, <1>6, <1>7 DEF Ordered
<1>9. c \in Undecided(k)
  BY <1>2, <1>8 DEF Undecided
<1>10. c \notin own
  BY <1>9 DEF Spendable
<1>11. Counting(book, c)
  BY <1>5, <1>8, <1>10 DEF KeptOut, Counting, RowsThere
<1>12. ASSUME history[k] = {}, NEW r \in Undecided(k), Counting(book, r) PROVE r = c
  BY <1>2, <1>3, <1>5, <1>6, <1>7, <1>12 DEF OthersOut, Undecided, Counting
<1> QED
  BY <1>7, <1>9, <1>11, <1>12

(* However rows arrive, groups reopen, people edit, delete and decide, and  *)
(* whatever a decision had read, an event told by several sources counts    *)
(* once, and one the backfill found at least once (duplicates.py, INV-014). *)
THEOREM EventsCountOnce == DupSpec => []EveryEventCounts
<1>1. DupInv => OneSideCounts
  <2> SUFFICES ASSUME DupInv, NEW k \in Keys, InForce(k), Alone(k), history[k] = {}, Spendable(k)
               PROVE  Cardinality({r \in Undecided(k) : Counting(book, r)}) = 1
    BY DEF OneSideCounts
  <2>1. PICK c : c = book.groups[k].canonical
    OBVIOUS
  <2>2. c \in Undecided(k) /\ Counting(book, c) /\ \A r \in Undecided(k) : Counting(book, r) => r = c
    BY <2>1, OneOfTheGroupCounts
  <2>3. {r \in Undecided(k) : Counting(book, r)} = {c}
    BY <2>2
  <2> QED
    BY <2>3, FS_Singleton
<1>2. DupInv => NothingVanishes
  BY OneOfTheGroupCounts DEF NothingVanishes
<1>3. DupInv => EveryEventCounts
  BY <1>1, <1>2 DEF EveryEventCounts
<1> QED
  BY <1>3, DupStart, DupStep, PTL DEF DupSpec

(* Books of the right shape are of their type when what their groups say is *)
(* so.                                                                      *)
Outcomes == {"none", "duplicate", "distinct"}
GroupTyped(g) == /\ g.status \in {"none", "open", "resolved"} /\ g.resolution \in Outcomes
                 /\ g.past \in Seq(Outcomes)
GroupsTyped(d) == /\ d.groups = [k \in Keys |-> d.groups[k]]
                  /\ \A k \in Keys : GroupTyped(d.groups[k])
DupTyped ==
    /\ GroupsTyped(book)
    /\ decision # Idle => decision.op \in {"duplicate", "distinct"} /\ GroupsTyped(decision.read)
    /\ history \in [Keys -> SUBSET {"overlap", "edited", "deleted", "backfill"}]
    /\ own \subseteq DupRows
    /\ moves \in 0 .. MaxMoves

LEMMA ShapedAndTyped ==
  ASSUME NEW d, Shape(d), GroupsTyped(d)
  PROVE  d \in Books
<1> DEFINE Rows == [present : BOOLEAN, excluded : BOOLEAN, group : Keys \cup {NoRow}]
           Groups == [status : {"none", "open", "resolved"}, resolution : Outcomes,
                      canonical : DupRows \cup {NoRow}, past : Seq(Outcomes)]
           Mems == [role : Roles, byPolicy : BOOLEAN]
<1>1. ASSUME NEW k \in Keys PROVE d.groups[k] \in Groups
  <2>1. PICK g : g = d.groups[k]
    OBVIOUS
  <2>2. /\ DOMAIN g = {"status", "resolution", "canonical", "past"}
        /\ g = [c \in DOMAIN g |-> g[c]] /\ g.canonical \in DupRows \cup {NoRow}
    BY <2>1 DEF Shape
  <2>3. g = [status |-> g.status, resolution |-> g.resolution, canonical |-> g.canonical,
             past |-> g.past]
    BY <2>2
  <2> QED
    BY <2>1, <2>2, <2>3 DEF GroupsTyped, GroupTyped
<1>2. d = [rows |-> d.rows, groups |-> d.groups, members |-> d.members]
      /\ d.rows \in [DupRows -> Rows] /\ d.members \in [Keys -> [DupRows -> Mems]]
  BY DEF Shape
<1>3. d.groups \in [Keys -> Groups]
  <2> HIDE DEF Groups
  <2> QED
    BY <1>1 DEF GroupsTyped
<1>4. Books = [rows : [DupRows -> Rows], groups : [Keys -> Groups],
               members : [Keys -> [DupRows -> Mems]]]
  BY DEF Books, Outcomes
<1> HIDE DEF Rows, Groups, Mems
<1> QED
  BY <1>2, <1>3, <1>4

LEMMA GroupedTyped ==
  ASSUME NEW d, GroupsTyped(d), NEW r, NEW s, NEW k, NEW apply
  PROVE  GroupsTyped(Grouped(d, r, s, k, apply))
<1>1. PICK n, c : n = Grouped(d, r, s, k, apply) /\ c = Winner(r, Rival(d, r, s, k))
  OBVIOUS
<1>2. n.groups = [d.groups EXCEPT ![k] = Reopened(@, c)]
  BY <1>1 DEF Grouped
<1>3. d.groups = [j \in Keys |-> d.groups[j]]
  BY DEF GroupsTyped
<1>4. n.groups = [j \in Keys |-> n.groups[j]]
  BY <1>2, <1>3
<1>5. ASSUME NEW j \in Keys PROVE GroupTyped(n.groups[j])
  <2>1. PICK g, h : g = d.groups[j] /\ h = Reopened(g, c)
    OBVIOUS
  <2>2. n.groups[j] \in {g, h} /\ GroupTyped(g)
    BY <1>2, <1>3, <2>1 DEF GroupsTyped
  <2>3. /\ h.status = "open" /\ h.resolution = "none"
        /\ h.past = IF g.status = "resolved" THEN Append(g.past, g.resolution) ELSE g.past
    BY <2>1 DEF Reopened
  <2>4. h.past \in Seq(Outcomes)
    BY <2>2, <2>3, AppendProperties DEF GroupTyped
  <2>5. GroupTyped(h)
    BY <2>3, <2>4 DEF GroupTyped, Outcomes
  <2> QED
    BY <2>2, <2>5
<1> QED
  BY <1>1, <1>4, <1>5 DEF GroupsTyped

LEMMA PairedTyped ==
  ASSUME NEW d, GroupsTyped(d), NEW r
  PROVE  GroupsTyped(Registered(d, r)) /\ GroupsTyped(Discovered(d, r))
<1>1. PICK s, k : s = BestCandidate(d, r) /\ k = GroupFor(d, r, s)
  OBVIOUS
<1>2. PICK yes, no : yes = TRUE /\ no = FALSE
  OBVIOUS
<1>3. GroupsTyped(Grouped(d, r, s, k, yes)) /\ GroupsTyped(Grouped(d, r, s, k, no))
  BY GroupedTyped
<1>4. /\ Registered(d, r) \in {d, Grouped(d, r, s, k, yes)}
      /\ Discovered(d, r) \in {d, Grouped(d, r, s, k, no)}
  BY <1>1, <1>2 DEF Registered, Discovered
<1> QED
  BY <1>3, <1>4

LEMMA BackfilledTyped ==
  ASSUME NEW d, GroupsTyped(d), DupRows # {}
  PROVE  GroupsTyped(Backfilled(d))
<1>1. PICK last \in Nat : \E f :
            /\ f[0] = d /\ Backfilled(d) = f[last]
            /\ \A n \in 1 .. last : f[n] = IF n \in Unexamined(d) THEN Discovered(f[n - 1], n)
                                           ELSE f[n - 1]
  BY WalkOf
<1>2. PICK f : /\ f[0] = d /\ Backfilled(d) = f[last]
               /\ \A n \in 1 .. last : f[n] = IF n \in Unexamined(d) THEN Discovered(f[n - 1], n)
                                              ELSE f[n - 1]
  BY <1>1
<1> DEFINE Fails == {n \in 0 .. last : ~GroupsTyped(f[n])}
<1>3. Fails = {}
  <2>1. SUFFICES ASSUME Fails # {} PROVE FALSE
    OBVIOUS
  <2>2. PICK m \in Fails : \A n \in Fails : m <= n
    <3>1. Fails \in SUBSET Nat
      OBVIOUS
    <3> HIDE DEF Fails
    <3> QED
      BY <2>1, <3>1, LeastNumber
  <2>3. m # 0
    BY <1>2, <2>2
  <2>4. m \in 1 .. last /\ m - 1 \in 0 .. last /\ m - 1 \notin Fails
    BY <2>2, <2>3
  <2>5. PICK b : b = f[m - 1]
    OBVIOUS
  <2>6. GroupsTyped(b) /\ f[m] \in {b, Discovered(b, m)}
    BY <1>2, <2>4, <2>5
  <2>7. GroupsTyped(f[m])
    BY <2>6, PairedTyped
  <2> QED
    BY <2>2, <2>7
<1>4. last \in 0 .. last
  OBVIOUS
<1> QED
  BY <1>2, <1>3, <1>4

LEMMA SavedTyped ==
  ASSUME NEW d, Shape(d), GroupsTyped(d), NEW read, Shape(read), GroupsTyped(read),
         NEW q \in Questions, NEW n, n = Saved(d, read, Decided(read, q))
  PROVE  GroupsTyped(n)
<1>1. PICK new : new = Decided(read, q)
  OBVIOUS
<1>2. DecidedAs(read, q, new) /\ n = Saved(d, read, new)
  BY <1>1, DecidedRows
<1>3. n.groups = [k \in Keys |-> Flushed(d.groups[k], read.groups[k], new.groups[k])]
  BY <1>2 DEF Saved
<1>4. ASSUME NEW k \in Keys PROVE GroupTyped(new.groups[k])
  <2>1. CASE k = q.key
    <3>1. /\ new.groups[k].status = "resolved" /\ new.groups[k].resolution = q.op
          /\ new.groups[k].past = read.groups[k].past
      BY <1>2, <2>1 DEF DecidedAs
    <3>2. q.op \in Outcomes
      BY QuestionTyped DEF Outcomes
    <3> QED
      BY <3>1, <3>2 DEF GroupsTyped, GroupTyped
  <2>2. CASE k # q.key
    BY <1>2, <2>2 DEF DecidedAs, GroupsTyped
  <2> QED
    BY <2>1, <2>2
<1>5. ASSUME NEW k \in Keys PROVE GroupTyped(n.groups[k])
  <2>1. PICK g, h : g = d.groups[k] /\ h = new.groups[k]
    OBVIOUS
  <2>2. DOMAIN g = {"status", "resolution", "canonical", "past"} /\ GroupTyped(g) /\ GroupTyped(h)
    BY <1>4, <2>1 DEF Shape, GroupsTyped
  <2>3. n.groups[k] = Flushed(g, read.groups[k], h)
    BY <1>3, <2>1
  <2>4. /\ n.groups[k].status \in {g.status, h.status}
        /\ n.groups[k].resolution \in {g.resolution, h.resolution}
        /\ n.groups[k].past \in {g.past, h.past}
    BY <2>2, <2>3 DEF Flushed
  <2> QED
    BY <2>2, <2>4 DEF GroupTyped
<1> QED
  BY <1>3, <1>5 DEF GroupsTyped

LEMMA SettleTyped ==
  ASSUME DupInv, DupTyped, NEW q \in Questions, NEW read, Shape(read), GroupsTyped(read),
         NEW overlap \in BOOLEAN, Settle(q, read, overlap)
  PROVE  /\ GroupsTyped(book') /\ own' = own
         /\ history' \in [Keys -> SUBSET {"overlap", "edited", "deleted", "backfill"}]
<1>1. /\ book' = Saved(book, read, Decided(read, q)) /\ own' = own
      /\ history' = [history EXCEPT ![q.key] = IF overlap THEN @ \cup {"overlap"}
                                               ELSE @ \ {"backfill"}]
  BY DEF Settle
<1>2. Shape(book) /\ GroupsTyped(book)
  BY DEF DupInv, SoundBooks, DupTyped
<1>3. PICK n : n = book'
  OBVIOUS
<1>4. GroupsTyped(n)
  BY <1>1, <1>2, <1>3, SavedTyped
<1>5. history' \in [Keys -> SUBSET {"overlap", "edited", "deleted", "backfill"}]
  BY <1>1, QuestionTyped DEF DupTyped
<1> QED
  BY <1>1, <1>3, <1>4, <1>5

LEMMA SinceTyped ==
  ASSUME DupTyped, NEW d, NEW n, NEW what \in {"overlap", "edited", "deleted", "backfill"}
  PROVE  Since(d, n, what) \in [Keys -> SUBSET {"overlap", "edited", "deleted", "backfill"}]
  BY DEF Since, DupTyped

LEMMA DupTypedStart == DupInit => DupTyped
<1> SUFFICES ASSUME DupInit PROVE DupTyped
  OBVIOUS
<1>1. book.groups = [k \in Keys |-> NoGroup] /\ decision = Idle
  BY DEF DupInit
<1>2. GroupTyped(NoGroup)
  BY DEF NoGroup, GroupTyped, Outcomes
<1>3. GroupsTyped(book)
  BY <1>1, <1>2 DEF GroupsTyped
<1> QED
  BY <1>1, <1>3, RowKinds, MovesBound DEF DupInit, DupTyped

LEMMA DupTypedStep == DupInv /\ DupTyped /\ [DupNext]_dupVars => DupTyped'
<1> SUFFICES ASSUME DupInv, DupTyped, [DupNext]_dupVars PROVE DupTyped'
  OBVIOUS
<1> DEFINE Marks == {"overlap", "edited", "deleted", "backfill"}
<1>1. /\ Shape(book) /\ GroupsTyped(book) /\ history \in [Keys -> SUBSET Marks]
      /\ own \subseteq DupRows
  BY DEF DupInv, SoundBooks, DupTyped
<1>2. book = [rows |-> book.rows, groups |-> book.groups, members |-> book.members]
  BY <1>1 DEF Shape
<1>3. CASE UNCHANGED dupVars
  BY <1>3 DEF dupVars, DupTyped
<1>4. ASSUME Move, decision' = decision, GroupsTyped(book'), history' \in [Keys -> SUBSET Marks],
             own' \subseteq DupRows
      PROVE  DupTyped'
  BY <1>4, MovesBound DEF Move, DupTyped
<1>5. ASSUME Move, NEW r \in DupRows, Arrive(r) PROVE DupTyped'
  <2>1. PICK d, n : d = [book EXCEPT !.rows[r] = Arrived(r)] /\ n = book'
    OBVIOUS
  <2>2. /\ n = Registered(d, r) /\ decision' = decision /\ history' = history
        /\ own' \subseteq DupRows
    BY <1>1, <1>5, <2>1 DEF Arrive
  <2>3. d.groups = book.groups
    BY <1>2, <2>1
  <2>4. GroupsTyped(d)
    BY <1>1, <2>3 DEF GroupsTyped
  <2>5. GroupsTyped(book')
    BY <2>1, <2>2, <2>4, PairedTyped
  <2> QED
    BY <1>1, <1>4, <1>5, <2>2, <2>5
<1>6. ASSUME Move, NEW r \in DupRows, DeleteManual(r) PROVE DupTyped'
  <2>1. /\ book'.groups = [k \in Keys |-> IF book.groups[k].canonical = r
                              THEN [book.groups[k] EXCEPT !.canonical = NoRow]
                              ELSE book.groups[k]]
        /\ history' = Since(book, book', "deleted") /\ decision' = decision /\ own' = own
    BY <1>6 DEF DeleteManual
  <2>2. ASSUME NEW k \in Keys PROVE GroupTyped(book'.groups[k])
    <3>1. PICK g : g = book.groups[k]
      OBVIOUS
    <3>2. GroupTyped(g) /\ DOMAIN g = {"status", "resolution", "canonical", "past"}
      BY <1>1, <3>1 DEF GroupsTyped, Shape
    <3>3. book'.groups[k] \in {g, [g EXCEPT !.canonical = NoRow]}
      BY <2>1, <3>1
    <3> QED
      BY <3>2, <3>3 DEF GroupTyped
  <2>3. GroupsTyped(book')
    BY <2>1, <2>2 DEF GroupsTyped
  <2>4. PICK what \in Marks : what = "deleted"
    OBVIOUS
  <2>5. history' \in [Keys -> SUBSET Marks]
    BY <2>1, <2>4, SinceTyped
  <2> QED
    BY <1>1, <1>4, <1>6, <2>1, <2>3, <2>5
<1>7. ASSUME Move, NEW r \in DupRows, NEW out \in BOOLEAN, EditExcluded(r, out) PROVE DupTyped'
  <2>1. /\ book' = [book EXCEPT !.rows[r].excluded = out] /\ decision' = decision
        /\ own' = IF out THEN own \cup {r} ELSE own \ {r}
        /\ history' = [k \in Keys |-> IF r \in Members(book, k)
                                      THEN history[k] \cup {"edited"} ELSE history[k]]
    BY <1>7 DEF EditExcluded
  <2>2. book'.groups = book.groups
    BY <1>2, <2>1
  <2>3. GroupsTyped(book')
    BY <1>1, <2>2 DEF GroupsTyped
  <2>4. own' \subseteq DupRows /\ history' \in [Keys -> SUBSET Marks]
    BY <1>1, <2>1
  <2> QED
    BY <1>4, <1>7, <2>1, <2>3, <2>4
<1>8. ASSUME Move, Backfill PROVE DupTyped'
  <2>1. /\ book' = Backfilled(book) /\ history' = Since(book, book', "backfill")
        /\ decision' = decision /\ own' = own /\ DupRows # {}
    BY <1>8 DEF Backfill, Unexamined, Present
  <2>2. GroupsTyped(book')
    BY <1>1, <2>1, BackfilledTyped
  <2>3. PICK what \in Marks : what = "backfill"
    OBVIOUS
  <2>4. history' \in [Keys -> SUBSET Marks]
    BY <2>1, <2>3, SinceTyped
  <2> QED
    BY <1>1, <1>4, <1>8, <2>1, <2>2, <2>4
<1>9. ASSUME Move, NEW q \in Questions, ResolveGroup(q) PROVE DupTyped'
  <2>1. PICK overlap \in BOOLEAN : overlap = FALSE
    OBVIOUS
  <2>2. Settle(q, book, overlap) /\ decision' = decision
    BY <1>9, <2>1 DEF ResolveGroup
  <2>3. GroupsTyped(book') /\ own' = own /\ history' \in [Keys -> SUBSET Marks]
    BY <1>1, <2>2, SettleTyped
  <2> QED
    BY <1>1, <1>4, <1>9, <2>2, <2>3
<1>10. ASSUME Move, NEW q \in Questions, BeginResolve(q) PROVE DupTyped'
  <2>1. /\ UNCHANGED <<book, history, own>>
        /\ decision' = [op |-> q.op, q |-> q, read |-> book]
    BY <1>10 DEF BeginResolve
  <2>2. decision'.op = q.op /\ decision'.read = book
    BY <2>1
  <2>3. q.op \in {"duplicate", "distinct"}
    BY QuestionTyped
  <2> QED
    BY <1>1, <1>10, <2>1, <2>2, <2>3, MovesBound DEF Move, DupTyped
<1>11. ASSUME Move, FinishResolve PROVE DupTyped'
  <2>1. decision # Idle /\ decision' = Idle
    BY <1>11 DEF FinishResolve
  <2>2. CASE UNCHANGED <<book, history, own>>
    BY <1>11, <2>1, <2>2, MovesBound DEF Move, DupTyped
  <2>3. CASE Settle(decision.q, decision.read, book # decision.read)
    <3>0. PICK overlap \in BOOLEAN : overlap = (book # decision.read)
      OBVIOUS
    <3>1. PICK q, read : q = decision.q /\ read = decision.read
      OBVIOUS
    <3>2. Shape(read) /\ GroupsTyped(read) /\ q \in Questions
      BY <2>1, <3>1 DEF DupInv, DecisionSound, DupTyped
    <3>3. Settle(q, read, overlap)
      BY <2>3, <3>0, <3>1
    <3>4. GroupsTyped(book') /\ own' = own /\ history' \in [Keys -> SUBSET Marks]
      BY <3>2, <3>3, SettleTyped
    <3> QED
      BY <1>1, <1>11, <2>1, <3>4, MovesBound DEF Move, DupTyped
  <2> QED
    BY <1>11, <2>2, <2>3 DEF FinishResolve
<1> QED
  BY <1>3, <1>5, <1>6, <1>7, <1>8, <1>9, <1>10, <1>11 DEF DupNext

(* Rows, groups and members, and what a decision has read of them, are of   *)
(* their types, whatever arrives and whoever decides.                       *)
THEOREM DuplicateTypes == DupSpec => []DuplicatesTypeOK
<1>1. DupInv /\ DupTyped => DuplicatesTypeOK
  <2> SUFFICES ASSUME DupInv, DupTyped PROVE DuplicatesTypeOK
    OBVIOUS
  <2>1. book \in Books
    BY ShapedAndTyped DEF DupInv, SoundBooks, DupTyped
  <2> QED
    BY <2>1 DEF DupTyped, DuplicatesTypeOK
<1> QED
  BY <1>1, DupStart, DupStep, DupTypedStart, DupTypedStep, PTL DEF DupSpec

-----------------------------------------------------------------------------
(* The parts side by side, as the run steps through them: each starts and   *)
(* steps as it does alone, so that what is shown of it alone holds.         *)
LEMMA PartsStart == MCInit => DupInit /\ FlInit /\ CrInit /\ ClInit /\ CvInit
  BY DEF MCInit

LEMMA PartsStep ==
  [MCNext]_mcVars => /\ [DupNext]_dupVars /\ [FlNext]_flVars /\ [CrNext]_crVars
                     /\ [ClNext]_clVars /\ [CvNext]_cvVars
<1> SUFFICES ASSUME [MCNext]_mcVars
             PROVE  /\ [DupNext]_dupVars /\ [FlNext]_flVars /\ [CrNext]_crVars
                    /\ [ClNext]_clVars /\ [CvNext]_cvVars
  OBVIOUS
<1> QED
  BY DEF MCNext, mcVars

LEMMA PartsAlone == MCSpec => DupSpec /\ FlSpec /\ CrSpec /\ ClSpec /\ CvSpec
  BY PartsStart, PartsStep, PTL DEF MCSpec, DupSpec, FlSpec, CrSpec, ClSpec, CvSpec

(* Whatever part steps: groups, findings, snapshots, rules and memories     *)
(* stay of their types and within the limits the code gives them.           *)
THEOREM BooksAreTyped == MCSpec => []BooksTypeOK
<1>1. DuplicatesTypeOK /\ FindingTypeOK /\ CrTypeOK /\ ClTypeOK /\ CvTypeOK => BooksTypeOK
  BY DEF BooksTypeOK
<1> QED
  BY <1>1, DuplicateTypes, FindingTypes, CompetenceTypes, RuleTypes, ConversationTypes,
     PartsAlone, PTL

(* And each keeps what it promises beside the others: an event counts once, *)
(* findings follow the rows, a purchase is in one month and stays in one    *)
(* that was closed as trusted, applied rules were confirmed, and the memory *)
(* is the conversation.                                                     *)
THEOREM BooksHold ==
  MCSpec => /\ [](EveryEventCounts /\ FindingsFollowTheBooks /\ MonthsHoldTheirPurchases)
            /\ [](AppliedRuleWasConfirmed /\ RowRemembersTheConversation)
            /\ TrustedMonthKeepsItsPurchases
  BY PartsAlone, EventsCountOnce, FindingsAreCurrent, PurchasesStayInOneMonth,
     AppliedRulesAreConfirmed, MemoryIsTheConversation, TrustedMonthsAreLeftAlone, PTL
=============================================================================
