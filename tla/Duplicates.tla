---------------------------- MODULE Duplicates ----------------------------
(***************************************************************************)
(* Duplicate groups (services/duplicates.py): the same fact told by two    *)
(* sources is put in a group, and while nobody has decided one of the rows *)
(* counts in the totals.  A person then says "duplicate", naming the row   *)
(* that counts, or "distinct", and a new matching row reopens the group.   *)
(*                                                                         *)
(* An arriving row is flushed, which takes the household's revision row,   *)
(* before its candidates are read: arrivals are serial.  A resolution      *)
(* reads the group and its members without a lock and writes, once it has  *)
(* the revision row, the columns that differ from what it read.            *)
(***************************************************************************)
EXTENDS Naturals, Sequences, FiniteSets

CONSTANTS DupRows,    \* rows the household may come to have: 1 .. n
          Legacy,     \* those that predate duplicate groups
          Manual,     \* those typed by hand, which can be deleted
          NotSpent,   \* those the classification keeps out of the totals
          Priority,   \* source_priority of each row
          Confidence, \* Confidence[r][s]: 0 is below PROBABLE_THRESHOLD
          Keys,       \* group keys
          KeyOf,      \* KeyOf[r][s]: the key of a new group of the two
          StrongKeys, \* groups whose evidence is strong
          MaxMoves,   \* bound: steps of the household's people
          NoRow

ASSUME RowsNat == DupRows \subseteq Nat \ {0} /\ IsFiniteSet(DupRows) /\ NoRow \notin DupRows
ASSUME RowKinds == Legacy \cup Manual \cup NotSpent \subseteq DupRows
ASSUME MovesBound == MaxMoves \in Nat
ASSUME Scores == /\ Priority \in [DupRows -> Nat]
                 /\ Confidence \in [DupRows -> [DupRows -> Nat]]
                 /\ KeyOf \in [DupRows -> [DupRows -> Keys]]

VARIABLES book,     \* transactions, groups, members
          decision, \* a resolution that has read and not yet written
          history,  \* history: per group, the overlaps, edits, deletions and
                    \* backfills that no decision has cleared since
          own,      \* history: rows a person or their class keeps out
          moves     \* bound: steps so far

dupVars == <<book, decision, history, own, moves>>

Roles == {"none", "canonical", "supporting", "candidate", "distinct"}
NoMember == [role |-> "none", byPolicy |-> FALSE]
NoGroup == [status |-> "none", resolution |-> "none", canonical |-> NoRow, past |-> <<>>]
Absent == [present |-> FALSE, excluded |-> FALSE, group |-> NoRow]
Arrived(r) == [present |-> TRUE, excluded |-> r \in NotSpent, group |-> NoRow]
Idle == [op |-> "none"]

Books == [rows : [DupRows -> [present : BOOLEAN, excluded : BOOLEAN,
                              group : Keys \cup {NoRow}]],
          groups : [Keys -> [status : {"none", "open", "resolved"},
                             resolution : {"none", "duplicate", "distinct"},
                             canonical : DupRows \cup {NoRow},
                             past : Seq({"none", "duplicate", "distinct"})]],
          members : [Keys -> [DupRows -> [role : Roles, byPolicy : BOOLEAN]]]]

DuplicatesTypeOK ==
    /\ book \in Books
    /\ decision = Idle \/ decision.op \in {"duplicate", "distinct"}
    /\ history \in [Keys -> SUBSET {"overlap", "edited", "deleted", "backfill"}]
    /\ own \subseteq DupRows
    /\ moves \in 0 .. MaxMoves

-----------------------------------------------------------------------------
Present(d) == {r \in DupRows : d.rows[r].present}
Members(d, k) == {r \in DupRows : d.members[k][r].role # "none"}
Counting(d, r) == d.rows[r].present /\ ~d.rows[r].excluded

(* Rows within three days and a cent, the most alike first.                *)
Candidates(d, r) == {s \in Present(d) \ {r} : Confidence[s][r] > 0}
BestCandidate(d, r) ==
    CHOOSE s \in Candidates(d, r) : \A t \in Candidates(d, r) :
        \/ Confidence[s][r] > Confidence[t][r]
        \/ Confidence[s][r] = Confidence[t][r] /\ s <= t

GroupFor(d, r, s) == IF d.rows[s].group # NoRow THEN d.rows[s].group ELSE KeyOf[s][r]

(* Precedence is against the group's persisted canonical row, never the    *)
(* member that happened to match.                                          *)
(* A mutant: against the member that matched.                              *)
RivalMatched(d, r, s, k) == s
Rival(d, r, s, k) ==
    LET c == d.groups[k].canonical IN IF c \notin {NoRow, r} THEN c ELSE s
Winner(r, s) == IF Priority[r] > Priority[s] THEN r ELSE s

Reopened(g, c) ==
    [status |-> "open", resolution |-> "none", canonical |-> c,
     past |-> IF g.status = "resolved" THEN Append(g.past, g.resolution) ELSE g.past]

Label(k, role) == IF k \in StrongKeys THEN role ELSE "candidate"

(* The group, and the rows when the evidence is applied to them.           *)
Grouped(d, r, s, k, apply) ==
    LET rival == Rival(d, r, s, k)
        c == Winner(r, rival)
        x == IF c = r THEN rival ELSE r IN
    [rows |-> IF apply
              THEN [d.rows EXCEPT ![c].group = k, ![x].group = k, ![x].excluded = TRUE]
              ELSE d.rows,
     groups |-> [d.groups EXCEPT ![k] = Reopened(@, c)],
     members |-> [d.members EXCEPT
        ![k][c] = [role |-> Label(k, "canonical"), byPolicy |-> FALSE],
        ![k][x] = [role |-> Label(k, "supporting"), byPolicy |-> TRUE]]]

Registered(d, r) ==
    IF Candidates(d, r) = {} THEN d
    ELSE LET s == BestCandidate(d, r) IN Grouped(d, r, s, GroupFor(d, r, s), TRUE)

(* Discovery leaves a decided group alone when the row is already in it.   *)
Discovered(d, r) ==
    IF Candidates(d, r) = {} THEN d
    ELSE LET s == BestCandidate(d, r)  k == GroupFor(d, r, s) IN
         IF d.groups[k].status = "resolved" /\ r \in Members(d, k) THEN d
         ELSE Grouped(d, r, s, k, FALSE)

(* The backfill lists the rows in no group first, and visits them in order. *)
Unexamined(d) == {r \in Present(d) : \A k \in Keys : r \notin Members(d, k)}
Backfilled(d) ==
    LET last == CHOOSE n \in DupRows : \A r \in DupRows : r <= n
        upTo[n \in 0 .. last] ==
            IF n = 0 THEN d
            ELSE IF n \in Unexamined(d) THEN Discovered(upTo[n - 1], n)
            ELSE upTo[n - 1]
    IN  upTo[last]

(* A decision on a group as read in d: "duplicate" names the row that      *)
(* counts, which must be a member.                                         *)
Valid(d, q) ==
    /\ d.groups[q.key].status # "none"
    /\ q.op = "duplicate" => q.named \in Members(d, q.key)

(* A mutant: the row chosen to count is not put back in the totals.        *)
ExcludedAfterKept(d, q, r) ==
    IF q.op = "duplicate" THEN d.rows[r].excluded \/ r # q.named
    ELSE d.rows[r].excluded /\ ~d.members[q.key][r].byPolicy
ExcludedAfter(d, q, r) ==
    IF q.op = "duplicate" /\ r # q.named THEN TRUE
    ELSE d.rows[r].excluded /\ ~d.members[q.key][r].byPolicy
MemberAfter(d, q, r) ==
    IF q.op = "distinct" THEN [role |-> "distinct", byPolicy |-> FALSE]
    ELSE IF r = q.named THEN [role |-> "canonical", byPolicy |-> FALSE]
    ELSE [role |-> "supporting", byPolicy |-> TRUE]

Decided(d, q) ==
    LET in == Members(d, q.key) IN
    [rows |-> [r \in DupRows |-> IF r \in in
                 THEN [d.rows[r] EXCEPT !.excluded = ExcludedAfter(d, q, r)]
                 ELSE d.rows[r]],
     groups |-> [d.groups EXCEPT ![q.key].status = "resolved",
                                 ![q.key].resolution = q.op,
                                 ![q.key].canonical = q.named],
     members |-> [d.members EXCEPT ![q.key] = [r \in DupRows |->
                    IF r \in in THEN MemberAfter(d, q, r) ELSE @[r]]]]

(* What is written is each column that differs from what was read.         *)
Flushed(now, read, new) == [c \in DOMAIN now |-> IF new[c] # read[c] THEN new[c] ELSE now[c]]
Saved(now, read, new) ==
    [rows |-> [r \in DupRows |-> Flushed(now.rows[r], read.rows[r], new.rows[r])],
     groups |-> [k \in Keys |-> Flushed(now.groups[k], read.groups[k], new.groups[k])],
     members |-> [k \in Keys |-> [r \in DupRows |->
        Flushed(now.members[k][r], read.members[k][r], new.members[k][r])]]]

(* An UPDATE of a row deleted in the meantime fails the request, and so    *)
(* does a group that would point at one.                                   *)
Overtaken(now, read, new) ==
    \E r \in DupRows : /\ read.rows[r].present /\ ~now.rows[r].present
                       /\ \/ new.rows[r] # read.rows[r]
                          \/ \E k \in Keys : \/ new.members[k][r] # read.members[k][r]
                                            \/ /\ new.groups[k].canonical = r
                                               /\ read.groups[k].canonical # r

-----------------------------------------------------------------------------
DupInit ==
    /\ book = [rows |-> [r \in DupRows |-> IF r \in Legacy THEN Arrived(r) ELSE Absent],
               groups |-> [k \in Keys |-> NoGroup],
               members |-> [k \in Keys |-> [r \in DupRows |-> NoMember]]]
    /\ decision = Idle
    /\ history = [k \in Keys |-> {}]
    /\ own = NotSpent
    /\ moves = 0

Since(d, new, what) ==
    [k \in Keys |-> IF d.groups[k] # new.groups[k] \/ d.members[k] # new.members[k]
                    THEN history[k] \cup {what} ELSE history[k]]
Move == moves < MaxMoves /\ moves' = moves + 1

(* An imported or typed row arrives, with an id no request has read.       *)
Arrive(r) ==
    /\ ~book.rows[r].present /\ r \notin Legacy
    /\ decision # Idle => ~decision.read.rows[r].present
    /\ own' = IF r \in NotSpent THEN own \cup {r} ELSE own \ {r}
    /\ book' = Registered([book EXCEPT !.rows[r] = Arrived(r)], r)
    /\ UNCHANGED <<decision, history>>

Backfill ==
    /\ Unexamined(book) # {}
    /\ book' = Backfilled(book)
    /\ history' = Since(book, book', "backfill")
    /\ UNCHANGED <<decision, own>>

Questions == [op : {"duplicate"}, key : Keys, named : DupRows]
                \cup [op : {"distinct"}, key : Keys, named : {NoRow}]

Settle(q, read, overlap) ==
    LET new == Decided(read, q) IN
    /\ ~Overtaken(book, read, new)
    /\ book' = Saved(book, read, new)
    /\ history' = [history EXCEPT ![q.key] = IF overlap THEN @ \cup {"overlap"}
                                             ELSE @ \ {"backfill"}]
    /\ UNCHANGED own

ResolveGroup(q) ==
    /\ Valid(book, q)
    /\ Settle(q, book, FALSE)
    /\ UNCHANGED decision

BeginResolve(q) ==
    /\ decision = Idle
    /\ Valid(book, q)
    /\ decision' = [op |-> q.op, q |-> q, read |-> book]
    /\ UNCHANGED <<book, history, own>>

FinishResolve ==
    /\ decision # Idle
    /\ decision' = Idle
    /\ \/ Settle(decision.q, decision.read, book # decision.read)
       \/ /\ Overtaken(book, decision.read, Decided(decision.read, decision.q))
          /\ UNCHANGED <<book, history, own>>

(* A person takes a row out of the totals, or puts it back.                *)
EditExcluded(r, out) ==
    /\ book.rows[r].present /\ book.rows[r].excluded # out
    /\ book' = [book EXCEPT !.rows[r].excluded = out]
    /\ own' = IF out THEN own \cup {r} ELSE own \ {r}
    /\ history' = [k \in Keys |-> IF r \in Members(book, k)
                                  THEN history[k] \cup {"edited"} ELSE history[k]]
    /\ UNCHANGED decision

(* Foreign keys: members go with their row, canonical becomes NULL.        *)
DeleteManual(r) ==
    /\ r \in Manual /\ book.rows[r].present
    /\ book' = [rows |-> [book.rows EXCEPT ![r] = Absent],
                groups |-> [k \in Keys |-> IF book.groups[k].canonical = r
                              THEN [book.groups[k] EXCEPT !.canonical = NoRow]
                              ELSE book.groups[k]],
                members |-> [k \in Keys |-> [book.members[k] EXCEPT ![r] = NoMember]]]
    /\ history' = Since(book, book', "deleted")
    /\ UNCHANGED <<decision, own>>

DupNext ==
    Move /\
    \/ \E r \in DupRows : Arrive(r) \/ DeleteManual(r)
    \/ \E r \in DupRows, out \in BOOLEAN : EditExcluded(r, out)
    \/ Backfill
    \/ \E q \in Questions : ResolveGroup(q) \/ BeginResolve(q)
    \/ FinishResolve

DupSpec == DupInit /\ [][DupNext]_dupVars

-----------------------------------------------------------------------------
(* A row belongs to one group only.  A backfilled row does not point at its *)
(* group, so a later arrival can put it in a second one.                   *)
Alone(k) == \A r \in Members(book, k), j \in Keys \ {k} : r \notin Members(book, j)
Undecided(k) == {r \in Members(book, k) : book.members[k][r].role # "distinct"}
Spendable(k) == Undecided(k) \cap own = {}
InForce(k) == \/ book.groups[k].status = "open"
              \/ book.groups[k].resolution = "duplicate"

(* INV-014: a group that is open, or decided to be a duplicate, counts one *)
(* of its rows, never none and never two, through any order of arrivals,   *)
(* reopenings and decisions.                                               *)
OneSideCounts ==
    \A k \in Keys : InForce(k) /\ Alone(k) /\ history[k] = {} /\ Spendable(k) =>
        Cardinality({r \in Undecided(k) : Counting(book, r)}) = 1

(* The same of groups the backfill found, which changes no row: a fact may *)
(* count twice until somebody decides, but it never disappears.            *)
NothingVanishes ==
    \A k \in Keys : InForce(k) /\ Alone(k) /\ history[k] \subseteq {"backfill"}
                    /\ Spendable(k) =>
        \E r \in Undecided(k) : Counting(book, r)

(* Both together: an event the household lived once is in the totals once  *)
(* (duplicates.py, INV-014).                                               *)
EveryEventCounts == OneSideCounts /\ NothingVanishes

(* duplicates.py says "exactly one side of a pending pair (never zero,     *)
(* never both) counts until a human resolves it".  After the row that      *)
(* counted is deleted, the next arrival names an excluded row canonical    *)
(* and does not put it back: the fact is in no total.                      *)
PendingPairCounts ==
    \A k \in Keys : book.groups[k].status = "open" /\ book.groups[k].canonical # NoRow
                    /\ Alone(k) /\ history[k] \subseteq {"deleted"} /\ Spendable(k) =>
        \E r \in Undecided(k) : Counting(book, r)

(* What api.py says of an edit (a leg out of the totals must never become  *)
(* a second expense), asked of decisions: a row kept out in its own right  *)
(* stays out.  The code does not keep it.                                  *)
OwnExclusionStands == \A r \in own : ~Counting(book, r)
=============================================================================
