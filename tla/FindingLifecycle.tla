------------------------- MODULE FindingLifecycle -------------------------
(***************************************************************************)
(* Integrity runs and the findings they leave                              *)
(* (services/financial_integrity.py), for the one check an ordinary run    *)
(* makes, INV-014: a possible duplicate nobody has reviewed stays out of   *)
(* the totals.                                                             *)
(*                                                                         *)
(* A run reads its rows and evaluates them before it holds the household's *)
(* revision row; it then opens, reopens or supersedes findings, which it   *)
(* locks, and commits.  A person's decision reads the finding without a    *)
(* lock, and its UPDATE waits for the revision row.                        *)
(***************************************************************************)
EXTENDS Naturals, FiniteSets

CONSTANTS Watched,    \* transactions
          Twin,       \* the one each matches field by field
          Scopes,     \* what a run covers: the household, a period, a row
          Runners,    \* bound: runs in flight at once
          Deciders,   \* bound: decisions in flight at once
          Verdicts,   \* terminal decisions: resolved, ignored, false_positive
          MaxEvents   \* bound: commits

ASSUME TwinType == Twin \in [Watched -> Watched] /\ Scopes \subseteq SUBSET Watched
ASSUME TwinsPaired == \A t \in Watched : Twin[Twin[t]] = t
ASSUME EventsBound == MaxEvents \in Nat
ASSUME VerdictNames == Verdicts \subseteq {"resolved", "ignored", "false_positive"}

VARIABLES facts,   \* the transactions
          finding, \* the finding of each: its status and occurrences
          running, \* runs that have read and not committed
          asked,   \* decisions that have read and not committed
          settled, \* history: rows whose finding a run brought up to date,
                   \* and nothing has changed since
          events   \* bound: commits so far

flVars == <<facts, finding, running, asked, settled, events>>

ActiveStatus == {"open", "acknowledged"}
FindingStatus == ActiveStatus \cup Verdicts \cup {"none", "superseded"}
NoRun == [scope |-> {}, result |-> <<>>, clean |-> TRUE]
NoAsk == [on |-> "nothing"]

FindingTypeOK ==
    /\ facts \in [Watched -> [present : BOOLEAN, flagged : BOOLEAN,
                              reviewed : BOOLEAN, excluded : BOOLEAN]]
    /\ finding \in [Watched -> [status : FindingStatus, count : 0 .. MaxEvents]]
    /\ \A r \in Runners : /\ running[r].scope \in Scopes \cup {{}}
                          /\ DOMAIN running[r].result \subseteq running[r].scope
    /\ \A d \in Deciders : asked[d] = NoAsk \/ asked[d].to \in FindingStatus
    /\ settled \subseteq Watched
    /\ events \in 0 .. MaxEvents

-----------------------------------------------------------------------------
(* INV-014 of one row.  The proof of a duplicate is a live match; without  *)
(* one the check is unknown, whatever the row's flag says.                 *)
Verdict(t) ==
    IF ~facts[Twin[t]].present THEN "unknown"
    ELSE IF facts[t].reviewed \/ facts[t].excluded THEN "pass"
    ELSE "fail"

(* The rows a run checks: those in question, and those whose finding is    *)
(* still active, or it would never be evaluated again.                     *)
(* A mutant: the rows in question only.                                    *)
CheckedFlagged(S) == {t \in S : facts[t].present /\ facts[t].flagged}
Checked(S) ==
    {t \in S : facts[t].present /\ (facts[t].flagged \/ finding[t].status \in ActiveStatus)}

(* A pass supersedes an active finding, and leaves what a person decided.  *)
Superseded(f) == IF f.status \in ActiveStatus THEN [f EXCEPT !.status = "superseded"] ELSE f

(* A failure, or an unknown, opens the finding or reopens it.              *)
Reincident(f) ==
    [status |-> IF f.status \in ActiveStatus THEN f.status ELSE "open",
     count |-> f.count + 1]

Judged(f, verdict) == IF verdict = "pass" THEN Superseded(f) ELSE Reincident(f)

Allowed(status, to) ==
    IF to = "acknowledged" THEN status = "open" ELSE status \in ActiveStatus

-----------------------------------------------------------------------------
FlInit ==
    /\ facts = [t \in Watched |-> [present |-> TRUE, flagged |-> FALSE,
                                   reviewed |-> FALSE, excluded |-> FALSE]]
    /\ finding = [t \in Watched |-> [status |-> "none", count |-> 0]]
    /\ running = [r \in Runners |-> NoRun]
    /\ asked = [d \in Deciders |-> NoAsk]
    /\ settled = {}
    /\ events = 0

Commit == events < MaxEvents /\ events' = events + 1
Outdate == running' = [r \in Runners |-> [running[r] EXCEPT !.clean = FALSE]]
Changed(t) == /\ Outdate
              /\ settled' = settled \ {t, Twin[t]}
              /\ UNCHANGED <<finding, asked>>

(* The import groups a pair: both are flagged, one is kept out.            *)
FlagPair(t) ==
    /\ facts[t].present /\ facts[Twin[t]].present /\ ~facts[t].flagged
    /\ facts' = [facts EXCEPT ![t].flagged = TRUE, ![t].excluded = TRUE,
                              ![Twin[t]].flagged = TRUE]
    /\ Commit /\ Changed(t)

(* "Consider it legitimate": not a duplicate, reviewed, counted.           *)
MarkLegitimate(t) ==
    /\ facts[t].present /\ ~facts[t].reviewed
    /\ facts' = [facts EXCEPT ![t].flagged = FALSE, ![t].reviewed = TRUE,
                              ![t].excluded = FALSE]
    /\ Commit /\ Changed(t)

(* An edit may put a row back in the totals while it is in question.       *)
Include(t) ==
    /\ facts[t].present /\ facts[t].excluded
    /\ facts' = [facts EXCEPT ![t].excluded = FALSE]
    /\ Commit /\ Changed(t)

DeleteRow(t) ==
    /\ facts[t].present
    /\ facts' = [facts EXCEPT ![t].present = FALSE]
    /\ Commit /\ Changed(t)

BeginRun(r, S) ==
    /\ running[r] = NoRun
    /\ running' = [running EXCEPT ![r] =
         [scope |-> S, result |-> [t \in Checked(S) |-> Verdict(t)], clean |-> TRUE]]
    /\ UNCHANGED <<facts, finding, asked, settled, events>>

CommitRun(r) ==
    LET run == running[r] IN
    /\ run # NoRun
    /\ Commit
    /\ finding' = [t \in Watched |-> IF t \in DOMAIN run.result
                                     THEN Judged(finding[t], run.result[t])
                                     ELSE finding[t]]
    /\ running' = [q \in Runners |-> IF q = r THEN NoRun
                                     ELSE [running[q] EXCEPT !.clean = FALSE]]
    /\ settled' = IF run.clean THEN settled \cup run.scope ELSE settled \ run.scope
    /\ UNCHANGED <<facts, asked>>

(* The savepoint is rolled back: only the failed run is recorded.          *)
FailRun(r) ==
    /\ running[r] # NoRun
    /\ Commit
    /\ running' = [running EXCEPT ![r] = NoRun]
    /\ UNCHANGED <<facts, finding, asked, settled>>

ReadFinding(d, t, to) ==
    /\ asked[d] = NoAsk
    /\ Allowed(finding[t].status, to)
    /\ asked' = [asked EXCEPT ![d] = [on |-> t, to |-> to]]
    /\ UNCHANGED <<facts, finding, running, settled, events>>

WriteFinding(d) ==
    /\ asked[d] # NoAsk
    /\ Commit /\ Outdate
    /\ finding' = [finding EXCEPT ![asked[d].on].status = asked[d].to]
    /\ asked' = [asked EXCEPT ![d] = NoAsk]
    /\ settled' = settled \ {asked[d].on}
    /\ UNCHANGED facts

FlNext ==
    \/ \E t \in Watched : FlagPair(t) \/ MarkLegitimate(t) \/ Include(t) \/ DeleteRow(t)
    \/ \E r \in Runners : (\E S \in Scopes : BeginRun(r, S)) \/ CommitRun(r) \/ FailRun(r)
    \/ \E d \in Deciders, t \in Watched, to \in Verdicts \cup {"acknowledged"} :
           ReadFinding(d, t, to)
    \/ \E d \in Deciders : WriteFinding(d)

FlSpec == FlInit /\ [][FlNext]_flVars

-----------------------------------------------------------------------------
(* The findings follow the books: once a run that read nothing outdated    *)
(* has covered a row, the row's finding is active when the check fails and *)
(* is not when it passes, until the row changes or a person decides.  A    *)
(* repaired row leaves the set in question; its finding must still close.  *)
FindingsFollowTheBooks ==
    \A t \in settled : facts[t].present =>
        /\ facts[t].flagged /\ Verdict(t) # "pass" => finding[t].status \in ActiveStatus
        /\ Verdict(t) = "pass" => finding[t].status \notin ActiveStatus

(* financial_integrity.py: "a reincidence of the same fingerprint is the   *)
(* only thing that reopens a terminal finding".  A stale acknowledgement   *)
(* reopens it too.                                                         *)
OnlyRecurrenceReopens ==
    [][\A t \in Watched : /\ finding[t].status \in Verdicts \cup {"superseded"}
                          /\ finding'[t].status \in ActiveStatus
                          => finding'[t].count > finding[t].count]_flVars
=============================================================================
