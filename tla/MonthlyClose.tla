---------------------------- MODULE MonthlyClose ----------------------------
(***************************************************************************)
(* The monthly close of one period: POST /monthly-closes/{p}/run, /trust   *)
(* and /reopen, next to everything that moves underneath them: changes of  *)
(* the household's financial rows, dashboard and forecast reads (both      *)
(* rebuild the period's snapshot and commit it), integrity runs and human  *)
(* decisions on findings.  (app/services/monthly_close.py,                 *)
(* financial_revision.py, financial_snapshots.build_snapshot, app/api.py.) *)
(*                                                                         *)
(* Two PostgreSQL locks order these requests: the row lock of the          *)
(* household's revision, taken by every flush that writes a                *)
(* FINANCIAL_REVISION_MODELS row, and the advisory lock of the period's    *)
(* snapshot.  Both are held to the end of the transaction, so a request's  *)
(* writes appear at its commit.                                            *)
(***************************************************************************)
EXTENDS Naturals

CONSTANTS Requests,   \* concurrent HTTP requests, each of its own admin user
          NoRequest,
          MaxWrites   \* bound: transactions that move the revision

ASSUME CloseBounds == NoRequest \notin Requests /\ MaxWrites \in Nat

Sources == {"close", "forecast"}   \* which check raised a finding

VARIABLES
    facts,     \* committed financial rows: version of what the period's
               \* snapshot reads, version of the rest, do the checks pass
    revision,  \* HouseholdFinancialRevision.revision
    passed,    \* the latest completed integrity run of the period opened its gates
    flagged,   \* sources of the findings that are open or acknowledged
    snap,      \* the current FinancialSnapshot: version and content
    close,     \* the MonthlyFinancialClose row, and the facts its run examined
    revLock,   \* the request holding the revision row
    snapLock,  \* the request holding the period's advisory lock
    request,   \* where each request is and what its session holds
    writes     \* revision moves so far

vars == <<facts, revision, passed, flagged, snap, close, revLock, snapLock,
          request, writes>>

NoFacts == [period |-> 0, other |-> 0, clean |-> FALSE]
NoBody == [period |-> 0, ok |-> FALSE, flagged |-> {}]
NoClose == [status |-> "none", snapshot |-> 0, revision |-> 0, examined |-> NoFacts,
            closedBy |-> NoRequest]
NoSnap == [id |-> 0, body |-> NoBody]
Idle == [op |-> "none", pc |-> "idle", seen |-> NoClose, rev |-> 0, built |-> NoSnap]

FirstFacts == [period |-> 1, other |-> 1, clean |-> TRUE]

Init ==
    /\ facts = FirstFacts
    /\ revision = 0
    /\ passed = FALSE
    /\ flagged = {}
    /\ snap = NoSnap
    /\ close = NoClose
    /\ revLock = NoRequest
    /\ snapLock = NoRequest
    /\ request = [r \in Requests |-> Idle]
    /\ writes = 0

-----------------------------------------------------------------------------
(* What the requests share *)

(* _collect: the payload whose checksum identifies a snapshot, the period's *)
(* own rows and the integrity status embedded in it.                        *)
Body == [period |-> facts.period, ok |-> passed, flagged |-> flagged]

(* build_snapshot: the current row when nothing changed, a new version else.*)
Rebuilt == IF snap.body = Body THEN snap ELSE [id |-> snap.id + 1, body |-> Body]

ReleaseRowOnly(r) ==   \* mutant: a session-level advisory lock outlives its transaction
    /\ revLock' = IF revLock = r THEN NoRequest ELSE revLock
    /\ UNCHANGED snapLock

(* The commit or the rollback of r's transaction.                           *)
ReleaseOf(r) ==
    /\ revLock' = IF revLock = r THEN NoRequest ELSE revLock
    /\ snapLock' = IF snapLock = r THEN NoRequest ELSE snapLock

KeepsLocks(r) ==   \* mutant: the request ends with its transaction open
    /\ request' = [request EXCEPT ![r] = Idle]
    /\ UNCHANGED <<revLock, snapLock>>

End(r) == ReleaseOf(r) /\ request' = [request EXCEPT ![r] = Idle]

Spend == writes < MaxWrites /\ writes' = writes + 1

-----------------------------------------------------------------------------
(* The household's data *)

ChangeFactsUnseen ==   \* mutant: a source model missing from FINANCIAL_REVISION_MODELS
    /\ Spend
    /\ facts' = [facts EXCEPT !.other = @ + 1, !.clean = FALSE]
    /\ UNCHANGED <<revision, passed, flagged, snap, close, revLock, snapLock, request>>

(* Any endpoint that flushes a FINANCIAL_REVISION_MODELS row: before_flush  *)
(* takes the revision row, the commit publishes both.  The period's own     *)
(* snapshot may or may not depend on the row.                               *)
ChangeFacts ==
    /\ Spend
    /\ revLock = NoRequest
    /\ revision' = revision + 1
    /\ \E clean \in BOOLEAN :
         \/ facts' = [facts EXCEPT !.period = @ + 1, !.clean = clean]
         \/ facts' = [facts EXCEPT !.other = @ + 1, !.clean = clean]
    /\ UNCHANGED <<passed, flagged, snap, close, revLock, snapLock, request>>

(* POST /integrity/runs for the period: the duplicate checks alone never    *)
(* open the trust gates.                                                    *)
IntegrityRun ==
    /\ Spend
    /\ revLock = NoRequest
    /\ revision' = revision + 1
    /\ passed' = FALSE
    /\ UNCHANGED <<facts, flagged, snap, close, revLock, snapLock, request>>

(* POST /integrity/findings/{id}/resolve, ignore, false-positive.           *)
DismissFinding(source) ==
    /\ Spend
    /\ source \in flagged
    /\ revLock = NoRequest
    /\ revision' = revision + 1
    /\ flagged' = flagged \ {source}
    /\ UNCHANGED <<facts, passed, snap, close, revLock, snapLock, request>>

-----------------------------------------------------------------------------
(* POST /monthly-closes/{p}/run *)

RunnableAnyway == TRUE   \* mutant: a trusted close may be run

(* The check of assert_close_runnable and upsert_monthly_close_after_run.   *)
Runnable == close.status # "trusted"

(* assert_close_runnable: the revision lock first, then the status.         *)
RunStart(r) ==
    /\ request[r] = Idle
    /\ revLock = NoRequest
    /\ Runnable
    /\ Spend
    /\ revLock' = r
    /\ request' = [request EXCEPT ![r] = [Idle EXCEPT !.op = "run", !.pc = "locked"]]
    /\ UNCHANGED <<facts, revision, passed, flagged, snap, close, snapLock>>

(* build_snapshot inside run and trust: wait for the advisory lock, collect.*)
Build(r) ==
    /\ request[r].pc = "locked"
    /\ snapLock = NoRequest
    /\ snapLock' = r
    /\ request' = [request EXCEPT ![r].pc = "built", ![r].built = Rebuilt]
    /\ UNCHANGED <<facts, revision, passed, flagged, snap, close, revLock, writes>>

(* execute_integrity_run, the forced snapshot and the upsert of the close,  *)
(* one commit.  The run's own findings move the revision.                   *)
RunCommit(r) ==
    LET found == IF facts.clean THEN flagged \ {"close"} ELSE flagged \cup {"close"}
    IN
    /\ request[r].op = "run" /\ request[r].pc = "built"
    /\ Runnable
    /\ passed' = facts.clean
    /\ flagged' = found
    /\ revision' = revision + 1
    /\ snap' = [id |-> request[r].built.id + 1,
                body |-> [period |-> facts.period, ok |-> facts.clean, flagged |-> found]]
    /\ close' = [close EXCEPT !.status = "review_required", !.snapshot = snap'.id,
                              !.revision = revision', !.examined = facts]
    /\ End(r)
    /\ UNCHANGED <<facts, writes>>

(* A check raises: everything is rolled back, then the failed run is        *)
(* recorded in a transaction of its own (record_isolated_run_failure).      *)
RunFail(r) ==
    /\ request[r].op = "run" /\ request[r].pc = "built"
    /\ ReleaseOf(r)
    /\ request' = [request EXCEPT ![r] = [Idle EXCEPT !.op = "run", !.pc = "failing"]]
    /\ UNCHANGED <<facts, revision, passed, flagged, snap, close, writes>>

RecordFailure(r) ==
    /\ request[r].pc = "failing"
    /\ revLock = NoRequest
    /\ revision' = revision + 1
    /\ request' = [request EXCEPT ![r] = Idle]
    /\ UNCHANGED <<facts, passed, flagged, snap, close, revLock, snapLock, writes>>

-----------------------------------------------------------------------------
(* POST /monthly-closes/{p}/trust and /reopen *)

(* Both endpoints read the close for the audit event before they lock; the  *)
(* session keeps the row it loaded.                                         *)
Read(r, op) ==
    /\ request[r] = Idle
    /\ request' = [request EXCEPT ![r] = [Idle EXCEPT !.op = op, !.pc = "read",
                                                      !.seen = close]]
    /\ UNCHANGED <<facts, revision, passed, flagged, snap, close, revLock, snapLock, writes>>

(* get_monthly_close after the lock returns the row of the session when it  *)
(* has one: the query does not refresh it.                                  *)
Held(r) == IF request[r].seen.status = "none" THEN close ELSE request[r].seen

TrustLock(r) ==
    /\ request[r].op = "trust" /\ request[r].pc = "read"
    /\ revLock = NoRequest
    /\ IF Held(r).status = "review_required"
       THEN /\ revLock' = r
            /\ request' = [request EXCEPT ![r].pc = "locked", ![r].seen = Held(r),
                                          ![r].rev = revision]
       ELSE /\ request' = [request EXCEPT ![r] = Idle]
            /\ UNCHANGED revLock
    /\ UNCHANGED <<facts, revision, passed, flagged, snap, close, snapLock, writes>>

GatesButRevision(r) ==   \* mutant: the revision of the run is not compared
    /\ request[r].seen.snapshot = request[r].built.id
    /\ passed /\ flagged = {}
    /\ request[r].built.body.ok /\ request[r].built.body.flagged = {}

(* The reasons trust_monthly_close collects.                                *)
GatesPass(r) ==
    /\ request[r].seen.revision = request[r].rev
    /\ request[r].seen.snapshot = request[r].built.id
    /\ passed /\ flagged = {}
    /\ request[r].built.body.ok /\ request[r].built.body.flagged = {}
    /\ revision = request[r].rev

TrustCommit(r) ==
    /\ request[r].op = "trust" /\ request[r].pc = "built"
    /\ GatesPass(r)
    /\ close' = [close EXCEPT !.status = "trusted", !.closedBy = r]
    /\ snap' = request[r].built
    /\ End(r)
    /\ UNCHANGED <<facts, revision, passed, flagged, writes>>

(* MonthlyCloseGateError: the rebuilt snapshot is rolled back.              *)
TrustRefuse(r) ==
    /\ request[r].op = "trust" /\ request[r].pc = "built"
    /\ ~GatesPass(r)
    /\ End(r)
    /\ UNCHANGED <<facts, revision, passed, flagged, snap, close, writes>>

(* The lock is held from the read of the status to the commit.              *)
ReopenCommit(r) ==
    /\ request[r].op = "reopen" /\ request[r].pc = "read"
    /\ revLock = NoRequest
    /\ close' = IF Held(r).status = "trusted"
                THEN [close EXCEPT !.status = "review_required"] ELSE close
    /\ request' = [request EXCEPT ![r] = Idle]
    /\ UNCHANGED <<facts, revision, passed, flagged, snap, revLock, snapLock, writes>>

-----------------------------------------------------------------------------
(* GET /dashboard, /reports and GET /forecast *)

(* build_snapshot without the revision lock: rows may change before the     *)
(* commit.  A forecast also spends a revision, for its integrity run.       *)
ViewBuild(r, op) ==
    /\ request[r] = Idle
    /\ snapLock = NoRequest
    /\ IF op = "forecast" THEN Spend ELSE UNCHANGED writes
    /\ snapLock' = r
    /\ request' = [request EXCEPT ![r] = [Idle EXCEPT !.op = op, !.pc = "viewed",
                                                      !.built = Rebuilt]]
    /\ UNCHANGED <<facts, revision, passed, flagged, snap, close, revLock>>

DashboardCommit(r) ==
    /\ request[r].op = "dashboard"
    /\ snap' = request[r].built
    /\ End(r)
    /\ UNCHANGED <<facts, revision, passed, flagged, close, writes>>

(* forecast: execute_integrity_run flushes an IntegrityRun, so it needs the *)
(* revision row while it holds the advisory lock.                           *)
ForecastCommit(r) ==
    /\ request[r].op = "forecast"
    /\ revLock = NoRequest
    /\ revision' = revision + 1
    /\ flagged' = IF facts.clean THEN flagged \ {"forecast"} ELSE flagged \cup {"forecast"}
    /\ snap' = request[r].built
    /\ End(r)
    /\ UNCHANGED <<facts, passed, close, writes>>

(* Run and trust take the revision row and then the advisory lock, a        *)
(* forecast the other way round: the server ends one of the two.            *)
Crossed(r, q) ==
    /\ request[r].op = "forecast" /\ snapLock = r
    /\ request[q].pc = "locked" /\ revLock = q

DeadlockVictim(r) ==
    /\ \E q \in Requests : Crossed(r, q) \/ Crossed(q, r)
    /\ End(r)
    /\ UNCHANGED <<facts, revision, passed, flagged, snap, close, writes>>

-----------------------------------------------------------------------------
Begin(r) ==
    \/ RunStart(r)
    \/ \E op \in {"trust", "reopen"} : Read(r, op)
    \/ \E op \in {"dashboard", "forecast"} : ViewBuild(r, op)

Step(r) ==
    \/ Build(r)
    \/ RunCommit(r) \/ RunFail(r) \/ RecordFailure(r)
    \/ TrustLock(r) \/ TrustCommit(r) \/ TrustRefuse(r) \/ ReopenCommit(r)
    \/ DashboardCommit(r) \/ ForecastCommit(r)
    \/ DeadlockVictim(r)

Next ==
    \/ ChangeFacts \/ IntegrityRun
    \/ \E source \in Sources : DismissFinding(source)
    \/ \E r \in Requests : Begin(r) \/ Step(r)

Spec == Init /\ [][Next]_vars

(* PostgreSQL grants a lock to its waiters in turn, so a step that can be   *)
(* taken again and again is taken.                                          *)
FairSpec == Spec /\ \A r \in Requests : SF_vars(Step(r))

-----------------------------------------------------------------------------
FactsRow == [period : Nat, other : Nat, clean : BOOLEAN]
SnapRow == [id : Nat, body : [period : Nat, ok : BOOLEAN, flagged : SUBSET Sources]]
CloseRow == [status : {"none", "review_required", "trusted"}, snapshot : Nat,
             revision : Nat, examined : FactsRow, closedBy : Requests \cup {NoRequest}]
RequestRow == [op : {"none", "run", "trust", "reopen", "dashboard", "forecast"},
               pc : {"idle", "locked", "built", "failing", "read", "viewed"},
               seen : CloseRow, rev : Nat, built : SnapRow]

(* Type invariant, and what the locks are for: the holder of a lock is the  *)
(* one request whose transaction is past taking it.                         *)
TypeOK ==
    /\ facts \in FactsRow
    /\ revision \in Nat
    /\ passed \in BOOLEAN
    /\ flagged \in SUBSET Sources
    /\ snap \in SnapRow
    /\ close \in CloseRow
    /\ revLock \in Requests \cup {NoRequest}
    /\ snapLock \in Requests \cup {NoRequest}
    /\ request \in [Requests -> RequestRow]
    /\ writes \in 0 .. MaxWrites
    /\ \A r \in Requests :
         /\ revLock = r <=> request[r].pc \in {"locked", "built"}
         /\ snapLock = r <=> request[r].pc \in {"built", "viewed"}

(* The revision stands for the facts: while the household's revision is the *)
(* one the close recorded, the rows are those its run examined and the      *)
(* verdict kept for the period is the verdict on them, although the run's   *)
(* own findings, dismissals and forecasts move the revision too             *)
(* (MonthlyFinancialClose.financial_revision, FINANCIAL_REVISION_MODELS).   *)
RevisionStandsForFacts ==
    close.status # "none" /\ close.revision = revision =>
        close.examined = facts /\ passed = facts.clean

(* A period becomes trusted only on evidence that still holds: the checks   *)
(* its run passed would pass on the rows as they are, and the close points  *)
(* to the current snapshot, which shows those rows, although the run, the   *)
(* changes and the reads are transactions of their own                      *)
(* (trust_monthly_close).                                                   *)
TrustedOnEvidence ==
    [][close.status # "trusted" /\ close'.status = "trusted" =>
         /\ facts.clean
         /\ close'.snapshot = snap'.id /\ snap'.body.period = facts.period]_vars

(* PeriodReview: trusted only on the facts the run examined, and left only  *)
(* by a reopen; a run never demotes it (assert_close_runnable, the          *)
(* revision kept on the close).                                             *)
Review == INSTANCE PeriodReview WITH Nothing <- NoFacts, examined <- close.examined,
                                     status <- close.status
ImplementsReview == Review!ReviewSpec

(* Every request that has begun ends, although requests wait for each       *)
(* other's locks in both orders.                                            *)
RequestsEnd == \A r \in Requests : request[r].pc # "idle" ~> request[r].pc = "idle"

(* The decision on a trusted period stands until it is reopened: nobody     *)
(* becomes its closer a second time ("Fechamento já está trusted.").        *)
DecisionStands ==
    [][close.status = "trusted" /\ close'.status = "trusted" =>
         close'.closedBy = close.closedBy]_vars
=============================================================================
