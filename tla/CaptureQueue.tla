---------------------------- MODULE CaptureQueue ----------------------------
(***************************************************************************)
(* The asynchronous capture queue: POST /captures/preview stores an upload *)
(* with one durable processing job, background tasks of the API process    *)
(* and the crash-recovery reconciler (its own process) claim the job and   *)
(* write a proposal on the draft, and the household confirms, cancels or   *)
(* retries.  (app/services/capture_worker.py, app/api.py "captures",       *)
(* app/cli/capture_worker.py.)                                             *)
(*                                                                         *)
(* One action is one database transaction, or the read a handler acts on   *)
(* later: the application runs READ COMMITTED with no row lock on these    *)
(* tables, and the ORM writes a changed attribute by primary key whatever  *)
(* the row holds by then.  A draft's proposal is the number of the attempt *)
(* that produced it; the document's display status is left out.            *)
(***************************************************************************)
EXTENDS Naturals

CONSTANTS Captures,     \* uploads
          NoCapture,
          LoopWorkers,  \* background tasks of the API process (one event loop)
          Reconcilers,  \* processes running python -m app.cli.capture_worker
          Handlers,     \* concurrent cancel/confirm requests (thread pool)
          MaxAttempts,  \* capture_job_max_attempts
          MaxRetries,   \* bound: manual retries of one capture
          MaxCrashes    \* bound: crashes of a worker

ASSUME CaptureBounds ==
    MaxAttempts \in Nat \ {0} /\ MaxRetries \in Nat /\ MaxCrashes \in Nat

ASSUME CaptureActors == NoCapture \notin Captures /\ LoopWorkers \cap Reconcilers = {}

Workers == LoopWorkers \cup Reconcilers

DraftStatus == {"absent", "queued", "processing", "preview", "needs_input",
                "failed", "cancelled", "confirmed"}
JobStatus == {"none", "queued", "processing", "completed", "failed"}
Terminal == {"completed", "failed"}     \* TERMINAL_STATUSES
InFlight == {"queued", "processing"}
Proposed == {"preview", "needs_input"}

VARIABLES
    draft,     \* draft[c]: CaptureDraft.status, "absent" before the upload
    proposal,  \* proposal[c]: the attempt whose analysis proposal_json holds
    job,       \* job[c]: CaptureProcessingJob status, attempts; stale is
               \* started_at < now - stale_after_seconds
    facts,     \* facts[c]: confirmations that created financial rows
    tasks,     \* tasks[c]: background tasks waiting in the API process
    worker,    \* worker[w]: where a worker is and what its session has read
    handler,   \* handler[h]: a cancel or confirm request and what it has read
    retry,     \* the retry request the event loop is serving
    retries,   \* retries[c]: retries so far
    crashes,   \* crashes so far
    closed     \* history: closed[c], attempts that left "processing" for good

vars == <<draft, proposal, job, facts, tasks, worker, handler, retry, retries,
          crashes, closed>>

NoSeenJob == [status |-> "none", attempts |-> 0]
IdleWorker == [pc |-> "idle", cap |-> NoCapture, todo |-> {}, seen |-> NoSeenJob,
               draft |-> "absent", lease |-> 0]
IdleHandler == [op |-> "none", cap |-> NoCapture, draft |-> "absent", jobOpen |-> FALSE]
NoRetry == [cap |-> NoCapture, draft |-> "absent"]

Init ==
    /\ draft = [c \in Captures |-> "absent"]
    /\ proposal = [c \in Captures |-> 0]
    /\ job = [c \in Captures |-> [status |-> "none", attempts |-> 0, stale |-> FALSE]]
    /\ facts = [c \in Captures |-> 0]
    /\ tasks = [c \in Captures |-> 0]
    /\ worker = [w \in Workers |-> IdleWorker]
    /\ handler = [h \in Handlers |-> IdleHandler]
    /\ retry = NoRetry
    /\ retries = [c \in Captures |-> 0]
    /\ crashes = 0
    /\ closed = [c \in Captures |-> {}]

-----------------------------------------------------------------------------
(* The upload *)

(* create_capture_preview, OCR or audio: draft and job are queued in one    *)
(* transaction and a background task is scheduled after the response.       *)
CreateQueued(c) ==
    /\ draft[c] = "absent"
    /\ draft' = [draft EXCEPT ![c] = "queued"]
    /\ job' = [job EXCEPT ![c].status = "queued"]
    /\ tasks' = [tasks EXCEPT ![c] = @ + 1]
    /\ UNCHANGED <<proposal, facts, worker, handler, retry, retries, crashes, closed>>

(* create_capture_preview, plain text, CSV or OFX: analysed in the request, *)
(* no job.                                                                  *)
CreateSync(c) ==
    /\ draft[c] = "absent"
    /\ \E outcome \in Proposed : draft' = [draft EXCEPT ![c] = outcome]
    /\ UNCHANGED <<proposal, job, facts, tasks, worker, handler, retry, retries,
                   crashes, closed>>

-----------------------------------------------------------------------------
(* Workers.  A background task and the reconciler run the same code.        *)

(* Between two awaits a background task keeps the event loop to itself; the *)
(* claim and the start of the processing contain no await.                  *)
OnLoop(w) == w \in LoopWorkers /\ worker[w].pc \in {"observed", "claimed", "leased", "read"}

LoopFreeFor(w) ==
    w \in LoopWorkers => /\ retry = NoRetry
                         /\ \A v \in LoopWorkers \ {w} : ~OnLoop(v)

(* After one job the reconciler goes on with its list, a task is over.      *)
NextJob(w) ==
    worker' = [worker EXCEPT ![w] =
                 IF worker[w].todo = {} THEN IdleWorker
                 ELSE [IdleWorker EXCEPT !.pc = "running", !.todo = worker[w].todo]]

TakeTaskUnscheduled(w, c) ==   \* mutant: a task nobody scheduled
    /\ w \in LoopWorkers
    /\ worker[w].pc = "idle"
    /\ draft[c] # "absent"
    /\ tasks' = [tasks EXCEPT ![c] = @ - 1]
    /\ worker' = [worker EXCEPT ![w] = [IdleWorker EXCEPT !.pc = "running", !.todo = {c}]]
    /\ UNCHANGED <<draft, proposal, job, facts, handler, retry, retries, crashes, closed>>

TakeTask(w, c) ==
    /\ w \in LoopWorkers
    /\ worker[w].pc = "idle"
    /\ tasks[c] > 0
    /\ tasks' = [tasks EXCEPT ![c] = @ - 1]
    /\ worker' = [worker EXCEPT ![w] = [IdleWorker EXCEPT !.pc = "running", !.todo = {c}]]
    /\ UNCHANGED <<draft, proposal, job, facts, handler, retry, retries, crashes, closed>>

ExhaustedBeyond(c) ==   \* mutant: > for >=
    job[c].status = "processing" /\ job[c].stale /\ job[c].attempts > MaxAttempts

Exhausted(c) ==
    job[c].status = "processing" /\ job[c].stale /\ job[c].attempts >= MaxAttempts

(* reconcile_once, first transaction: fail_exhausted_stale_jobs.            *)
FailExhausted(r) ==
    /\ r \in Reconcilers
    /\ worker[r].pc = "idle"
    /\ job' = [c \in Captures |->
                 IF Exhausted(c) THEN [job[c] EXCEPT !.status = "failed"] ELSE job[c]]
    /\ draft' = [c \in Captures |->
                   IF Exhausted(c) /\ draft[c] \notin {"confirmed", "cancelled"}
                   THEN "failed" ELSE draft[c]]
    /\ closed' = [c \in Captures |->
                    IF Exhausted(c) THEN closed[c] \cup {job[c].attempts} ELSE closed[c]]
    /\ worker' = [worker EXCEPT ![r].pc = "swept"]
    /\ UNCHANGED <<proposal, facts, tasks, handler, retry, retries, crashes>>

(* reconcile_once: find_claimable_job_ids.                                  *)
ListClaimable(r) ==
    /\ worker[r].pc = "swept"
    /\ LET ids == {c \in Captures :
                     \/ job[c].status = "queued"
                     \/ /\ job[c].status = "processing" /\ job[c].stale
                        /\ job[c].attempts < MaxAttempts}
       IN  worker' = [worker EXCEPT ![r] =
                        IF ids = {} THEN IdleWorker
                        ELSE [IdleWorker EXCEPT !.pc = "running", !.todo = ids]]
    /\ UNCHANGED <<draft, proposal, job, facts, tasks, handler, retry, retries,
                   crashes, closed>>

(* claim_capture_job, the read: only a queued or a stale processing job may *)
(* be claimed.                                                              *)
Observe(w, c) ==
    /\ worker[w].pc = "running" /\ c \in worker[w].todo
    /\ LoopFreeFor(w)
    /\ LET claimable == \/ job[c].status = "queued"
                        \/ job[c].status = "processing" /\ job[c].stale
           rest == worker[w].todo \ {c}
       IN  worker' = [worker EXCEPT ![w] =
                        IF claimable
                        THEN [@ EXCEPT !.pc = "observed", !.cap = c, !.todo = rest,
                                       !.seen = [status |-> job[c].status,
                                                 attempts |-> job[c].attempts]]
                        ELSE IF rest = {} THEN IdleWorker
                        ELSE [@ EXCEPT !.todo = rest]]
    /\ UNCHANGED <<draft, proposal, job, facts, tasks, handler, retry, retries,
                   crashes, closed>>

UnmovedAttempts(w, c) ==   \* mutant: the status is not compared
    job[c].attempts = worker[w].seen.attempts

Unmoved(w, c) ==
    job[c].status = worker[w].seen.status /\ job[c].attempts = worker[w].seen.attempts

(* claim_capture_job, UPDATE ... WHERE status and attempts are as observed. *)
Claim(w) ==
    LET c == worker[w].cap IN
    /\ worker[w].pc = "observed"
    /\ IF Unmoved(w, c)
       THEN /\ job' = [job EXCEPT ![c] = [status |-> "processing",
                                          attempts |-> @.attempts + 1, stale |-> FALSE]]
            /\ worker' = [worker EXCEPT ![w].pc = "claimed", ![w].seen = NoSeenJob]
       ELSE NextJob(w) /\ UNCHANGED job
    /\ UNCHANGED <<draft, proposal, facts, tasks, handler, retry, retries, crashes, closed>>

(* claim_capture_job, db.refresh(job) after the commit: the lease the       *)
(* worker keeps is the attempts value a second transaction reads.           *)
Refresh(w) ==
    /\ worker[w].pc = "claimed"
    /\ worker' = [worker EXCEPT ![w].pc = "leased",
                                ![w].lease = job[worker[w].cap].attempts]
    /\ UNCHANGED <<draft, proposal, job, facts, tasks, handler, retry, retries,
                   crashes, closed>>

(* finalize_capture_job: the compare-and-swap on the lease. *)
OwnsLeaseByStatus(w, c) ==    \* mutant: the attempts are not compared
    job[c].status = "processing"

OwnsLeaseByAttempt(w, c) ==   \* mutant: the status is not compared
    job[c].attempts = worker[w].lease

OwnsLease(w, c) == job[c].status = "processing" /\ job[c].attempts = worker[w].lease

Finalize(w, c, status) ==
    IF OwnsLease(w, c)
    THEN /\ job' = [job EXCEPT ![c].status = status]
         /\ closed' = [closed EXCEPT ![c] = @ \cup {job[c].attempts}]
    ELSE UNCHANGED <<job, closed>>

(* _process_claimed_capture_job, the read of the draft: a cancelled one     *)
(* ends the job at once.                                                    *)
ReadDraft(w) ==
    LET c == worker[w].cap IN
    /\ worker[w].pc = "leased"
    /\ IF draft[c] = "cancelled"
       THEN Finalize(w, c, "completed") /\ NextJob(w)
       ELSE /\ worker' = [worker EXCEPT ![w].pc = "read", ![w].draft = draft[c]]
            /\ UNCHANGED <<job, closed>>
    /\ UNCHANGED <<draft, proposal, facts, tasks, handler, retry, retries, crashes>>

(* capture.status = "processing"; db.commit(): no compare-and-swap.         *)
Start(w) ==
    LET c == worker[w].cap IN
    /\ worker[w].pc = "read"
    /\ draft' = IF worker[w].draft = "processing" THEN draft
                ELSE [draft EXCEPT ![c] = "processing"]
    /\ worker' = [worker EXCEPT ![w].pc = "analyzing", ![w].draft = "absent"]
    /\ UNCHANGED <<proposal, job, facts, tasks, handler, retry, retries, crashes, closed>>

PublishUnlessLost(w, outcome) ==   \* mutant: a lost finalize is not rolled back
    LET c == worker[w].cap IN
    /\ worker[w].pc = "analyzing"
    /\ LoopFreeFor(w)
    /\ Finalize(w, c, "completed")
    /\ draft' = [draft EXCEPT ![c] = outcome]
    /\ proposal' = IF outcome = "preview"
                   THEN [proposal EXCEPT ![c] = worker[w].lease] ELSE proposal
    /\ NextJob(w)
    /\ UNCHANGED <<facts, tasks, handler, retry, retries, crashes>>

(* _analyze_and_persist_capture and the finalize of the same transaction;   *)
(* a lost finalize rolls everything back.  "needs_input" keeps the old      *)
(* proposal.                                                                *)
Publish(w, outcome) ==
    LET c == worker[w].cap IN
    /\ worker[w].pc = "analyzing"
    /\ LoopFreeFor(w)
    /\ Finalize(w, c, "completed")
    /\ draft' = IF OwnsLease(w, c) THEN [draft EXCEPT ![c] = outcome] ELSE draft
    /\ proposal' = IF OwnsLease(w, c) /\ outcome = "preview"
                   THEN [proposal EXCEPT ![c] = worker[w].lease] ELSE proposal
    /\ NextJob(w)
    /\ UNCHANGED <<facts, tasks, handler, retry, retries, crashes>>

(* The except branch: rollback, finalize "failed", then the draft.          *)
FailAttempt(w) ==
    LET c == worker[w].cap IN
    /\ worker[w].pc = "analyzing"
    /\ LoopFreeFor(w)
    /\ Finalize(w, c, "failed")
    /\ draft' = IF OwnsLease(w, c) /\ draft[c] \notin {"confirmed", "cancelled"}
                THEN [draft EXCEPT ![c] = "failed"] ELSE draft
    /\ NextJob(w)
    /\ UNCHANGED <<proposal, facts, tasks, handler, retry, retries, crashes>>

(* A worker dies with its uncommitted work and its list.                    *)
Crash(w) ==
    /\ worker[w].pc # "idle"
    /\ crashes < MaxCrashes
    /\ crashes' = crashes + 1
    /\ worker' = [worker EXCEPT ![w] = IdleWorker]
    /\ UNCHANGED <<draft, proposal, job, facts, tasks, handler, retry, retries, closed>>

(* A restart of the API process loses a task that had not begun.            *)
LoseTask(c) ==
    /\ tasks[c] > 0
    /\ crashes < MaxCrashes
    /\ crashes' = crashes + 1
    /\ tasks' = [tasks EXCEPT ![c] = 0]
    /\ UNCHANGED <<draft, proposal, job, facts, worker, handler, retry, retries, closed>>

(* stale_after_seconds pass since the claim, whatever the worker is doing.  *)
Elapse(c) ==
    /\ job[c].status = "processing" /\ ~job[c].stale
    /\ job' = [job EXCEPT ![c].stale = TRUE]
    /\ UNCHANGED <<draft, proposal, facts, tasks, worker, handler, retry, retries,
                   crashes, closed>>

-----------------------------------------------------------------------------
(* The household's requests *)

(* cancel_capture, the reads: only a confirmed draft is refused.            *)
CancelRead(h, c) ==
    /\ handler[h].op = "none"
    /\ draft[c] \notin {"absent", "confirmed"}
    /\ handler' = [handler EXCEPT ![h] =
                     [op |-> "cancel", cap |-> c, draft |-> draft[c],
                      jobOpen |-> job[c].status \in InFlight]]
    /\ UNCHANGED <<draft, proposal, job, facts, tasks, worker, retry, retries,
                   crashes, closed>>

(* cancel_capture, the commit: the draft is cancelled, and a job that was   *)
(* open when read fails with "cancelled_by_user", by primary key.           *)
CancelCommit(h) ==
    LET c == handler[h].cap IN
    /\ handler[h].op = "cancel"
    /\ draft' = IF handler[h].draft = "cancelled" THEN draft
                ELSE [draft EXCEPT ![c] = "cancelled"]
    /\ IF handler[h].jobOpen
       THEN /\ job' = [job EXCEPT ![c].status = "failed"]
            /\ closed' = IF job[c].status = "processing"
                         THEN [closed EXCEPT ![c] = @ \cup {job[c].attempts}]
                         ELSE closed
       ELSE UNCHANGED <<job, closed>>
    /\ handler' = [handler EXCEPT ![h] = IdleHandler]
    /\ UNCHANGED <<proposal, facts, tasks, worker, retry, retries, crashes>>

(* _confirm_capture_items, the guard on the draft's status.                 *)
ConfirmRead(h, c) ==
    /\ handler[h].op = "none"
    /\ draft[c] \in Proposed
    /\ handler' = [handler EXCEPT ![h] =
                     [op |-> "confirm", cap |-> c, draft |-> draft[c], jobOpen |-> FALSE]]
    /\ UNCHANGED <<draft, proposal, job, facts, tasks, worker, retry, retries,
                   crashes, closed>>

(* _confirm_capture_items, the one commit: the confirmed items become       *)
(* transactions, obligations or payroll records and the draft is confirmed. *)
ConfirmCommit(h) ==
    LET c == handler[h].cap IN
    /\ handler[h].op = "confirm"
    /\ draft' = [draft EXCEPT ![c] = "confirmed"]
    /\ facts' = [facts EXCEPT ![c] = @ + 1]
    /\ handler' = [handler EXCEPT ![h] = IdleHandler]
    /\ UNCHANGED <<proposal, job, tasks, worker, retry, retries, crashes, closed>>

(* _confirm_capture_items, an item refused (422 or 409): nothing is kept.   *)
ConfirmRefused(h) ==
    /\ handler[h].op = "confirm"
    /\ handler' = [handler EXCEPT ![h] = IdleHandler]
    /\ UNCHANGED <<draft, proposal, job, facts, tasks, worker, retry, retries,
                   crashes, closed>>

RetryReadAnyJob(c) ==   \* mutant: the job's status is not checked
    /\ retry = NoRetry
    /\ \A w \in LoopWorkers : ~OnLoop(w)
    /\ retries[c] < MaxRetries
    /\ draft[c] \notin {"absent", "cancelled"}
    /\ retry' = [cap |-> c, draft |-> draft[c]]
    /\ UNCHANGED <<draft, proposal, job, facts, tasks, worker, handler, retries,
                   crashes, closed>>

(* retry_capture, the checks: it runs on the event loop, with no await.     *)
RetryRead(c) ==
    /\ retry = NoRetry
    /\ \A w \in LoopWorkers : ~OnLoop(w)
    /\ retries[c] < MaxRetries
    /\ draft[c] # "cancelled"
    /\ job[c].status = "failed"
    /\ retry' = [cap |-> c, draft |-> draft[c]]
    /\ UNCHANGED <<draft, proposal, job, facts, tasks, worker, handler, retries,
                   crashes, closed>>

(* retry_capture, the commit: reset_job_for_retry keeps the attempts.       *)
RetryCommit(c) ==
    /\ retry.cap = c
    /\ job' = [job EXCEPT ![c].status = "queued", ![c].stale = FALSE]
    /\ draft' = IF retry.draft = "queued" THEN draft ELSE [draft EXCEPT ![c] = "queued"]
    /\ tasks' = [tasks EXCEPT ![c] = @ + 1]
    /\ retries' = [retries EXCEPT ![c] = @ + 1]
    /\ retry' = NoRetry
    /\ UNCHANGED <<proposal, facts, worker, handler, crashes, closed>>

-----------------------------------------------------------------------------
WorkerStep(w) ==
    \/ FailExhausted(w) \/ ListClaimable(w)
    \/ \E c \in Captures : TakeTask(w, c) \/ Observe(w, c)
    \/ Claim(w) \/ Refresh(w) \/ ReadDraft(w) \/ Start(w)
    \/ \E outcome \in Proposed : Publish(w, outcome)
    \/ FailAttempt(w)

Request(c) ==
    \/ CreateQueued(c) \/ CreateSync(c)
    \/ \E h \in Handlers : CancelRead(h, c) \/ ConfirmRead(h, c)
    \/ RetryRead(c)

Next ==
    \/ \E w \in Workers : WorkerStep(w) \/ Crash(w)
    \/ \E c \in Captures : Request(c) \/ RetryCommit(c) \/ Elapse(c) \/ LoseTask(c)
    \/ \E h \in Handlers : CancelCommit(h) \/ ConfirmCommit(h) \/ ConfirmRefused(h)

Spec == Init /\ [][Next]_vars

(* The reconciler is scheduled again and again (cron or a systemd timer),   *)
(* a process that lives goes on, and time passes.                           *)
Fairness ==
    /\ \A w \in Workers : WF_vars(WorkerStep(w))
    /\ \A c \in Captures : WF_vars(Elapse(c)) /\ WF_vars(RetryCommit(c))

FairSpec == Spec /\ Fairness

-----------------------------------------------------------------------------
JobRow == [status : JobStatus, attempts : Nat, stale : BOOLEAN]
OnJob == {"observed", "claimed", "leased", "read", "analyzing"}
WorkerState == [pc : {"idle", "swept", "running"} \cup OnJob,
                cap : Captures \cup {NoCapture}, todo : SUBSET Captures,
                seen : [status : JobStatus, attempts : Nat],
                draft : DraftStatus, lease : Nat]
HandlerState == [op : {"none", "cancel", "confirm"}, cap : Captures \cup {NoCapture},
                 draft : DraftStatus, jobOpen : BOOLEAN]

(* Type invariant: every variable keeps the shape its Init gives it. *)
TypeOK ==
    /\ draft \in [Captures -> DraftStatus]
    /\ proposal \in [Captures -> Nat]
    /\ job \in [Captures -> JobRow]
    /\ facts \in [Captures -> Nat]
    /\ tasks \in [Captures -> Nat]
    /\ worker \in [Workers -> WorkerState]
    /\ handler \in [Handlers -> HandlerState]
    /\ retry \in [cap : Captures \cup {NoCapture}, draft : DraftStatus]
    /\ retries \in [Captures -> 0 .. MaxRetries]
    /\ crashes \in 0 .. MaxCrashes
    /\ closed \in [Captures -> SUBSET Nat]

(* A draft the household may confirm has no job left that could rewrite it, *)
(* although the draft, the job and the requests are written by different    *)
(* transactions (the guards of retry_capture and _confirm_capture_items and *)
(* the shared transaction of _process_claimed_capture_job).                 *)
ProposalNotInFlight ==
    \A c \in Captures : draft[c] \in Proposed => job[c].status \notin InFlight

(* A terminal job is never picked up again by a worker or a sweep: a failed *)
(* one goes back to the queue only, and a completed one can only be failed, *)
(* by a cancel request that had read it open (claim_capture_job,            *)
(* finalize_capture_job, fail_exhausted_stale_jobs).                        *)
TerminalJobsRest ==
    [][\A c \in Captures :
         /\ job[c].status = "failed" => job'[c].status \in {"failed", "queued"}
         /\ job[c].status = "completed" => job'[c].status \in {"completed", "failed"}]_vars

(* A worker writes a proposal on the draft only in the step that completes  *)
(* the newest attempt; a superseded or cancelled attempt leaves no trace    *)
(* (_finalize_or_discard).                                                  *)
ProposalsPublishedByNewestAttempt ==
    [][\A c \in Captures :
         draft[c] # "absent" /\ draft'[c] # draft[c] /\ draft'[c] \in Proposed =>
           /\ job[c].status = "processing" /\ job'[c].status = "completed"
           /\ job'[c].attempts = job[c].attempts
           /\ proposal'[c] \in {proposal[c], job[c].attempts}]_vars

(* AttemptLease, with an attempt closed when its job leaves "processing".   *)
Attempts == [c \in Captures |-> job[c].attempts]
Lease == INSTANCE AttemptLease WITH Items <- Captures, granted <- Attempts,
                                    shown <- proposal

(* Each attempt is closed at most once and only while it is the newest      *)
(* (the compare-and-swap on attempts in claim and finalize_capture_job).    *)
ImplementsLease == Lease!LeaseSpec

(* Every queued or processing job ends, after crashes, lost tasks and slow  *)
(* workers (find_claimable_job_ids and fail_exhausted_stale_jobs).          *)
JobsEnd ==
    \A c \in Captures : job[c].status \in InFlight ~> job[c].status \in Terminal

(* One upload's facts are created once: a confirmed draft is not confirmed  *)
(* again (the 409 of _confirm_capture_items).                               *)
FactsCreatedOnce == \A c \in Captures : facts[c] <= 1

(* The household sends one request at a time: no cancel or confirm runs     *)
(* beside another one or beside a retry.                                    *)
RequestsApart ==
    /\ \A g, h \in Handlers :
          handler[g].op # "none" /\ handler[h].op # "none" => g = h
    /\ retry # NoRetry => \A h \in Handlers : handler[h].op = "none"

(* Without overlapping requests an upload's facts are created once, however *)
(* retries, reclaims, slow workers and crashes order the rest (the status   *)
(* guards of _confirm_capture_items, cancel_capture and retry_capture).     *)
FactsOnceInSequence == []RequestsApart => []FactsCreatedOnce

(* No worker brings a cancelled draft back ("never resurrect a cancelled    *)
(* draft by writing a proposal onto it", _process_claimed_capture_job).     *)
CancelledNotResurrected ==
    [][\A c \in Captures :
         draft[c] = "cancelled" => draft'[c] \notin Proposed \cup InFlight]_vars

(* Automatic reclaim stops at max_attempts: without a manual retry a job is *)
(* never claimed more often (find_claimable_job_ids).                       *)
AttemptBudget ==
    \A c \in Captures : retries[c] = 0 => job[c].attempts <= MaxAttempts
=============================================================================
