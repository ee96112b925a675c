------------------------- MODULE CaptureQueueProofs -------------------------
(***************************************************************************)
(* Proofs about CaptureQueue for any captures, workers, requests and       *)
(* bounds.                                                                 *)
(***************************************************************************)
EXTENDS CaptureQueue, TLAPS

(* Type correctness in three parts: the rows and counters, the workers and  *)
(* the requests.  Refresh reads the job of the worker's capture, so a       *)
(* worker on a job must have one; a request is about an existing draft.     *)
RowsOK ==
    /\ draft \in [Captures -> DraftStatus]
    /\ proposal \in [Captures -> Nat]
    /\ job \in [Captures -> JobRow]
    /\ facts \in [Captures -> Nat]
    /\ closed \in [Captures -> SUBSET Nat]
    /\ \A c \in Captures : draft[c] = "absent" => job[c].status = "none"

CountersOK ==
    /\ tasks \in [Captures -> Nat]
    /\ retries \in [Captures -> 0 .. MaxRetries]
    /\ crashes \in 0 .. MaxCrashes

WorkerOK ==
    /\ worker \in [Workers -> WorkerState]
    /\ \A w \in Workers :
         /\ worker[w].pc \in OnJob => worker[w].cap \in Captures
         /\ worker[w].pc = "observed" => worker[w].seen.status \in InFlight

RequestsOK ==
    /\ handler \in [Handlers -> HandlerState]
    /\ \A h \in Handlers :
         handler[h].op # "none" =>
            handler[h].cap \in Captures /\ draft[handler[h].cap] # "absent"
    /\ retry \in [cap : Captures \cup {NoCapture}, draft : DraftStatus]
    /\ retry.cap \in Captures =>
         retries[retry.cap] < MaxRetries /\ draft[retry.cap] # "absent"

TypeInv == RowsOK /\ CountersOK /\ WorkerOK /\ RequestsOK

LEMMA InitTypeInv == Init => TypeInv
  BY CaptureBounds, CaptureActors DEF Init, TypeInv, RowsOK, CountersOK, WorkerOK, RequestsOK, IdleWorker,
     IdleHandler, NoRetry, NoSeenJob, DraftStatus, JobStatus, JobRow, OnJob, WorkerState,
     HandlerState

LEMMA IdleTypes ==
  /\ IdleWorker \in WorkerState /\ IdleWorker.pc \notin OnJob \cup {"observed"}
  /\ IdleHandler \in HandlerState /\ IdleHandler.op = "none"
  /\ NoSeenJob \in [status : JobStatus, attempts : Nat]
  BY DEF IdleWorker, IdleHandler, NoSeenJob, WorkerState, HandlerState, OnJob,
     DraftStatus, JobStatus

(* A worker that takes a list of captures to run through, or goes idle.     *)
LEMMA RunningType ==
  ASSUME NEW ids \in SUBSET Captures
  PROVE  /\ [IdleWorker EXCEPT !.pc = "running", !.todo = ids] \in WorkerState
         /\ [IdleWorker EXCEPT !.pc = "running", !.todo = ids].pc = "running"
  BY IdleTypes DEF WorkerState, OnJob, IdleWorker

LEMMA SetWorker ==
  ASSUME WorkerOK, NEW w \in Workers, NEW s \in WorkerState,
         s.pc \in OnJob => s.cap \in Captures,
         s.pc = "observed" => s.seen.status \in InFlight,
         worker' = [worker EXCEPT ![w] = s]
  PROVE  WorkerOK'
  BY DEF WorkerOK

LEMMA NextJobType ==
  ASSUME WorkerOK, NEW w \in Workers, NextJob(w)
  PROVE  WorkerOK'
<1> worker[w].todo \in SUBSET Captures
  BY DEF WorkerOK, WorkerState
<1>1. CASE worker[w].todo = {}
  BY <1>1, IdleTypes, SetWorker DEF NextJob, OnJob
<1>2. CASE worker[w].todo # {}
  BY <1>2, RunningType, SetWorker DEF NextJob, OnJob
<1> QED
  BY <1>1, <1>2

(* The draft of one capture gets a status, its job another one.             *)
LEMMA SetRows ==
  ASSUME RowsOK, NEW c \in Captures
  PROVE  /\ \A s \in DraftStatus : [draft EXCEPT ![c] = s] \in [Captures -> DraftStatus]
         /\ \A s \in JobStatus : [job EXCEPT ![c].status = s] \in [Captures -> JobRow]
         /\ [closed EXCEPT ![c] = @ \cup {job[c].attempts}] \in [Captures -> SUBSET Nat]
         /\ job[c].attempts \in Nat
  BY DEF RowsOK, JobRow

(* reset_job_for_retry *)
LEMMA SetRetriedJob ==
  ASSUME RowsOK, NEW c \in Captures,
         job' = [job EXCEPT ![c].status = "queued", ![c].stale = FALSE]
  PROVE  /\ job' \in [Captures -> JobRow]
         /\ \A d \in Captures : d # c => job'[d] = job[d]
<1> DEFINE row == [job[c] EXCEPT !.status = "queued", !.stale = FALSE]
<1>1. row \in JobRow
  BY DEF RowsOK, JobRow, JobStatus
<1>2. job' = [job EXCEPT ![c] = row]
  BY DEF RowsOK, JobRow
<1> QED
  BY <1>1, <1>2 DEF RowsOK

(* finalize_capture_job keeps the rows well typed. *)
LEMMA FinalizeType ==
  ASSUME RowsOK, NEW w \in Workers, NEW c \in Captures, NEW s \in JobStatus,
         Finalize(w, c, s)
  PROVE  /\ job' \in [Captures -> JobRow]
         /\ closed' \in [Captures -> SUBSET Nat]
         /\ \A d \in Captures : job[d].status = "none" => job'[d].status = "none"
<1>1. CASE OwnsLease(w, c)
  <2>1. /\ job' = [job EXCEPT ![c].status = s]
        /\ closed' = [closed EXCEPT ![c] = @ \cup {job[c].attempts}]
        /\ job[c].status = "processing"
    BY <1>1 DEF Finalize, OwnsLease
  <2>2. \A d \in Captures : job[d].status = "none" => job'[d] = job[d]
    BY <2>1 DEF RowsOK
  <2> QED BY <2>1, <2>2, SetRows
<1>2. CASE ~OwnsLease(w, c)
  BY <1>2 DEF Finalize, RowsOK
<1> QED
  BY <1>1, <1>2

(* Requests keep their shape while no draft disappears. *)
LEMMA KeepRequests ==
  ASSUME RequestsOK, handler' = handler, retry' = retry, retries' = retries,
         \A c \in Captures : draft'[c] = "absent" => draft[c] = "absent"
  PROVE  RequestsOK'
  BY DEF RequestsOK

LEMMA UploadType ==
  ASSUME TypeInv, NEW c \in Captures, CreateQueued(c) \/ CreateSync(c)
  PROVE  TypeInv'
<1>1. ASSUME CreateQueued(c) PROVE TypeInv'
  <2> USE <1>1 DEF CreateQueued, TypeInv
  <2>1. RowsOK'
    BY SetRows DEF RowsOK, DraftStatus, JobStatus, JobRow
  <2>2. CountersOK' /\ WorkerOK'
    BY DEF CountersOK, WorkerOK
  <2>3. RequestsOK'
    BY KeepRequests DEF RowsOK
  <2> QED BY <2>1, <2>2, <2>3
<1>2. ASSUME CreateSync(c) PROVE TypeInv'
  <2> USE <1>2 DEF CreateSync, TypeInv
  <2>1. RowsOK'
    BY SetRows DEF RowsOK, DraftStatus, Proposed
  <2>2. CountersOK' /\ WorkerOK'
    BY DEF CountersOK, WorkerOK
  <2>3. RequestsOK'
    BY KeepRequests DEF RowsOK
  <2> QED BY <2>1, <2>2, <2>3
<1> QED BY <1>1, <1>2

LEMMA RequestType ==
  ASSUME TypeInv,
         \/ \E h \in Handlers, c \in Captures : CancelRead(h, c) \/ ConfirmRead(h, c)
         \/ \E h \in Handlers : ConfirmRefused(h)
         \/ \E c \in Captures : RetryRead(c) \/ RetryCommit(c)
  PROVE  TypeInv'
<1> USE DEF TypeInv
<1>1. ASSUME NEW h \in Handlers, NEW c \in Captures, CancelRead(h, c) PROVE TypeInv'
  <2> USE <1>1 DEF CancelRead
  <2>1. RowsOK' /\ CountersOK' /\ WorkerOK'
    BY DEF RowsOK, CountersOK, WorkerOK
  <2>2. RequestsOK'
    BY DEF RequestsOK, RowsOK, HandlerState
  <2> QED BY <2>1, <2>2
<1>2. ASSUME NEW h \in Handlers, NEW c \in Captures, ConfirmRead(h, c) PROVE TypeInv'
  <2> USE <1>2 DEF ConfirmRead
  <2>1. RowsOK' /\ CountersOK' /\ WorkerOK'
    BY DEF RowsOK, CountersOK, WorkerOK
  <2>2. RequestsOK'
    BY DEF RequestsOK, RowsOK, HandlerState, Proposed
  <2> QED BY <2>1, <2>2
<1>3. ASSUME NEW h \in Handlers, ConfirmRefused(h) PROVE TypeInv'
  <2> USE <1>3 DEF ConfirmRefused
  <2>1. RowsOK' /\ CountersOK' /\ WorkerOK'
    BY DEF RowsOK, CountersOK, WorkerOK
  <2>2. RequestsOK'
    BY IdleTypes DEF RequestsOK
  <2> QED BY <2>1, <2>2
<1>4. ASSUME NEW c \in Captures, RetryRead(c) PROVE TypeInv'
  <2> USE <1>4 DEF RetryRead
  <2>1. RowsOK' /\ CountersOK' /\ WorkerOK'
    BY DEF RowsOK, CountersOK, WorkerOK
  <2>2. RequestsOK'
    BY DEF RequestsOK, RowsOK
  <2> QED BY <2>1, <2>2
<1>5. ASSUME NEW c \in Captures, RetryCommit(c) PROVE TypeInv'
  <2> USE <1>5 DEF RetryCommit
  <2>1. RowsOK'
    <3>1. job' \in [Captures -> JobRow] /\ \A d \in Captures : d # c => job'[d] = job[d]
      BY SetRetriedJob
    <3>2. draft' \in [Captures -> DraftStatus]
      BY DEF RowsOK, DraftStatus
    <3>3. \A d \in Captures : draft'[d] = "absent" => draft[d] = "absent" /\ d # c
      BY DEF RowsOK, RequestsOK
    <3> QED BY <3>1, <3>2, <3>3 DEF RowsOK
  <2>2. CountersOK'
    BY CaptureBounds DEF CountersOK, RequestsOK
  <2>3. WorkerOK'
    BY DEF WorkerOK
  <2>4. RequestsOK'
    BY CaptureActors DEF RequestsOK, RowsOK, NoRetry, DraftStatus
  <2> QED BY <2>1, <2>2, <2>3, <2>4
<1> QED BY <1>1, <1>2, <1>3, <1>4, <1>5

LEMMA CommitType ==
  ASSUME TypeInv, NEW h \in Handlers, CancelCommit(h) \/ ConfirmCommit(h)
  PROVE  TypeInv'
<1> USE DEF TypeInv
<1> DEFINE c == handler[h].cap
<1>1. c \in Captures /\ draft[c] # "absent"
  BY DEF RequestsOK, CancelCommit, ConfirmCommit
<1>2. CountersOK' /\ WorkerOK'
  BY DEF CountersOK, WorkerOK, CancelCommit, ConfirmCommit
<1>3. ASSUME CancelCommit(h) PROVE TypeInv'
  <2>1. draft' \in [Captures -> DraftStatus]
    BY <1>1, <1>3, SetRows DEF CancelCommit, RowsOK, DraftStatus
  <2>2. \A d \in Captures : draft'[d] = "absent" => draft[d] = "absent" /\ d # c
    BY <1>1, <1>3 DEF CancelCommit, RowsOK
  <2>3. job' \in [Captures -> JobRow] /\ closed' \in [Captures -> SUBSET Nat]
    <3>1. job' = job \/ job' = [job EXCEPT ![c].status = "failed"]
      BY <1>3 DEF CancelCommit
    <3>2. closed' = closed \/ closed' = [closed EXCEPT ![c] = @ \cup {job[c].attempts}]
      BY <1>3 DEF CancelCommit
    <3>3. "failed" \in JobStatus
      BY DEF JobStatus
    <3> HIDE DEF c
    <3> QED BY <1>1, <3>1, <3>2, <3>3, SetRows DEF RowsOK
  <2>4. \A d \in Captures : d # c => job'[d] = job[d]
    BY <1>3 DEF CancelCommit, RowsOK
  <2>5. RowsOK'
    BY <1>3, <2>1, <2>2, <2>3, <2>4 DEF CancelCommit, RowsOK
  <2>6. RequestsOK'
    BY <1>3, <2>2, IdleTypes DEF CancelCommit, RequestsOK
  <2> QED BY <1>2, <2>5, <2>6
<1>4. ASSUME ConfirmCommit(h) PROVE TypeInv'
  <2>1. RowsOK'
    BY <1>1, <1>4 DEF ConfirmCommit, RowsOK, DraftStatus
  <2>2. RequestsOK'
    BY <1>1, <1>4, IdleTypes DEF ConfirmCommit, RequestsOK, RowsOK
  <2> QED BY <1>2, <2>1, <2>2
<1> QED BY <1>3, <1>4

LEMMA TimeType ==
  ASSUME TypeInv, NEW c \in Captures, Elapse(c) \/ LoseTask(c)
  PROVE  TypeInv'
<1> USE DEF TypeInv
<1>1. ASSUME Elapse(c) PROVE TypeInv'
  <2>1. job' \in [Captures -> JobRow]
    BY <1>1 DEF Elapse, RowsOK, JobRow
  <2>2. \A d \in Captures : job'[d].status = job[d].status
    BY <1>1 DEF Elapse, RowsOK, JobRow
  <2> QED
    BY <1>1, <2>1, <2>2 DEF Elapse, RowsOK, CountersOK, WorkerOK, RequestsOK
<1>2. ASSUME LoseTask(c) PROVE TypeInv'
  <2>1. CountersOK'
    BY <1>2, CaptureBounds DEF LoseTask, CountersOK
  <2> QED
    BY <1>2, <2>1 DEF LoseTask, RowsOK, WorkerOK, RequestsOK
<1> QED BY <1>1, <1>2

(* Steps of a worker that touch no row. *)
LEMMA ReadingType ==
  ASSUME TypeInv, NEW w \in Workers,
         \/ \E c \in Captures : TakeTask(w, c) \/ Observe(w, c)
         \/ ListClaimable(w) \/ Refresh(w) \/ Crash(w)
  PROVE  TypeInv'
<1> USE DEF TypeInv
<1>1. RowsOK' /\ RequestsOK'
  BY DEF RowsOK, RequestsOK, ListClaimable, TakeTask, Observe, Refresh, Crash
<1>2. CountersOK'
  <2>1. ASSUME NEW c \in Captures, TakeTask(w, c) PROVE CountersOK'
    <3>1. tasks' = [tasks EXCEPT ![c] = tasks[c] - 1] /\ tasks[c] > 0
      BY <2>1 DEF TakeTask
    <3>2. tasks[c] - 1 \in Nat
      BY <3>1 DEF CountersOK
    <3> QED
      BY <2>1, <3>1, <3>2 DEF CountersOK, TakeTask
  <2>2. ASSUME Crash(w) PROVE CountersOK'
    BY <2>2, CaptureBounds DEF CountersOK, Crash
  <2> QED
    BY <2>1, <2>2 DEF CountersOK, ListClaimable, Observe, Refresh
<1>3. worker[w] \in WorkerState
  BY DEF WorkerOK
<1>4. ASSUME ListClaimable(w) PROVE WorkerOK'
  <2> DEFINE ids == {d \in Captures :
                      \/ job[d].status = "queued"
                      \/ /\ job[d].status = "processing" /\ job[d].stale
                         /\ job[d].attempts < MaxAttempts}
  <2>1. ids \in SUBSET Captures
    OBVIOUS
  <2>2. worker' = [worker EXCEPT ![w] =
                     IF ids = {} THEN IdleWorker
                     ELSE [IdleWorker EXCEPT !.pc = "running", !.todo = ids]]
    BY <1>4 DEF ListClaimable
  <2> HIDE DEF ids
  <2> QED BY <2>1, <2>2, IdleTypes, RunningType, SetWorker DEF OnJob
<1>5. ASSUME NEW c \in Captures, TakeTask(w, c) PROVE WorkerOK'
  BY <1>5, RunningType, SetWorker DEF TakeTask, OnJob
<1>6. ASSUME NEW c \in Captures, Observe(w, c) PROVE WorkerOK'
  <2> DEFINE rest == worker[w].todo \ {c}
             claimed == [worker[w] EXCEPT !.pc = "observed", !.cap = c, !.todo = rest,
                           !.seen = [status |-> job[c].status, attempts |-> job[c].attempts]]
             passed == [worker[w] EXCEPT !.todo = rest]
  <2>1. /\ claimed \in WorkerState /\ claimed.cap = c
        /\ claimed.seen.status = job[c].status
    BY <1>3 DEF WorkerState, RowsOK, JobRow, OnJob
  <2>2. passed \in WorkerState /\ passed.pc = "running"
    BY <1>3, <1>6 DEF WorkerState, Observe
  <2>3. \/ worker' = [worker EXCEPT ![w] = claimed] /\ job[c].status \in InFlight
        \/ worker' \in {[worker EXCEPT ![w] = passed], [worker EXCEPT ![w] = IdleWorker]}
    BY <1>6 DEF Observe, InFlight
  <2>4. "running" \notin OnJob
    BY DEF OnJob
  <2> HIDE DEF claimed, passed
  <2> QED BY <2>1, <2>2, <2>3, <2>4, IdleTypes, SetWorker
<1>7. ASSUME Refresh(w) PROVE WorkerOK'
  <2> DEFINE s == [worker[w] EXCEPT !.pc = "leased", !.lease = job[worker[w].cap].attempts]
  <2>1. worker[w].cap \in Captures
    BY <1>7 DEF Refresh, WorkerOK, OnJob
  <2>2. s \in WorkerState /\ s.cap = worker[w].cap /\ s.pc = "leased"
    BY <1>3, <2>1 DEF WorkerState, RowsOK, JobRow, OnJob
  <2>3. worker' = [worker EXCEPT ![w] = s]
    BY <1>7, <1>3 DEF Refresh, WorkerOK, WorkerState
  <2> HIDE DEF s
  <2> QED BY <2>1, <2>2, <2>3, SetWorker
<1>8. ASSUME Crash(w) PROVE WorkerOK'
  BY <1>8, IdleTypes, SetWorker DEF Crash
<1> QED BY <1>1, <1>2, <1>4, <1>5, <1>6, <1>7, <1>8

(* Steps of a worker that write rows. *)
LEMMA WritingType ==
  ASSUME TypeInv, NEW w \in Workers, NEW outcome \in Proposed,
         \/ FailExhausted(w) \/ Claim(w) \/ ReadDraft(w) \/ Start(w)
         \/ Publish(w, outcome) \/ FailAttempt(w)
  PROVE  TypeInv'
<1> USE DEF TypeInv
<1> DEFINE c == worker[w].cap
<1>1. CountersOK'
  BY DEF CountersOK, FailExhausted, Claim, ReadDraft, Start, Publish, FailAttempt
<1>2. worker[w] \in WorkerState /\ (worker[w].pc \in OnJob => c \in Captures)
  BY DEF WorkerOK
<1>3. "failed" \in JobStatus /\ "completed" \in JobStatus /\ "processing" \in DraftStatus
      /\ "failed" \in DraftStatus /\ outcome \in DraftStatus /\ outcome # "absent"
  BY DEF JobStatus, DraftStatus, Proposed
<1>4. ASSUME FailExhausted(w) PROVE TypeInv'
  <2>1. job' \in [Captures -> JobRow]
    BY <1>4 DEF FailExhausted, RowsOK, JobRow, JobStatus
  <2>2. \A d \in Captures : job[d].status = "none" => job'[d].status = "none"
    BY <1>4 DEF FailExhausted, Exhausted, RowsOK, JobRow
  <2>3. closed' \in [Captures -> SUBSET Nat]
    BY <1>4 DEF FailExhausted, RowsOK, JobRow
  <2>4. /\ draft' \in [Captures -> DraftStatus]
        /\ \A d \in Captures : draft'[d] = "absent" => draft[d] = "absent"
    BY <1>4, <1>3 DEF FailExhausted, RowsOK
  <2>5. RowsOK'
    BY <1>4, <2>1, <2>2, <2>3, <2>4 DEF RowsOK, FailExhausted
  <2>6. RequestsOK'
    BY <1>4, <2>4, KeepRequests DEF FailExhausted
  <2>7. WorkerOK'
    <3> DEFINE s == [worker[w] EXCEPT !.pc = "swept"]
    <3>1. s \in WorkerState /\ s.pc = "swept"
      BY <1>2 DEF WorkerState, OnJob
    <3>2. worker' = [worker EXCEPT ![w] = s]
      BY <1>4, <1>2 DEF FailExhausted, WorkerOK, WorkerState
    <3> HIDE DEF s
    <3> QED BY <3>1, <3>2, SetWorker DEF OnJob
  <2> QED BY <1>1, <2>5, <2>6, <2>7
<1>5. ASSUME Claim(w) PROVE TypeInv'
  <2> c \in Captures
    BY <1>5, <1>2 DEF Claim, OnJob
  <2>1. CASE Unmoved(w, c)
    <3> DEFINE row == [status |-> "processing", attempts |-> job[c].attempts + 1,
                       stale |-> FALSE]
               s == [worker[w] EXCEPT !.pc = "claimed", !.seen = NoSeenJob]
    <3>1. job' = [job EXCEPT ![c] = row]
      BY <1>5, <2>1 DEF Claim
    <3>2. row \in JobRow
      BY DEF RowsOK, JobRow, JobStatus
    <3>3. job' \in [Captures -> JobRow]
      BY <3>1, <3>2 DEF RowsOK
    <3>4. draft[c] # "absent"
      BY <1>5, <2>1 DEF Claim, Unmoved, RowsOK, WorkerOK, InFlight
    <3>5. RowsOK'
      BY <1>5, <3>1, <3>3, <3>4 DEF Claim, RowsOK
    <3>6. s \in WorkerState /\ s.cap = c /\ s.pc = "claimed"
      BY <1>2, IdleTypes DEF WorkerState, OnJob
    <3>7. worker' = [worker EXCEPT ![w] = s]
      BY <1>5, <2>1, <1>2 DEF Claim, WorkerOK, WorkerState
    <3>8. WorkerOK'
      <4> HIDE DEF s
      <4> QED BY <3>6, <3>7, SetWorker
    <3> QED BY <1>1, <1>5, <3>5, <3>8 DEF Claim, RequestsOK
  <2>2. CASE ~Unmoved(w, c)
    BY <1>1, <1>5, <2>2, NextJobType DEF Claim, RowsOK, RequestsOK
  <2> QED BY <2>1, <2>2
<1>6. ASSUME ReadDraft(w) PROVE TypeInv'
  <2>1. c \in Captures
    BY <1>6, <1>2 DEF ReadDraft, OnJob
  <2>2. CASE draft[c] = "cancelled"
    <3>1. Finalize(w, c, "completed") /\ NextJob(w) /\ UNCHANGED <<draft, proposal, facts, handler, retry, retries>>
      BY <1>6, <2>2 DEF ReadDraft
    <3> HIDE DEF c
    <3>2. RowsOK'
      BY <1>3, <2>1, <3>1, FinalizeType DEF RowsOK
    <3> QED BY <1>1, <3>1, <3>2, NextJobType, KeepRequests
  <2>3. CASE draft[c] # "cancelled"
    <3> DEFINE s == [worker[w] EXCEPT !.pc = "read", !.draft = draft[c]]
    <3>1. s \in WorkerState /\ s.cap = c /\ s.pc = "read"
      BY <1>2, <2>1 DEF WorkerState, OnJob, RowsOK
    <3>2. worker' = [worker EXCEPT ![w] = s]
      BY <1>6, <2>3, <1>2 DEF ReadDraft, WorkerOK, WorkerState
    <3>3. WorkerOK'
      <4> HIDE DEF s
      <4> QED BY <2>1, <3>1, <3>2, SetWorker
    <3> QED BY <1>1, <1>6, <2>3, <3>3 DEF ReadDraft, RowsOK, RequestsOK
  <2> QED BY <2>2, <2>3
<1>7. ASSUME Start(w) PROVE TypeInv'
  <2>1. c \in Captures
    BY <1>7, <1>2 DEF Start, OnJob
  <2>2. /\ draft' \in [Captures -> DraftStatus]
        /\ \A d \in Captures : draft'[d] = "absent" => draft[d] = "absent"
    BY <1>3, <1>7 DEF Start, RowsOK
  <2>3. RowsOK' /\ RequestsOK'
    BY <1>7, <2>2, KeepRequests DEF Start, RowsOK
  <2> DEFINE s == [worker[w] EXCEPT !.pc = "analyzing", !.draft = "absent"]
  <2>4. s \in WorkerState /\ s.cap = c /\ s.pc = "analyzing"
    BY <1>2 DEF WorkerState, OnJob, DraftStatus
  <2>5. worker' = [worker EXCEPT ![w] = s]
    BY <1>7, <1>2 DEF Start, WorkerOK, WorkerState
  <2>6. WorkerOK'
    <3> HIDE DEF s
    <3> QED BY <2>1, <2>4, <2>5, SetWorker
  <2> QED BY <1>1, <2>3, <2>6
<1>8. ASSUME Publish(w, outcome) \/ FailAttempt(w) PROVE TypeInv'
  <2>1. c \in Captures
    BY <1>8, <1>2 DEF Publish, FailAttempt, OnJob
  <2>2. /\ Finalize(w, c, "completed") \/ Finalize(w, c, "failed")
        /\ NextJob(w)
        /\ UNCHANGED <<facts, handler, retry, retries>>
    BY <1>8 DEF Publish, FailAttempt
  <2>3. /\ draft' \in [Captures -> DraftStatus]
        /\ \A d \in Captures : draft'[d] = "absent" => draft[d] = "absent"
    BY <1>3, <1>8 DEF Publish, FailAttempt, RowsOK
  <2>4. proposal' \in [Captures -> Nat]
    BY <1>2, <1>8, <2>1 DEF Publish, FailAttempt, RowsOK, WorkerState
  <2> HIDE DEF c
  <2>5. RowsOK'
    BY <1>3, <2>1, <2>2, <2>3, <2>4, FinalizeType DEF RowsOK
  <2> QED BY <1>1, <2>2, <2>3, <2>5, NextJobType, KeepRequests
<1> QED BY <1>4, <1>5, <1>6, <1>7, <1>8

LEMMA NextTypeInv == TypeInv /\ [Next]_vars => TypeInv'
<1>1. CASE UNCHANGED vars
  BY <1>1 DEF vars, TypeInv, RowsOK, CountersOK, WorkerOK, RequestsOK
<1>2. ASSUME TypeInv, NEW w \in Workers, WorkerStep(w) PROVE TypeInv'
  BY <1>2, ReadingType, WritingType DEF WorkerStep, Proposed
<1>3. ASSUME TypeInv, NEW w \in Workers, Crash(w) PROVE TypeInv'
  BY <1>3, ReadingType
<1>4. ASSUME TypeInv, NEW c \in Captures, Request(c) PROVE TypeInv'
  BY <1>4, UploadType, RequestType DEF Request
<1> QED
  BY <1>1, <1>2, <1>3, <1>4, TimeType, CommitType, RequestType DEF Next

(* Every variable of the capture queue keeps its shape. *)
THEOREM CaptureTypeCorrect == Spec => []TypeOK
<1>1. TypeInv => TypeOK
  BY DEF TypeInv, TypeOK, RowsOK, CountersOK, WorkerOK, RequestsOK
<1> QED
  BY <1>1, InitTypeInv, NextTypeInv, PTL DEF Spec

LEMMA SpecTypeInv == Spec => []TypeInv
  BY InitTypeInv, NextTypeInv, PTL DEF Spec

-----------------------------------------------------------------------------
(* The strengthening ProposalNotInFlight needs: while a retry request is    *)
(* between its checks and its commit its job stays failed, so no worker     *)
(* publishes on the draft it is about to queue again.                       *)
RetryHolds ==
    retry.cap \in Captures =>
        /\ job[retry.cap].status = "failed"
        /\ retry.draft = "queued" => draft[retry.cap] \notin Proposed

FlightInv == ProposalNotInFlight /\ RetryHolds

LEMMA InitFlightInv == Init => FlightInv
  BY CaptureActors DEF Init, FlightInv, ProposalNotInFlight, RetryHolds, NoRetry, Proposed, InFlight

(* finalize_capture_job on a lease: a running job ends, or nothing happens. *)
LEMMA FinalizeEffect ==
  ASSUME RowsOK, NEW w \in Workers, NEW c \in Captures, NEW s \in Terminal,
         Finalize(w, c, s)
  PROVE  /\ OwnsLease(w, c) =>
              /\ job[c].status = "processing" /\ job'[c].status = s
              /\ job'[c].attempts = job[c].attempts
              /\ closed' = [closed EXCEPT ![c] = @ \cup {job[c].attempts}]
         /\ ~OwnsLease(w, c) => job' = job /\ closed' = closed
         /\ \A d \in Captures : d # c => job'[d] = job[d]
<1>1. CASE OwnsLease(w, c)
  BY <1>1 DEF Finalize, OwnsLease, RowsOK, JobRow
<1>2. CASE ~OwnsLease(w, c)
  BY <1>2 DEF Finalize
<1> QED BY <1>1, <1>2

LEMMA NextFlightInv == TypeInv /\ FlightInv /\ [Next]_vars => FlightInv'
<1> SUFFICES ASSUME TypeInv, FlightInv, [Next]_vars PROVE FlightInv'
  OBVIOUS
<1> USE DEF FlightInv, ProposalNotInFlight, RetryHolds, TypeInv
<1>1. CASE UNCHANGED vars
  BY <1>1 DEF vars
<1>2. ASSUME NEW c \in Captures, CreateQueued(c) \/ CreateSync(c) PROVE FlightInv'
  BY <1>2 DEF CreateQueued, CreateSync, RowsOK, JobRow, InFlight, Proposed
<1>3. ASSUME NEW c \in Captures, RetryRead(c) PROVE FlightInv'
  BY <1>3 DEF RetryRead, InFlight, Proposed
<1>4. ASSUME NEW c \in Captures, RetryCommit(c) PROVE FlightInv'
  <2>1. \A d \in Captures : d # c => job'[d] = job[d] /\ draft'[d] = draft[d]
    BY <1>4, SetRetriedJob DEF RetryCommit, RowsOK
  <2>2. draft'[c] \notin Proposed
    BY <1>4 DEF RetryCommit, RowsOK, Proposed
  <2>3. retry'.cap \notin Captures
    BY <1>4, CaptureActors DEF RetryCommit, NoRetry
  <2> QED
    BY <2>1, <2>2, <2>3
<1>5. ASSUME NEW h \in Handlers, CancelCommit(h) PROVE FlightInv'
  <2>1. \A d \in Captures : draft'[d] = draft[d] \/ draft'[d] = "cancelled"
    BY <1>5 DEF CancelCommit, RowsOK
  <2>2. \A d \in Captures : job'[d] = job[d] \/ job'[d].status = "failed"
    BY <1>5 DEF CancelCommit, RowsOK, JobRow
  <2> QED
    BY <1>5, <2>1, <2>2 DEF CancelCommit, InFlight, Proposed
<1>6. ASSUME NEW h \in Handlers, ConfirmCommit(h) PROVE FlightInv'
  BY <1>6 DEF ConfirmCommit, RowsOK, Proposed
<1>7. ASSUME NEW w \in Workers, FailExhausted(w) PROVE FlightInv'
  <2>1. \A d \in Captures : draft'[d] = draft[d] \/ draft'[d] = "failed"
    BY <1>7 DEF FailExhausted
  <2>2. \A d \in Captures : job'[d] = job[d] \/ job'[d].status = "failed"
    BY <1>7 DEF FailExhausted, RowsOK, JobRow
  <2> QED
    BY <1>7, <2>1, <2>2 DEF FailExhausted, InFlight, Proposed
<1>8. ASSUME NEW w \in Workers, Claim(w) PROVE FlightInv'
  <2> DEFINE c == worker[w].cap
  <2>1. c \in Captures /\ worker[w].seen.status \in InFlight
    BY <1>8 DEF Claim, WorkerOK, OnJob
  <2>2. CASE Unmoved(w, c)
    <3>1. job[c].status \in InFlight
      BY <2>1, <2>2 DEF Unmoved
    <3>2. \A d \in Captures : d # c => job'[d] = job[d]
      BY <1>8, <2>2 DEF Claim, RowsOK
    <3> QED
      BY <1>8, <2>1, <3>1, <3>2 DEF Claim, InFlight
  <2>3. CASE ~Unmoved(w, c)
    BY <1>8, <2>3 DEF Claim
  <2> QED BY <2>2, <2>3
<1>9. ASSUME NEW w \in Workers, ReadDraft(w) PROVE FlightInv'
  <2> DEFINE c == worker[w].cap
  <2>1. c \in Captures
    BY <1>9 DEF ReadDraft, WorkerOK, OnJob
  <2>2. job' = job \/ Finalize(w, c, "completed")
    BY <1>9 DEF ReadDraft
  <2>3. UNCHANGED <<draft, retry>>
    BY <1>9 DEF ReadDraft
  <2> HIDE DEF c
  <2> QED
    BY <2>1, <2>2, <2>3, FinalizeEffect DEF Terminal, InFlight
<1>10. ASSUME NEW w \in Workers, Start(w) PROVE FlightInv'
  BY <1>10 DEF Start, RowsOK, Proposed
<1>11. ASSUME NEW w \in Workers, NEW outcome \in Proposed, Publish(w, outcome)
       PROVE FlightInv'
  <2> DEFINE c == worker[w].cap
  <2>1. c \in Captures
    BY <1>11 DEF Publish, WorkerOK, OnJob
  <2>2. /\ Finalize(w, c, "completed")
        /\ draft' = IF OwnsLease(w, c) THEN [draft EXCEPT ![c] = outcome] ELSE draft
        /\ retry' = retry
    BY <1>11 DEF Publish
  <2> HIDE DEF c
  <2> QED
    BY <2>1, <2>2, FinalizeEffect DEF Terminal, InFlight, RowsOK
<1>12. ASSUME NEW w \in Workers, FailAttempt(w) PROVE FlightInv'
  <2> DEFINE c == worker[w].cap
  <2>1. c \in Captures
    BY <1>12 DEF FailAttempt, WorkerOK, OnJob
  <2>2. Finalize(w, c, "failed") /\ retry' = retry
    BY <1>12 DEF FailAttempt
  <2>3. \A d \in Captures : draft'[d] \in {draft[d], "failed"}
    BY <1>12 DEF FailAttempt, RowsOK
  <2> HIDE DEF c
  <2> QED
    BY <2>1, <2>2, <2>3, FinalizeEffect DEF Terminal, InFlight, Proposed
<1>13. ASSUME NEW c \in Captures, Elapse(c) PROVE FlightInv'
  BY <1>13 DEF Elapse, RowsOK, JobRow
<1>14. ASSUME UNCHANGED <<draft, job, retry>> PROVE FlightInv'
  BY <1>14
<1>15. ASSUME NEW w \in Workers, WorkerStep(w) \/ Crash(w) PROVE FlightInv'
  BY <1>15, <1>7, <1>8, <1>9, <1>10, <1>11, <1>12, <1>14
     DEF WorkerStep, ListClaimable, TakeTask, Observe, Refresh, Crash
<1>16. ASSUME NEW c \in Captures, Request(c) \/ RetryCommit(c) \/ Elapse(c) \/ LoseTask(c)
       PROVE FlightInv'
  BY <1>16, <1>2, <1>3, <1>4, <1>13, <1>14 DEF Request, CancelRead, ConfirmRead, LoseTask
<1> QED
  BY <1>1, <1>5, <1>6, <1>14, <1>15, <1>16 DEF Next, ConfirmRefused

(* A draft shown for confirmation never has a job in flight. *)
THEOREM CaptureProposalNotInFlight == Spec => []ProposalNotInFlight
<1>1. FlightInv => ProposalNotInFlight
  BY DEF FlightInv
<1> QED
  BY <1>1, SpecTypeInv, InitFlightInv, NextFlightInv, PTL DEF Spec

LEMMA SpecFlightInv == Spec => [](TypeInv /\ FlightInv)
  BY SpecTypeInv, InitFlightInv, NextFlightInv, PTL DEF Spec

-----------------------------------------------------------------------------
(* What a step may do to one job and to the history of its attempts.        *)
JobKept(c) == job'[c].status = job[c].status /\ job'[c].attempts = job[c].attempts
              /\ closed'[c] = closed[c]

JobClosed(c) == /\ job[c].status = "processing" /\ job'[c].status \in Terminal
                /\ job'[c].attempts = job[c].attempts
                /\ closed'[c] = closed[c] \cup {job[c].attempts}

JobClaimed(c) == /\ job[c].status \in InFlight /\ job'[c].status = "processing"
                 /\ job'[c].attempts = job[c].attempts + 1
                 /\ closed'[c] = closed[c]

JobQueued(c) == /\ job[c].status \in {"none", "failed"} /\ job'[c].status = "queued"
                /\ job'[c].attempts = job[c].attempts
                /\ closed'[c] = closed[c]

(* A cancel that had read the job open, committed when it no longer runs.   *)
JobRefused(c) == /\ job[c].status # "processing" /\ job'[c].status = "failed"
                 /\ job'[c].attempts = job[c].attempts
                 /\ closed'[c] = closed[c]

QuietStep(c) == JobKept(c) \/ JobClosed(c) \/ JobQueued(c) \/ JobRefused(c)

(* Only a claim changes a number of attempts, one job at a time.            *)
ClaimStep == /\ \E c \in Captures :
                  JobClaimed(c) /\ \A d \in Captures \ {c} : JobKept(d)
             /\ proposal' = proposal

JobsStep == (\A c \in Captures : QuietStep(c)) \/ ClaimStep

LEMMA FinalizeStep ==
  ASSUME RowsOK, NEW w \in Workers, NEW c \in Captures, NEW s \in Terminal,
         Finalize(w, c, s)
  PROVE  \A d \in Captures : JobKept(d) \/ (d = c /\ JobClosed(d) /\ OwnsLease(w, d))
<1>1. CASE OwnsLease(w, c)
  <2>1. JobClosed(c)
    BY <1>1, FinalizeEffect DEF JobClosed, RowsOK
  <2>2. ASSUME NEW d \in Captures, d # c PROVE JobKept(d)
    BY <1>1, <2>2, FinalizeEffect DEF JobKept, RowsOK
  <2> QED BY <1>1, <2>1, <2>2
<1>2. CASE ~OwnsLease(w, c)
  BY <1>2, FinalizeEffect DEF JobKept
<1> QED BY <1>1, <1>2

LEMMA EveryJobStep == TypeInv /\ FlightInv /\ [Next]_vars => JobsStep
<1> SUFFICES ASSUME TypeInv, FlightInv, [Next]_vars PROVE JobsStep
  OBVIOUS
<1> USE DEF TypeInv
<1>1. ASSUME UNCHANGED <<job, closed>> PROVE JobsStep
  BY <1>1 DEF JobsStep, QuietStep, JobKept
<1>2. ASSUME NEW c \in Captures, CreateQueued(c) PROVE JobsStep
  BY <1>2 DEF CreateQueued, JobsStep, QuietStep, JobKept, JobQueued, RowsOK, JobRow
<1>3. ASSUME NEW c \in Captures, RetryCommit(c) PROVE JobsStep
  <2>1. job[c].status = "failed"
    BY <1>3 DEF RetryCommit, FlightInv, RetryHolds
  <2>2. \A d \in Captures : d # c => JobKept(d)
    BY <1>3, SetRetriedJob DEF RetryCommit, JobKept
  <2>3. JobQueued(c)
    BY <1>3, <2>1 DEF RetryCommit, JobQueued, RowsOK, JobRow
  <2> QED BY <2>2, <2>3 DEF JobsStep, QuietStep
<1>4. ASSUME NEW h \in Handlers, CancelCommit(h) PROVE JobsStep
  <2> DEFINE c == handler[h].cap
  <2>1. c \in Captures
    BY <1>4 DEF CancelCommit, RequestsOK
  <2>2. CASE handler[h].jobOpen
    <3>1. job' = [job EXCEPT ![c].status = "failed"]
      BY <1>4, <2>2 DEF CancelCommit
    <3>2. closed' = IF job[c].status = "processing"
                    THEN [closed EXCEPT ![c] = @ \cup {job[c].attempts}] ELSE closed
      BY <1>4, <2>2 DEF CancelCommit
    <3> HIDE DEF c
    <3>3. \A d \in Captures : d # c => JobKept(d)
      BY <2>1, <3>1, <3>2 DEF JobKept, RowsOK
    <3>4. job'[c].status = "failed" /\ job'[c].attempts = job[c].attempts
      BY <2>1, <3>1 DEF RowsOK, JobRow
    <3>5. JobClosed(c) \/ JobRefused(c)
      BY <2>1, <3>2, <3>4 DEF JobClosed, JobRefused, RowsOK, Terminal
    <3> QED BY <3>3, <3>5 DEF JobsStep, QuietStep
  <2>3. CASE ~handler[h].jobOpen
    BY <1>1, <1>4, <2>3 DEF CancelCommit
  <2> QED BY <2>2, <2>3
<1>5. ASSUME NEW w \in Workers, FailExhausted(w) PROVE JobsStep
  <2>1. ASSUME NEW d \in Captures, Exhausted(d) PROVE JobClosed(d)
    <3>1. job'[d] = [job[d] EXCEPT !.status = "failed"] /\ closed'[d] = closed[d] \cup {job[d].attempts}
      BY <1>5, <2>1 DEF FailExhausted
    <3>2. job[d] \in JobRow /\ job[d].status = "processing"
      BY <2>1 DEF Exhausted, RowsOK
    <3> QED BY <3>1, <3>2 DEF JobClosed, Terminal, JobRow
  <2>2. ASSUME NEW d \in Captures, ~Exhausted(d) PROVE JobKept(d)
    BY <1>5, <2>2 DEF FailExhausted, JobKept
  <2> QED BY <2>1, <2>2 DEF JobsStep, QuietStep
<1>6. ASSUME NEW w \in Workers, Claim(w) PROVE JobsStep
  <2> DEFINE c == worker[w].cap
  <2>1. c \in Captures /\ worker[w].seen.status \in InFlight
    BY <1>6 DEF Claim, WorkerOK, OnJob
  <2>2. CASE Unmoved(w, c)
    <3>1. job' = [job EXCEPT ![c] = [status |-> "processing",
                                     attempts |-> job[c].attempts + 1, stale |-> FALSE]]
      BY <1>6, <2>2 DEF Claim
    <3>2. job[c].status \in InFlight /\ closed' = closed /\ proposal' = proposal
      BY <1>6, <2>1, <2>2 DEF Unmoved, Claim
    <3> HIDE DEF c
    <3>3. JobClaimed(c)
      BY <2>1, <3>1, <3>2 DEF JobClaimed, RowsOK
    <3>4. \A d \in Captures : d # c => JobKept(d)
      BY <2>1, <3>1, <3>2 DEF JobKept, RowsOK
    <3> QED BY <2>1, <3>2, <3>3, <3>4 DEF JobsStep, ClaimStep
  <2>3. CASE ~Unmoved(w, c)
    BY <1>1, <1>6, <2>3 DEF Claim
  <2> QED BY <2>2, <2>3
<1>7. ASSUME NEW w \in Workers, NEW outcome \in Proposed,
             ReadDraft(w) \/ Publish(w, outcome) \/ FailAttempt(w)
      PROVE JobsStep
  <2> DEFINE c == worker[w].cap
  <2>1. c \in Captures
    BY <1>7 DEF ReadDraft, Publish, FailAttempt, WorkerOK, OnJob
  <2>2. \/ UNCHANGED <<job, closed>>
        \/ Finalize(w, c, "completed") \/ Finalize(w, c, "failed")
    BY <1>7 DEF ReadDraft, Publish, FailAttempt
  <2> HIDE DEF c
  <2> QED
    BY <1>1, <2>1, <2>2, FinalizeStep DEF Terminal, JobsStep, QuietStep
<1>8. ASSUME NEW c \in Captures, Elapse(c) PROVE JobsStep
  BY <1>8 DEF Elapse, JobsStep, QuietStep, JobKept, RowsOK, JobRow
<1>9. ASSUME NEW w \in Workers, WorkerStep(w) \/ Crash(w)
      PROVE JobsStep
  BY <1>1, <1>5, <1>6, <1>7, <1>9
     DEF WorkerStep, ListClaimable, TakeTask, Observe, Refresh, Start, Crash, Proposed
<1>10. ASSUME NEW c \in Captures, Request(c) \/ RetryCommit(c) \/ Elapse(c) \/ LoseTask(c)
       PROVE JobsStep
  BY <1>1, <1>2, <1>3, <1>8, <1>10
     DEF Request, CreateSync, CancelRead, ConfirmRead, RetryRead, LoseTask
<1>11. CASE UNCHANGED vars
  BY <1>1, <1>11 DEF vars
<1> QED
  BY <1>1, <1>4, <1>9, <1>10, <1>11 DEF Next, ConfirmCommit, ConfirmRefused

(* A terminal job is never picked up again except through the queue. *)
THEOREM CaptureTerminalJobsRest == Spec => TerminalJobsRest
<1>1. ASSUME TypeInv, FlightInv, [Next]_vars
      PROVE  [\A c \in Captures :
                /\ job[c].status = "failed" => job'[c].status \in {"failed", "queued"}
                /\ job[c].status = "completed" => job'[c].status \in {"completed", "failed"}]_vars
  BY <1>1, EveryJobStep DEF JobsStep, QuietStep, ClaimStep, JobKept, JobClosed, JobClaimed, JobQueued, JobRefused,
     Terminal, InFlight
<1> QED
  BY <1>1, SpecFlightInv, PTL DEF Spec, TerminalJobsRest

(* Only an upload without a job or a publication by the attempt that holds  *)
(* the lease puts a draft up for confirmation.                              *)
LEMMA ProposedByHolder ==
  ASSUME TypeInv, [Next]_vars, NEW c \in Captures,
         draft[c] # "absent", draft'[c] # draft[c], draft'[c] \in Proposed
  PROVE  \E w \in Workers, outcome \in Proposed :
            Publish(w, outcome) /\ worker[w].cap = c /\ OwnsLease(w, c)
<1> USE DEF TypeInv
<1>1. ASSUME NEW d \in Captures,
             CreateQueued(d) \/ CreateSync(d) \/ RetryCommit(d)
      PROVE  FALSE
  BY <1>1 DEF CreateQueued, CreateSync, RetryCommit, RowsOK, Proposed
<1>2. ASSUME NEW h \in Handlers, CancelCommit(h) \/ ConfirmCommit(h)
      PROVE  FALSE
  BY <1>2 DEF CancelCommit, ConfirmCommit, RowsOK, Proposed
<1>3. ASSUME NEW w \in Workers, FailExhausted(w) \/ Start(w) \/ FailAttempt(w)
      PROVE  FALSE
  BY <1>3 DEF FailExhausted, Start, FailAttempt, RowsOK, Proposed
<1>4. ASSUME UNCHANGED draft PROVE FALSE
  BY <1>4
<1>5. ASSUME NEW w \in Workers, NEW outcome \in Proposed, Publish(w, outcome)
      PROVE  worker[w].cap = c /\ OwnsLease(w, c)
  BY <1>5 DEF Publish, RowsOK
<1>6. ASSUME NEW w \in Workers, WorkerStep(w) \/ Crash(w)
      PROVE  \E outcome \in Proposed : Publish(w, outcome)
  BY <1>3, <1>4, <1>6
     DEF WorkerStep, Crash, ListClaimable, TakeTask, Observe, Claim, Refresh, ReadDraft
<1>7. ASSUME NEW d \in Captures, Request(d) \/ RetryCommit(d) \/ Elapse(d) \/ LoseTask(d)
      PROVE  FALSE
  BY <1>1, <1>4, <1>7 DEF Request, CancelRead, ConfirmRead, RetryRead, Elapse, LoseTask
<1> QED
  BY <1>2, <1>4, <1>5, <1>6, <1>7 DEF Next, ConfirmRefused, vars

(* A worker writes a proposal on a draft only in the step that completes    *)
(* the newest attempt (_finalize_or_discard).                               *)
THEOREM CaptureProposalsByNewest == Spec => ProposalsPublishedByNewestAttempt
<1>1. ASSUME TypeInv, [Next]_vars, NEW c \in Captures,
             draft[c] # "absent", draft'[c] # draft[c], draft'[c] \in Proposed
      PROVE  /\ job[c].status = "processing" /\ job'[c].status = "completed"
             /\ job'[c].attempts = job[c].attempts
             /\ proposal'[c] \in {proposal[c], job[c].attempts}
  <2>1. PICK w \in Workers, outcome \in Proposed :
               Publish(w, outcome) /\ worker[w].cap = c /\ OwnsLease(w, c)
    BY <1>1, ProposedByHolder
  <2>2. Finalize(w, c, "completed") /\ RowsOK
    BY <1>1, <2>1 DEF Publish, TypeInv
  <2>3. /\ job[c].status = "processing" /\ job'[c].status = "completed"
        /\ job'[c].attempts = job[c].attempts
    BY <2>1, <2>2, FinalizeEffect DEF Terminal
  <2>4. proposal'[c] \in {proposal[c], job[c].attempts}
    BY <1>1, <2>1 DEF Publish, OwnsLease, TypeInv, RowsOK
  <2> QED BY <2>3, <2>4
<1>2. TypeInv /\ [Next]_vars =>
        [\A c \in Captures :
           draft[c] # "absent" /\ draft'[c] # draft[c] /\ draft'[c] \in Proposed =>
             /\ job[c].status = "processing" /\ job'[c].status = "completed"
             /\ job'[c].attempts = job[c].attempts
             /\ proposal'[c] \in {proposal[c], job[c].attempts}]_vars
  BY <1>1
<1> QED
  BY <1>2, SpecTypeInv, PTL DEF Spec, ProposalsPublishedByNewestAttempt

-----------------------------------------------------------------------------
(* The refinement of AttemptLease.  Its invariant: only granted attempts    *)
(* are closed, and the attempt of a running job is still open.              *)
LeaseInv ==
    \A c \in Captures :
        /\ closed[c] \subseteq 1 .. job[c].attempts
        /\ job[c].status = "processing" =>
             job[c].attempts > 0 /\ job[c].attempts \notin closed[c]

LEMMA InitLease == Init => LeaseInv /\ Lease!LeaseInit
  BY DEF Init, LeaseInv, Lease!LeaseInit, Attempts

LEMMA NextLeaseInv == TypeInv /\ FlightInv /\ LeaseInv /\ [Next]_vars => LeaseInv'
<1> SUFFICES ASSUME TypeInv, FlightInv, LeaseInv, [Next]_vars, NEW c \in Captures
             PROVE  /\ closed'[c] \subseteq 1 .. job'[c].attempts
                    /\ job'[c].status = "processing" =>
                         job'[c].attempts > 0 /\ job'[c].attempts \notin closed'[c]
  BY DEF LeaseInv
<1>1. job[c].attempts \in Nat /\ closed[c] \subseteq Nat
  BY DEF TypeInv, RowsOK, JobRow
<1>2. QuietStep(c) \/ JobClaimed(c)
  BY EveryJobStep DEF JobsStep, ClaimStep, QuietStep
<1>3. CASE JobClosed(c)
  BY <1>1, <1>3 DEF JobClosed, LeaseInv, Terminal
<1>4. CASE JobClaimed(c)
  BY <1>1, <1>4 DEF JobClaimed, LeaseInv
<1>5. CASE JobKept(c) \/ JobQueued(c) \/ JobRefused(c)
  BY <1>5 DEF JobKept, JobQueued, JobRefused, LeaseInv
<1> QED
  BY <1>2, <1>3, <1>4, <1>5 DEF QuietStep

(* Only a publication changes a proposal, and it closes its attempt.        *)
LEMMA ProposalStep ==
  ASSUME TypeInv, [Next]_vars
  PROVE  \/ proposal' = proposal
         \/ \E c \in Captures :
              /\ proposal' = [proposal EXCEPT ![c] = job[c].attempts]
              /\ JobClosed(c) /\ \A d \in Captures \ {c} : JobKept(d)
<1> USE DEF TypeInv
<1>1. ASSUME NEW w \in Workers, NEW outcome \in Proposed, Publish(w, outcome),
             proposal' # proposal
      PROVE  \E c \in Captures :
              /\ proposal' = [proposal EXCEPT ![c] = job[c].attempts]
              /\ JobClosed(c) /\ \A d \in Captures \ {c} : JobKept(d)
  <2> DEFINE c == worker[w].cap
  <2>1. c \in Captures
    BY <1>1 DEF Publish, WorkerOK, OnJob
  <2>2. Finalize(w, c, "completed") /\ OwnsLease(w, c)
        /\ proposal' = [proposal EXCEPT ![c] = worker[w].lease]
    BY <1>1 DEF Publish
  <2>3. worker[w].lease = job[c].attempts
    BY <2>2 DEF OwnsLease
  <2>4. JobClosed(c)
    BY <2>1, <2>2, FinalizeEffect DEF Terminal, JobClosed, RowsOK
  <2>5. \A d \in Captures \ {c} : JobKept(d)
    BY <2>1, <2>2, FinalizeEffect DEF Terminal, JobKept, RowsOK
  <2> QED
    BY <2>1, <2>2, <2>3, <2>4, <2>5
<1> QED
  BY <1>1 DEF Next, WorkerStep, Request, vars, CreateQueued, CreateSync, CancelRead, ConfirmRead,
     RetryRead, RetryCommit, Elapse, LoseTask, CancelCommit, ConfirmCommit, ConfirmRefused,
     Crash, FailExhausted, ListClaimable, TakeTask, Observe, Claim, Refresh, ReadDraft, Start,
     FailAttempt

LEMMA LeaseStep ==
  TypeInv /\ FlightInv /\ LeaseInv /\ [Next]_vars => [Lease!LeaseNext]_(Lease!leaseVars)
<1> SUFFICES ASSUME TypeInv, FlightInv, LeaseInv, [Next]_vars
             PROVE  Lease!LeaseNext
  BY DEF Lease!leaseVars
<1> USE DEF Attempts
<1>1. RowsOK /\ RowsOK'
  BY NextTypeInv DEF TypeInv
<1>2. /\ DOMAIN closed = Captures /\ DOMAIN closed' = Captures
      /\ \A c \in Captures : job[c].attempts \in Nat
      /\ closed' = [c \in Captures |-> closed'[c]]
  BY <1>1 DEF RowsOK, JobRow
<1>3. ASSUME NEW c \in Captures, proposal' = [proposal EXCEPT ![c] = job[c].attempts],
             JobClosed(c), \A d \in Captures \ {c} : JobKept(d)
      PROVE  Lease!Publish(c)
  <2>1. closed' = [closed EXCEPT ![c] = @ \cup {Attempts[c]}]
    BY <1>1, <1>2, <1>3 DEF JobClosed, JobKept, RowsOK
  <2>2. Attempts' = Attempts
    BY <1>3 DEF JobClosed, JobKept
  <2> QED
    BY <1>3, <2>1, <2>2 DEF Lease!Publish, JobClosed, LeaseInv
<1>4. ASSUME proposal' = proposal, \A c \in Captures : QuietStep(c)
      PROVE  \E C \in SUBSET Captures : Lease!Close(C)
  <2> DEFINE K == {c \in Captures : JobClosed(c)}
  <2>1. \A c \in K : Attempts[c] > 0 /\ Attempts[c] \notin closed[c]
    BY DEF JobClosed, LeaseInv
  <2>2. Attempts' = Attempts
    BY <1>4 DEF QuietStep, JobKept, JobClosed, JobQueued, JobRefused
  <2>3. \A c \in Captures :
          closed'[c] = IF c \in K THEN closed[c] \cup {Attempts[c]} ELSE closed[c]
    BY <1>4 DEF QuietStep, JobKept, JobClosed, JobQueued, JobRefused
  <2>4. closed' = [c \in Captures |->
                     IF c \in K THEN closed[c] \cup {Attempts[c]} ELSE closed[c]]
    BY <1>2, <2>3
  <2> K \in SUBSET Captures
    OBVIOUS
  <2> HIDE DEF K
  <2> QED
    BY <1>4, <2>1, <2>2, <2>4 DEF Lease!Close
<1>5. ASSUME ClaimStep PROVE \E c \in Captures : Lease!Grant(c)
  <2>1. PICK c \in Captures : JobClaimed(c) /\ \A d \in Captures \ {c} : JobKept(d)
    BY <1>5 DEF ClaimStep
  <2>2. closed' = closed
    BY <1>1, <2>1 DEF RowsOK, JobClaimed, JobKept
  <2>3. Attempts' = [Attempts EXCEPT ![c] = @ + 1]
    BY <2>1 DEF JobClaimed, JobKept
  <2> QED
    BY <1>5, <2>2, <2>3 DEF ClaimStep, Lease!Grant
<1>6. JobsStep
  BY EveryJobStep
<1> QED
  BY <1>3, <1>4, <1>5, <1>6, ProposalStep DEF JobsStep, Lease!LeaseNext

(* The queue implements the abstract lease, whatever crashes, reclaims and  *)
(* cancellations do: an attempt is closed at most once, only as the newest, *)
(* and the draft shows the proposal of a closed attempt.                    *)
THEOREM CaptureImplementsLease == Spec => ImplementsLease
<1>1. Spec => [](TypeInv /\ FlightInv /\ LeaseInv)
  BY SpecTypeInv, SpecFlightInv, InitLease, NextLeaseInv, PTL DEF Spec
<1> QED
  BY <1>1, InitLease, LeaseStep, PTL DEF Spec, ImplementsLease, Lease!LeaseSpec

-----------------------------------------------------------------------------
(* Confirmations.  What FactsOnceInSequence needs while the household sends *)
(* one request at a time: a draft that may be confirmed, one being          *)
(* confirmed and one with facts have a job that is over for good; a         *)
(* cancelled draft has no job in flight, nor does one that a cancel found   *)
(* without; a cancel about to fail a job has no facts to fear.              *)
Over(c) == job[c].status \in {"none", "completed"}

CancelOK(c, h) ==
    /\ handler[h].jobOpen => facts[c] = 0 /\ handler[h].draft # "cancelled"
    /\ ~handler[h].jobOpen => job[c].status \notin InFlight

ConfirmInv ==
    \A c \in Captures :
        /\ facts[c] \in {0, 1}
        /\ draft[c] \in Proposed => facts[c] = 0 /\ Over(c)
        /\ facts[c] = 1 => draft[c] # "absent" /\ Over(c)
        /\ draft[c] = "cancelled" => job[c].status \notin InFlight
        /\ retry.cap = c => draft[c] # "cancelled"
        /\ \A h \in Handlers :
             handler[h].cap = c =>
               /\ handler[h].op = "confirm" => facts[c] = 0 /\ Over(c)
               /\ handler[h].op = "cancel" => CancelOK(c, h)

LEMMA InitConfirmInv == Init => ConfirmInv
<1> SUFFICES ASSUME Init PROVE ConfirmInv
  OBVIOUS
<1>1. \A c \in Captures : facts[c] = 0 /\ draft[c] = "absent"
  BY DEF Init
<1>2. \A c \in Captures : retry.cap # c
  BY CaptureActors DEF Init, NoRetry
<1>3. \A h \in Handlers : handler[h].op = "none"
  BY DEF Init, IdleHandler
<1>4. \A c \in Captures : draft[c] \notin Proposed
  BY <1>1 DEF Proposed
<1>5. ASSUME NEW c \in Captures
      PROVE  /\ facts[c] \in {0, 1} /\ facts[c] # 1
             /\ draft[c] \notin Proposed /\ draft[c] # "cancelled" /\ retry.cap # c
  BY <1>1, <1>2, <1>4
<1>6. ASSUME NEW h \in Handlers
      PROVE  handler[h].op # "confirm" /\ handler[h].op # "cancel"
  BY <1>3
<1> QED
  BY <1>5, <1>6 DEF ConfirmInv

(* Steps of the workers, which leave the requests and the facts alone: a    *)
(* job that is over stays so and one that is not in flight is not taken up. *)
LEMMA WorkersKeepConfirmInv ==
  ASSUME ConfirmInv, UNCHANGED <<facts, handler, retry>>,
         \A c \in Captures : job'[c].status = job[c].status \/ job[c].status \in InFlight,
         \A c \in Captures : \/ draft'[c] = draft[c]
                              \/ draft'[c] \in {"processing", "failed"}
                              \/ /\ draft'[c] \in Proposed
                                 /\ job[c].status = "processing" /\ job'[c].status = "completed"
  PROVE  ConfirmInv'
  BY DEF ConfirmInv, Over, CancelOK, InFlight, Proposed

LEMMA NextConfirmInv ==
  RequestsApart /\ RequestsApart' /\ TypeInv /\ FlightInv /\ ConfirmInv /\ [Next]_vars
     => ConfirmInv'
<1> SUFFICES ASSUME RequestsApart, RequestsApart', TypeInv, FlightInv, ConfirmInv, [Next]_vars
             PROVE  ConfirmInv'
  OBVIOUS
<1> USE DEF TypeInv
<1>1. ASSUME UNCHANGED <<draft, job, facts, handler, retry>> PROVE ConfirmInv'
  BY <1>1 DEF ConfirmInv, Over, CancelOK
<1>2. ASSUME NEW c \in Captures, CreateQueued(c) PROVE ConfirmInv'
  <2>1. \A d \in Captures : d # c => draft'[d] = draft[d] /\ job'[d] = job[d]
    BY <1>2 DEF CreateQueued, RowsOK
  <2>2. draft'[c] = "queued" /\ facts[c] = 0 /\ UNCHANGED <<facts, handler, retry>>
    BY <1>2 DEF CreateQueued, RowsOK, ConfirmInv
  <2>3. \A h \in Handlers : handler[h].cap = c => handler[h].op = "none"
    BY <1>2 DEF CreateQueued, RequestsOK
  <2> QED BY <2>1, <2>2, <2>3 DEF ConfirmInv, Over, CancelOK, Proposed
<1>3. ASSUME NEW c \in Captures, CreateSync(c) PROVE ConfirmInv'
  <2>1. \A d \in Captures : d # c => draft'[d] = draft[d]
    BY <1>3 DEF CreateSync, RowsOK
  <2>2. /\ draft'[c] \in Proposed /\ facts[c] = 0 /\ Over(c)
        /\ UNCHANGED <<facts, handler, job, retry>>
    BY <1>3 DEF CreateSync, RowsOK, ConfirmInv, Over
  <2> QED BY <2>1, <2>2 DEF ConfirmInv, Over, CancelOK, Proposed
<1>4. ASSUME NEW h \in Handlers, NEW c \in Captures, CancelRead(h, c) \/ ConfirmRead(h, c)
      PROVE  ConfirmInv'
  <2>1. /\ UNCHANGED <<draft, job, facts, retry>> /\ handler'[h].cap = c
        /\ \A g \in Handlers : g # h => handler'[g].op = "none"
    BY <1>4 DEF CancelRead, ConfirmRead, RequestsOK, RequestsApart
  <2>2. /\ handler'[h].op \in {"confirm", "cancel"}
        /\ handler'[h].op = "confirm" => facts[c] = 0 /\ Over(c)
    BY <1>4 DEF CancelRead, ConfirmRead, RequestsOK, ConfirmInv
  <2>3. CASE handler'[h].op = "cancel"
    <3> DEFINE open == job[c].status \in InFlight
    <3>1. handler' = [handler EXCEPT ![h] = [op |-> "cancel", cap |-> c, draft |-> draft[c],
                                            jobOpen |-> open]]
      BY <1>4, <2>3 DEF CancelRead, ConfirmRead, RequestsOK
    <3>2. open => facts[c] = 0 /\ draft[c] # "cancelled"
      BY DEF ConfirmInv, Over, InFlight
    <3>3. (open <=> TRUE) => open = TRUE
      OBVIOUS
    <3>4. (open <=> FALSE) => open = FALSE
      OBVIOUS
    <3>5. open = TRUE \/ open = FALSE
      BY <3>3, <3>4
    <3>6. open = FALSE => job[c].status \notin InFlight
      OBVIOUS
    <3>7. open = TRUE => facts[c] = 0 /\ draft[c] # "cancelled"
      BY <3>2
    <3> HIDE DEF open
    <3>8. handler'[h].draft = draft[c] /\ handler'[h].jobOpen = open
      BY <3>1 DEF RequestsOK
    <3>9. CancelOK(c, h)'
      BY <2>1, <3>5, <3>6, <3>7, <3>8 DEF CancelOK
    <3> QED
      BY <2>1, <2>3, <3>9 DEF ConfirmInv, Over
  <2> QED
    BY <2>1, <2>2, <2>3 DEF ConfirmInv, Over
<1>5. ASSUME NEW h \in Handlers, CancelCommit(h) PROVE ConfirmInv'
  <2> DEFINE c == handler[h].cap
  <2>1. c \in Captures /\ retry = NoRetry /\ \A g \in Handlers : handler'[g].op = "none"
    BY <1>5 DEF CancelCommit, RequestsOK, RequestsApart, IdleHandler
  <2>2. CancelOK(c, h) /\ UNCHANGED <<facts, retry>>
    BY <1>5, <2>1 DEF CancelCommit, ConfirmInv
  <2>3. \A d \in Captures : d # c => draft'[d] = draft[d] /\ job'[d] = job[d]
    BY <1>5 DEF CancelCommit, RowsOK
  <2>4. CASE handler[h].jobOpen
    <3>1. draft'[c] = "cancelled" /\ job'[c].status = "failed" /\ facts[c] = 0
      BY <1>5, <2>1, <2>2, <2>4 DEF CancelCommit, RowsOK, CancelOK, JobRow
    <3> HIDE DEF c
    <3> QED
      BY <2>1, <2>2, <2>3, <3>1, CaptureActors
         DEF ConfirmInv, Over, InFlight, Proposed, NoRetry
  <2>5. CASE ~handler[h].jobOpen
    <3>1. job' = job /\ job[c].status \notin InFlight /\ draft'[c] \in {draft[c], "cancelled"}
          /\ draft[c] # "absent"
      BY <1>5, <2>1, <2>2, <2>5 DEF CancelCommit, RowsOK, CancelOK, RequestsOK
    <3> HIDE DEF c
    <3> QED
      BY <2>1, <2>2, <2>3, <3>1, CaptureActors
         DEF ConfirmInv, Over, Proposed, NoRetry
  <2> QED BY <2>4, <2>5
<1>6. ASSUME NEW h \in Handlers, ConfirmCommit(h) PROVE ConfirmInv'
  <2> DEFINE c == handler[h].cap
  <2>1. /\ c \in Captures /\ retry = NoRetry /\ retry' = retry
        /\ \A g \in Handlers : handler'[g].op = "none"
    BY <1>6 DEF ConfirmCommit, RequestsOK, RequestsApart, IdleHandler
  <2>2. facts[c] = 0 /\ Over(c)
    BY <1>6, <2>1 DEF ConfirmCommit, ConfirmInv
  <2>3. /\ job' = job /\ draft'[c] = "confirmed" /\ facts'[c] = 1
        /\ \A d \in Captures : d # c => draft'[d] = draft[d] /\ facts'[d] = facts[d]
    BY <1>6, <2>1, <2>2 DEF ConfirmCommit, RowsOK
  <2> HIDE DEF c
  <2> QED BY <2>1, <2>2, <2>3, CaptureActors DEF ConfirmInv, Over, Proposed, NoRetry
<1>7. ASSUME NEW h \in Handlers, ConfirmRefused(h) PROVE ConfirmInv'
  <2>1. \A g \in Handlers : handler'[g].op = "none"
    BY <1>7 DEF ConfirmRefused, RequestsOK, RequestsApart, IdleHandler
  <2> QED BY <1>7, <2>1 DEF ConfirmRefused, ConfirmInv, Over
<1>8. ASSUME NEW c \in Captures, RetryRead(c) PROVE ConfirmInv'
  <2>1. retry'.cap = c /\ draft[c] # "cancelled" /\ UNCHANGED <<draft, job, facts, handler>>
    BY <1>8 DEF RetryRead
  <2> QED BY <2>1 DEF ConfirmInv, Over, CancelOK
<1>9. ASSUME NEW c \in Captures, RetryCommit(c) PROVE ConfirmInv'
  <2>1. \A d \in Captures : d # c => job'[d] = job[d] /\ draft'[d] = draft[d]
    BY <1>9, SetRetriedJob DEF RetryCommit, RowsOK
  <2>2. /\ job[c].status = "failed" /\ draft'[c] \in {draft[c], "queued"}
        /\ draft[c] \notin {"absent", "cancelled"} \cup Proposed
    BY <1>9 DEF RetryCommit, RowsOK, FlightInv, RetryHolds, ConfirmInv, RequestsOK, Over
  <2>3. /\ UNCHANGED <<facts, handler>> /\ retry' = NoRetry
        /\ \A h \in Handlers : handler[h].op = "none"
    BY <1>9, CaptureActors DEF RetryCommit, RequestsApart, NoRetry
  <2> QED
    BY <2>1, <2>2, <2>3, CaptureActors DEF ConfirmInv, Over, Proposed, NoRetry
<1>10. ASSUME NEW w \in Workers, FailExhausted(w) PROVE ConfirmInv'
  <2>1. \A d \in Captures : draft'[d] = draft[d] \/ draft'[d] = "failed"
    BY <1>10 DEF FailExhausted
  <2>2. \A d \in Captures : job'[d] = job[d] \/ job[d].status = "processing"
    BY <1>10 DEF FailExhausted, Exhausted
  <2> QED
    BY <1>10, <2>1, <2>2, WorkersKeepConfirmInv DEF FailExhausted, InFlight
<1>11. ASSUME NEW w \in Workers, Claim(w) PROVE ConfirmInv'
  <2> DEFINE c == worker[w].cap
  <2>1. c \in Captures /\ worker[w].seen.status \in InFlight
    BY <1>11 DEF Claim, WorkerOK, OnJob
  <2>2. \A d \in Captures : job'[d] = job[d] \/ job[d].status \in InFlight
    BY <1>11, <2>1 DEF Claim, RowsOK, Unmoved
  <2> QED BY <1>11, <2>2, WorkersKeepConfirmInv DEF Claim
<1>12. ASSUME NEW w \in Workers, NEW outcome \in Proposed,
              ReadDraft(w) \/ Publish(w, outcome) \/ FailAttempt(w)
       PROVE  ConfirmInv'
  <2> DEFINE c == worker[w].cap
  <2>1. c \in Captures
    BY <1>12 DEF ReadDraft, Publish, FailAttempt, WorkerOK, OnJob
  <2>2. /\ \/ UNCHANGED <<job, closed>>
           \/ Finalize(w, c, "completed")
           \/ Finalize(w, c, "failed")
        /\ UNCHANGED <<facts, handler, retry>>
    BY <1>12 DEF ReadDraft, Publish, FailAttempt
  <2>3. \A d \in Captures : \/ draft'[d] = draft[d] \/ draft'[d] = "failed"
                            \/ /\ Finalize(w, c, "completed")
                               /\ OwnsLease(w, c) /\ d = c /\ draft'[d] = outcome
    <3>1. CASE ReadDraft(w)
      BY <3>1 DEF ReadDraft
    <3>2. CASE Publish(w, outcome)
      BY <3>2, <2>1 DEF Publish, RowsOK
    <3>3. CASE FailAttempt(w)
      BY <3>3, <2>1 DEF FailAttempt, RowsOK
    <3> QED BY <1>12, <3>1, <3>2, <3>3
  <2> HIDE DEF c
  <2>4. \A d \in Captures : job'[d] = job[d] \/ job[d].status = "processing"
    BY <2>1, <2>2, FinalizeEffect DEF Terminal
  <2>5. ASSUME Finalize(w, c, "completed"), OwnsLease(w, c)
        PROVE  job[c].status = "processing" /\ job'[c].status = "completed"
    BY <2>1, <2>5, FinalizeEffect DEF Terminal
  <2> QED
    BY <2>1, <2>2, <2>3, <2>4, <2>5, WorkersKeepConfirmInv DEF InFlight
<1>13. ASSUME NEW w \in Workers, Start(w) PROVE ConfirmInv'
  <2>1. \A d \in Captures : draft'[d] = draft[d] \/ draft'[d] = "processing"
    BY <1>13 DEF Start, RowsOK
  <2> QED BY <1>13, <2>1, WorkersKeepConfirmInv DEF Start
<1>14. ASSUME NEW c \in Captures, Elapse(c) PROVE ConfirmInv'
  <2>1. \A d \in Captures : job'[d].status = job[d].status
    BY <1>14 DEF Elapse, RowsOK, JobRow
  <2> QED BY <1>14, <2>1, WorkersKeepConfirmInv DEF Elapse
<1>15. ASSUME NEW w \in Workers, WorkerStep(w) \/ Crash(w) PROVE ConfirmInv'
  BY <1>1, <1>10, <1>11, <1>12, <1>13, <1>15
     DEF WorkerStep, ListClaimable, TakeTask, Observe, Refresh, Crash, Proposed
<1>16. ASSUME NEW c \in Captures, Request(c) \/ RetryCommit(c) \/ Elapse(c) \/ LoseTask(c)
       PROVE  ConfirmInv'
  BY <1>1, <1>2, <1>3, <1>4, <1>8, <1>9, <1>14, <1>16 DEF Request, LoseTask
<1> QED
  BY <1>1, <1>5, <1>6, <1>7, <1>15, <1>16 DEF Next, vars

(* While the household sends one request at a time, the facts of an upload  *)
(* are created at most once, whatever workers, reclaims, retries and        *)
(* crashes do (the status guards of _confirm_capture_items, cancel_capture  *)
(* and retry_capture).                                                      *)
THEOREM CaptureFactsInSequence == Spec => FactsOnceInSequence
<1>1. ConfirmInv => FactsCreatedOnce
  <2> SUFFICES ASSUME ConfirmInv, NEW c \in Captures PROVE facts[c] <= 1
    BY DEF FactsCreatedOnce
  <2>1. facts[c] \in {0, 1}
    BY DEF ConfirmInv
  <2> QED BY <2>1
<1> QED
  BY <1>1, SpecFlightInv, InitConfirmInv, NextConfirmInv, PTL DEF Spec, FactsOnceInSequence
=============================================================================
