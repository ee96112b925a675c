------------------------- MODULE NotificationOutbox -------------------------
(***************************************************************************)
(* The due-date alerts: worker processes discover the D-1 and D0 events of *)
(* a household's bills into the notification_deliveries outbox, claim each *)
(* row, revalidate, send the e-mail and record the outcome, while the      *)
(* household pays, cancels and changes its preferences.                    *)
(* (app/services/notification_scheduler.py, app/cli/notification_worker.py,*)
(* app/services/email_delivery.py.)                                        *)
(*                                                                         *)
(* One action is one database transaction, the read another one acts on,   *)
(* or the SMTP exchange.  Days are numbers; claimed_at, next_attempt_at and*)
(* send_time_local are kept as whether their moment has come.              *)
(***************************************************************************)
EXTENDS Naturals, FiniteSets

CONSTANTS Bills,        \* obligations
          Recipients,
          DueDate,      \* DueDate[b]: the day b is due; never edited
          LastDay,      \* bound: days
          Workers,      \* processes running python -m app.cli.notification_worker
          NoEvent,
          MaxAttempts,  \* notification_delivery_max_attempts
          MaxEdits,     \* bound: changes the household makes
          MaxCrashes    \* bound: crashes of a worker

ASSUME OutboxBounds ==
    /\ MaxEdits \in Nat /\ MaxCrashes \in Nat
    /\ LastDay \in Nat \ {0} /\ MaxAttempts \in Nat \ {0}
    /\ DueDate \in [Bills -> Nat]

Kinds == {"d1", "d0"}
Events == [bill : Bills, to : Recipients, kind : Kinds]

ASSUME OutboxActors == NoEvent \notin Events /\ IsFiniteSet(Workers)

Status == {"none", "pending", "sending", "sent", "failed", "canceled"}
Terminal == {"sent", "failed", "canceled"}   \* TERMINAL_STATUSES
Answers == {"ok", "transient", "permanent"}  \* what SmtpEmailAdapter.send reports

VARIABLES
    today,    \* the household's local day
    reached,  \* send_time_reached
    enabled,  \* NotificationSettings.enabled
    bill,     \* bill[b]: Obligation.status
    wants,    \* wants[p]: the alerts p gets, none when inactive or deleted
    row,      \* row[e]: NotificationDelivery status, attempts; stale: claimed_at
              \* < stale_cutoff; held: next_attempt_at > now
    worker,   \* worker[w]: where a pass is and what it has read
    edits, crashes,
    mails,    \* history: mails[e], e-mails the SMTP server accepted
    doubts,   \* history: doubts[e], leases that went stale and answers that
              \* reported a failure for an accepted e-mail
    closed    \* history: closed[e], attempts that left "sending" for good

vars == <<today, reached, enabled, bill, wants, row, worker, edits, crashes,
          mails, doubts, closed>>
household == <<today, reached, enabled, bill, wants, edits>>

NoSeen == [status |-> "none", attempts |-> 0]
IdleWorker == [pc |-> "idle", todo |-> {}, event |-> NoEvent, seen |-> NoSeen,
               lease |-> 0, answer |-> "ok"]

Init ==
    /\ today = 1 /\ reached = FALSE /\ enabled = TRUE
    /\ bill = [b \in Bills |-> "pending"]
    /\ wants = [p \in Recipients |-> Kinds]
    /\ row = [e \in Events |-> [status |-> "none", attempts |-> 0,
                                stale |-> FALSE, held |-> FALSE]]
    /\ worker = [w \in Workers |-> IdleWorker]
    /\ edits = 0 /\ crashes = 0
    /\ mails = [e \in Events |-> 0]
    /\ doubts = [e \in Events |-> 0]
    /\ closed = [e \in Events |-> {}]

-----------------------------------------------------------------------------
(* The household and the clock *)

Edit ==
    /\ edits < MaxEdits
    /\ edits' = edits + 1
    /\ UNCHANGED <<today, reached, row, worker, crashes, mails, doubts, closed>>

(* pay_obligation, unpay_obligation, delete_obligation (refused once paid). *)
ChangeBill(b) ==
    /\ Edit
    /\ \/ bill[b] = "pending" /\ bill' = [bill EXCEPT ![b] = "paid"]
       \/ bill[b] = "paid" /\ bill' = [bill EXCEPT ![b] = "pending"]
       \/ bill[b] = "pending" /\ bill' = [bill EXCEPT ![b] = "cancelled"]
    /\ UNCHANGED <<enabled, wants>>

(* update_notification_recipient, delete_notification_recipient.            *)
ChangeRecipient(p) ==
    /\ Edit
    /\ \E kinds \in SUBSET Kinds : kinds # wants[p] /\ wants' = [wants EXCEPT ![p] = kinds]
    /\ UNCHANGED <<enabled, bill>>

(* update_notification_settings. *)
ChangeSettings ==
    /\ Edit
    /\ enabled' = ~enabled
    /\ UNCHANGED <<bill, wants>>

SendTime ==
    /\ ~reached
    /\ reached' = TRUE
    /\ UNCHANGED <<today, enabled, bill, wants, row, worker, edits, crashes, mails,
                   doubts, closed>>

Midnight ==
    /\ today < LastDay
    /\ today' = today + 1
    /\ reached' = FALSE
    /\ UNCHANGED <<enabled, bill, wants, row, worker, edits, crashes, mails, doubts, closed>>

(* notification_delivery_stale_after_seconds pass since a claim. *)
Elapse(e) ==
    /\ row[e].status = "sending" /\ ~row[e].stale
    /\ row' = [row EXCEPT ![e].stale = TRUE]
    /\ doubts' = [doubts EXCEPT ![e] = @ + 1]
    /\ UNCHANGED <<household, worker, crashes, mails, closed>>

(* next_attempt_at arrives. *)
BackoffEnds(e) ==
    /\ row[e].held
    /\ row' = [row EXCEPT ![e].held = FALSE]
    /\ UNCHANGED <<household, worker, crashes, mails, doubts, closed>>

-----------------------------------------------------------------------------
(* run_once *)

ExhaustedBeyond(e) ==   \* mutant: > for >=
    row[e].status = "sending" /\ row[e].stale /\ row[e].attempts > MaxAttempts

Exhausted(e) ==
    row[e].status = "sending" /\ row[e].stale /\ row[e].attempts >= MaxAttempts

(* fail_exhausted_stale_deliveries *)
FailExhausted(w) ==
    /\ worker[w].pc = "idle"
    /\ row' = [e \in Events |->
                 IF Exhausted(e) THEN [row[e] EXCEPT !.status = "failed"] ELSE row[e]]
    /\ closed' = [e \in Events |->
                    IF Exhausted(e) THEN closed[e] \cup {row[e].attempts} ELSE closed[e]]
    /\ worker' = [worker EXCEPT ![w].pc = "swept"]
    /\ UNCHANGED <<household, crashes, mails, doubts>>

(* _eligible_obligations and the recipient's preference. *)
DueNow(e) ==
    /\ bill[e.bill] = "pending"
    /\ DueDate[e.bill] = IF e.kind = "d0" THEN today ELSE today + 1
    /\ e.kind \in wants[e.to]

(* discover_due_deliveries: uq_notification_delivery_event keeps the row of *)
(* an event that has one.                                                   *)
Discover(w) ==
    /\ worker[w].pc = "swept"
    /\ row' = [e \in Events |->
                 IF enabled /\ reached /\ DueNow(e) /\ row[e].status = "none"
                 THEN [row[e] EXCEPT !.status = "pending"] ELSE row[e]]
    /\ worker' = [worker EXCEPT ![w].pc = "discovered"]
    /\ UNCHANGED <<household, crashes, mails, doubts, closed>>

(* The pass goes on with its list, or sleeps until the next poll. *)
Continue(w, todo) ==
    worker' = [worker EXCEPT ![w] =
                 IF todo = {} THEN IdleWorker
                 ELSE [IdleWorker EXCEPT !.pc = "running", !.todo = todo]]

(* find_claimable_delivery_ids *)
ListClaimable(w) ==
    /\ worker[w].pc = "discovered"
    /\ Continue(w, {e \in Events :
                      \/ row[e].status = "pending" /\ ~row[e].held
                      \/ /\ row[e].status = "sending" /\ row[e].stale
                         /\ row[e].attempts < MaxAttempts})
    /\ UNCHANGED <<household, row, crashes, mails, doubts, closed>>

ObserveEarly(w, e) ==   \* mutant: next_attempt_at is not looked at
    /\ worker[w].pc = "running" /\ e \in worker[w].todo
    /\ IF row[e].status = "pending" \/ (row[e].status = "sending" /\ row[e].stale)
       THEN worker' = [worker EXCEPT ![w].pc = "observed", ![w].todo = @ \ {e},
                         ![w].event = e,
                         ![w].seen = [status |-> row[e].status,
                                      attempts |-> row[e].attempts]]
       ELSE Continue(w, worker[w].todo \ {e})
    /\ UNCHANGED <<household, row, crashes, mails, doubts, closed>>

(* claim_delivery, the read. *)
Observe(w, e) ==
    /\ worker[w].pc = "running" /\ e \in worker[w].todo
    /\ IF \/ row[e].status = "pending" /\ ~row[e].held
          \/ row[e].status = "sending" /\ row[e].stale
       THEN worker' = [worker EXCEPT ![w].pc = "observed", ![w].todo = @ \ {e},
                         ![w].event = e,
                         ![w].seen = [status |-> row[e].status,
                                      attempts |-> row[e].attempts]]
       ELSE Continue(w, worker[w].todo \ {e})
    /\ UNCHANGED <<household, row, crashes, mails, doubts, closed>>

UnmovedStatus(w, e) ==   \* mutant: the claim compares the status alone
    row[e].status = worker[w].seen.status

Unmoved(w, e) ==
    row[e].status = worker[w].seen.status /\ row[e].attempts = worker[w].seen.attempts

(* claim_delivery, the UPDATE whose WHERE repeats what was observed. *)
Claim(w) ==
    LET e == worker[w].event IN
    /\ worker[w].pc = "observed"
    /\ IF Unmoved(w, e)
       THEN /\ row' = [row EXCEPT ![e] = [status |-> "sending", attempts |-> @.attempts + 1,
                                          stale |-> FALSE, held |-> @.held]]
            /\ worker' = [worker EXCEPT ![w].pc = "claimed", ![w].seen = NoSeen]
       ELSE Continue(w, worker[w].todo) /\ UNCHANGED row
    /\ UNCHANGED <<household, crashes, mails, doubts, closed>>

(* claim_delivery, db.refresh(delivery) after the commit. *)
Refresh(w) ==
    /\ worker[w].pc = "claimed"
    /\ worker' = [worker EXCEPT ![w].pc = "leased",
                                ![w].lease = row[worker[w].event].attempts]
    /\ UNCHANGED <<household, row, crashes, mails, doubts, closed>>

OwnsByAttempt(w, e) ==   \* mutant: the status is not compared
    row[e].attempts = worker[w].lease

OwnsByStatus(w, e) ==    \* mutant: the attempts are not compared
    row[e].status = "sending"

(* The compare-and-swap of the three finalize functions. *)
Owns(w, e) == row[e].status = "sending" /\ row[e].attempts = worker[w].lease

Finalize(w, e, status, held) ==
    IF Owns(w, e)
    THEN /\ row' = [row EXCEPT ![e].status = status, ![e].held = held]
         /\ closed' = [closed EXCEPT ![e] = @ \cup {worker[w].lease}]
    ELSE UNCHANGED <<row, closed>>

(* is_obligation_still_eligible and is_recipient_still_eligible: neither    *)
(* the day nor the settings are looked at again.                            *)
StillEligible(e) == bill[e.bill] = "pending" /\ e.kind \in wants[e.to]

(* _process_claimed_delivery: cancel, or go on to the SMTP server. *)
Revalidate(w) ==
    LET e == worker[w].event IN
    /\ worker[w].pc = "leased"
    /\ IF StillEligible(e)
       THEN worker' = [worker EXCEPT ![w].pc = "connecting"] /\ UNCHANGED <<row, closed>>
       ELSE Finalize(w, e, "canceled", FALSE) /\ Continue(w, worker[w].todo)
    /\ UNCHANGED <<household, crashes, mails, doubts>>

(* SmtpEmailAdapter.send.  A time-out may hide an accepted e-mail. *)
Smtp(w) ==
    LET e == worker[w].event IN
    /\ worker[w].pc = "connecting"
    /\ \E answer \in Answers, accepted \in BOOLEAN :
         /\ answer = "ok" => accepted
         /\ answer = "permanent" => ~accepted
         /\ mails' = IF accepted THEN [mails EXCEPT ![e] = @ + 1] ELSE mails
         /\ doubts' = IF accepted /\ answer # "ok" THEN [doubts EXCEPT ![e] = @ + 1]
                      ELSE doubts
         /\ worker' = [worker EXCEPT ![w].pc = "answered", ![w].answer = answer]
    /\ UNCHANGED <<household, row, crashes, closed>>

(* Terminal, or a bounded retry after the backoff. *)
Retries(w) == worker[w].answer = "transient" /\ worker[w].lease < MaxAttempts

(* finalize_sent, finalize_retry_or_fail. *)
Record(w) ==
    LET e == worker[w].event IN
    /\ worker[w].pc = "answered"
    /\ CASE worker[w].answer = "ok" -> Finalize(w, e, "sent", FALSE)
         [] Retries(w) -> Finalize(w, e, "pending", TRUE)
         [] OTHER -> Finalize(w, e, "failed", FALSE)
    /\ Continue(w, worker[w].todo)
    /\ UNCHANGED <<household, crashes, mails, doubts>>

(* The process dies, or an exception ends its pass; it is started again.    *)
Crash(w) ==
    /\ worker[w].pc # "idle"
    /\ crashes < MaxCrashes
    /\ crashes' = crashes + 1
    /\ worker' = [worker EXCEPT ![w] = IdleWorker]
    /\ UNCHANGED <<household, row, mails, doubts, closed>>

-----------------------------------------------------------------------------
Pass(w) ==
    \/ FailExhausted(w) \/ Discover(w) \/ ListClaimable(w)
    \/ \E e \in Events : Observe(w, e)
    \/ Claim(w) \/ Refresh(w) \/ Revalidate(w) \/ Smtp(w) \/ Record(w)

Household ==
    \/ \E b \in Bills : ChangeBill(b)
    \/ \E p \in Recipients : ChangeRecipient(p)
    \/ ChangeSettings

Clock ==
    \/ SendTime \/ Midnight
    \/ \E e \in Events : Elapse(e) \/ BackoffEnds(e)

Next == Household \/ Clock \/ \E w \in Workers : Pass(w) \/ Crash(w)

Spec == Init /\ [][Next]_vars

(* A worker polls for ever and is restarted (compose: unless-stopped), the  *)
(* SMTP exchange times out, and time passes.                                *)
Fairness ==
    /\ \A w \in Workers : WF_vars(Pass(w))
    /\ \A e \in Events : WF_vars(Elapse(e)) /\ WF_vars(BackoffEnds(e))

FairSpec == Spec /\ Fairness

-----------------------------------------------------------------------------
Row == [status : Status, attempts : Nat, stale : BOOLEAN, held : BOOLEAN]
OnEvent == {"observed", "claimed", "leased", "connecting", "answered"}
WorkerState == [pc : {"idle", "swept", "discovered", "running"} \cup OnEvent,
                todo : SUBSET Events, event : Events \cup {NoEvent},
                seen : [status : Status, attempts : Nat], lease : Nat, answer : Answers]

(* Type invariant; a worker past the list is on an event, and a row waits   *)
(* for its next attempt only while it may have one.                         *)
TypeOK ==
    /\ today \in 1 .. LastDay /\ reached \in BOOLEAN /\ enabled \in BOOLEAN
    /\ bill \in [Bills -> {"pending", "paid", "cancelled"}]
    /\ wants \in [Recipients -> SUBSET Kinds]
    /\ row \in [Events -> Row]
    /\ worker \in [Workers -> WorkerState]
    /\ \A w \in Workers : worker[w].pc \in OnEvent => worker[w].event \in Events
    /\ edits \in 0 .. MaxEdits /\ crashes \in 0 .. MaxCrashes
    /\ mails \in [Events -> Nat] /\ doubts \in [Events -> Nat]
    /\ closed \in [Events -> SUBSET Nat]
    /\ \A e \in Events : row[e].held => row[e].status = "pending"

(* A finished delivery stays as it is: nothing re-opens a sent, failed or   *)
(* canceled row, whatever stale lists and late answers the workers still    *)
(* hold (the compare-and-swap of claim and finalize).                       *)
FinishedStays ==
    [][\A e \in Events : row[e].status \in Terminal => row'[e].status = row[e].status]_vars

(* One alert is one e-mail unless a lease went stale or the SMTP server     *)
(* accepted what it reported as failed: each further e-mail of an event has *)
(* a cause of its own, with any overlap of passes, crashes and retries.     *)
DuplicatesHaveACause ==
    \A e \in Events : mails[e] <= 1 + doubts[e]

(* AttemptLease, with an attempt closed when its row leaves "sending".      *)
Attempts == [e \in Events |-> row[e].attempts]
Shown == [e \in Events |-> IF row[e].status = "sent" THEN row[e].attempts ELSE 0]
Lease == INSTANCE AttemptLease WITH Items <- Events, granted <- Attempts, shown <- Shown

(* Each attempt is recorded at most once and only while it is the newest,   *)
(* and an event is sent by the step that records its last attempt.          *)
ImplementsLease == Lease!LeaseSpec

(* Every discovered alert ends, after crashes, lost leases and failures.    *)
DeliveriesEnd == \A e \in Events : row[e].status = "pending" ~> row[e].status \in Terminal

(* "não enviar retroativamente D-1 em dias posteriores": a D-1 e-mail goes  *)
(* out on the day before the bill is due (discover_due_deliveries).         *)
D1OnItsDay ==
    [][\A e \in Events : e.kind = "d1" /\ mails'[e] > mails[e] =>
         DueDate[e.bill] = today + 1]_vars
=============================================================================
