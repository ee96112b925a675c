------------------------ MODULE NotificationOutboxProofs ------------------------
(***************************************************************************)
(* Proofs about NotificationOutbox for any bills, recipients and workers   *)
(* (finitely many) and any bounds.                                         *)
(***************************************************************************)
EXTENDS NotificationOutbox, FiniteSetTheorems, TLAPS

(* TypeOK in four parts: the two flags, the rest of the household's state,  *)
(* the outbox with its workers, and the rows that wait.                     *)
FlagsOK == reached \in BOOLEAN /\ enabled \in BOOLEAN

HouseholdOK ==
    /\ today \in 1 .. LastDay
    /\ bill \in [Bills -> {"pending", "paid", "cancelled"}]
    /\ wants \in [Recipients -> SUBSET Kinds]
    /\ edits \in 0 .. MaxEdits

OutboxOK ==
    /\ row \in [Events -> Row]
    /\ worker \in [Workers -> WorkerState]
    /\ \A w \in Workers : worker[w].pc \in OnEvent => worker[w].event \in Events
    /\ crashes \in 0 .. MaxCrashes
    /\ mails \in [Events -> Nat] /\ doubts \in [Events -> Nat]
    /\ closed \in [Events -> SUBSET Nat]

(* A row waits for its next attempt only while pending. *)
HeldOK == \A e \in Events : row[e].held => row[e].status = "pending"

LEMMA TypeParts == TypeOK <=> FlagsOK /\ HouseholdOK /\ OutboxOK /\ HeldOK
  BY DEF TypeOK, FlagsOK, HouseholdOK, OutboxOK, HeldOK

LEMMA TypePartsNext == FlagsOK' /\ HouseholdOK' /\ OutboxOK' /\ HeldOK' => TypeOK'
  BY Zenon DEF TypeOK, FlagsOK, HouseholdOK, OutboxOK, HeldOK

LEMMA IdleType ==
  /\ IdleWorker \in WorkerState /\ IdleWorker.pc = "idle" /\ IdleWorker.event = NoEvent
  /\ NoSeen \in [status : Status, attempts : Nat]
  BY DEF IdleWorker, NoSeen, WorkerState, Status, Answers

LEMMA InitType == Init => TypeOK
<1> SUFFICES ASSUME Init PROVE FlagsOK /\ HouseholdOK /\ OutboxOK /\ HeldOK
  BY TypeParts
<1>5. FlagsOK
  BY Zenon DEF Init, FlagsOK
<1>1. HouseholdOK
  BY OutboxBounds DEF Init, HouseholdOK
<1>2. row \in [Events -> Row] /\ \A e \in Events : ~row[e].held
  BY DEF Init, Row, Status
<1>3. worker \in [Workers -> WorkerState] /\ \A w \in Workers : worker[w].pc = "idle"
  BY IdleType DEF Init
<1>4. crashes \in 0 .. MaxCrashes
  BY OutboxBounds DEF Init
<1> QED
  BY <1>1, <1>2, <1>3, <1>4, <1>5 DEF Init, OutboxOK, HeldOK, OnEvent

(* The household and the calendar touch nothing of the outbox.              *)
LEMMA HouseholdType ==
  ASSUME TypeOK, Household \/ SendTime \/ Midnight
  PROVE  TypeOK'
<1> USE TypeParts
<1>1. UNCHANGED <<row, worker, crashes, mails, doubts, closed>>
  BY DEF Household, ChangeBill, ChangeRecipient, ChangeSettings, Edit, SendTime, Midnight
<1>2. OutboxOK' /\ HeldOK'
  BY <1>1 DEF OutboxOK, HeldOK
<1>3. FlagsOK'
  BY Zenon DEF Household, ChangeBill, ChangeRecipient, ChangeSettings, SendTime, Midnight,
     FlagsOK, Edit
<1>4. HouseholdOK'
  <2>1. ASSUME Edit PROVE edits' \in 0 .. MaxEdits /\ today' = today
    BY <2>1, OutboxBounds DEF Edit, HouseholdOK
  <2>2. ASSUME NEW b \in Bills, ChangeBill(b) PROVE HouseholdOK'
    BY <2>1, <2>2 DEF ChangeBill, HouseholdOK
  <2>3. ASSUME NEW p \in Recipients, ChangeRecipient(p) PROVE HouseholdOK'
    BY <2>1, <2>3 DEF ChangeRecipient, HouseholdOK
  <2>4. ASSUME ChangeSettings PROVE HouseholdOK'
    <3>1. Edit /\ bill' = bill /\ wants' = wants
      BY <2>4, Zenon DEF ChangeSettings
    <3> QED BY <2>1, <3>1, Zenon DEF HouseholdOK
  <2>5. ASSUME SendTime PROVE HouseholdOK'
    BY <2>5, Zenon DEF SendTime, HouseholdOK
  <2>6. CASE Midnight
    <3>1. today' = today + 1 /\ today < LastDay /\ UNCHANGED <<bill, wants, edits>>
      BY <2>6 DEF Midnight
    <3> QED BY <3>1, OutboxBounds DEF HouseholdOK
  <2> QED BY <2>2, <2>3, <2>4, <2>5, <2>6 DEF Household
<1> QED
  BY <1>2, <1>3, <1>4, TypePartsNext, Zenon

LEMMA SameHousehold ==
  ASSUME TypeOK, UNCHANGED household, OutboxOK', HeldOK'
  PROVE  TypeOK'
<1>1. FlagsOK'
  BY TypeParts, Zenon DEF household, FlagsOK
<1>2. today' = today /\ bill' = bill /\ wants' = wants /\ edits' = edits
  BY Zenon DEF household
<1>3. HouseholdOK
  BY TypeParts
<1>4. HouseholdOK'
  BY <1>2, <1>3, Zenon DEF HouseholdOK
<1> QED
  BY <1>1, <1>4, TypePartsNext, Zenon

LEMMA ContinueType ==
  ASSUME OutboxOK, NEW w \in Workers, NEW todo \in SUBSET Events, Continue(w, todo)
  PROVE  /\ worker' \in [Workers -> WorkerState]
         /\ \A v \in Workers : worker'[v].pc \in OnEvent => worker'[v].event \in Events
         /\ worker'[w].pc \notin OnEvent /\ worker'[w].event = NoEvent
         /\ \A v \in Workers : v # w => worker'[v] = worker[v]
<1> DEFINE s == IF todo = {} THEN IdleWorker
                ELSE [IdleWorker EXCEPT !.pc = "running", !.todo = todo]
<1>1. s \in WorkerState /\ s.pc \in {"idle", "running"} /\ s.event = NoEvent
  BY IdleType DEF WorkerState, IdleWorker
<1>2. worker' = [worker EXCEPT ![w] = s]
  BY DEF Continue
<1> QED
  BY <1>1, <1>2 DEF OutboxOK, OnEvent

LEMMA SetRow ==
  ASSUME OutboxOK, NEW e \in Events, NEW r \in Row, row' = [row EXCEPT ![e] = r]
  PROVE  row' \in [Events -> Row] /\ row'[e] = r /\ \A f \in Events \ {e} : row'[f] = row[f]
  BY DEF OutboxOK

LEMMA SetWorker ==
  ASSUME OutboxOK, NEW w \in Workers, NEW x \in WorkerState,
         x.pc \in OnEvent => x.event \in Events,
         worker' = [worker EXCEPT ![w] = x]
  PROVE  /\ worker' \in [Workers -> WorkerState]
         /\ \A v \in Workers : worker'[v].pc \in OnEvent => worker'[v].event \in Events
         /\ worker'[w] = x /\ \A v \in Workers \ {w} : worker'[v] = worker[v]
  BY DEF OutboxOK

(* finalize_sent, finalize_canceled, finalize_retry_or_fail. *)
LEMMA FinalizeType ==
  ASSUME OutboxOK, NEW w \in Workers, NEW e \in Events, NEW s \in Status, NEW h \in BOOLEAN,
         Finalize(w, e, s, h)
  PROVE  row' \in [Events -> Row] /\ closed' \in [Events -> SUBSET Nat]
<1>1. CASE Owns(w, e)
  <2>1. worker[w].lease \in Nat
    BY DEF OutboxOK, WorkerState
  <2>2. closed' \in [Events -> SUBSET Nat]
    BY <1>1, <2>1 DEF Finalize, OutboxOK
  <2>3. row' = [row EXCEPT ![e] = [row[e] EXCEPT !.status = s, !.held = h]]
    BY <1>1 DEF Finalize
  <2>4. [row[e] EXCEPT !.status = s, !.held = h] \in Row
    BY DEF OutboxOK, Row
  <2> QED BY <2>2, <2>3, <2>4, SetRow
<1>2. CASE ~Owns(w, e)
  BY <1>2 DEF Finalize, OutboxOK
<1> QED
  BY <1>1, <1>2

(* What a worker is on, and that its fields are typed. *)
LEMMA WorkerFacts ==
  ASSUME OutboxOK, NEW w \in Workers
  PROVE  /\ worker[w] \in WorkerState
         /\ worker[w].pc \in OnEvent => worker[w].event \in Events
         /\ worker[w].lease \in Nat /\ worker[w].todo \in SUBSET Events
  BY DEF OutboxOK, WorkerState

LEMMA PassType ==
  ASSUME OutboxOK, NEW w \in Workers, Pass(w)
  PROVE  OutboxOK'
<1> DEFINE e == worker[w].event
<1> DEFINE WorkersOK == /\ worker \in [Workers -> WorkerState]
                        /\ \A v \in Workers :
                             worker[v].pc \in OnEvent => worker[v].event \in Events
<1> USE WorkerFacts
<1>1. CASE FailExhausted(w)
  <2>1. row' \in [Events -> Row] /\ closed' \in [Events -> SUBSET Nat]
    BY <1>1 DEF FailExhausted, OutboxOK, Row, Status
  <2>2. WorkersOK'
    BY <1>1 DEF FailExhausted, OutboxOK, WorkerState, OnEvent
  <2> QED BY <1>1, <2>1, <2>2 DEF FailExhausted, OutboxOK
<1>2. CASE Discover(w)
  <2>1. row' \in [Events -> Row]
    BY <1>2 DEF Discover, OutboxOK, Row, Status
  <2>2. WorkersOK'
    BY <1>2 DEF Discover, OutboxOK, WorkerState, OnEvent
  <2> QED BY <1>2, <2>1, <2>2 DEF Discover, OutboxOK
<1>3. CASE ListClaimable(w)
  BY <1>3, ContinueType DEF ListClaimable, OutboxOK
<1>4. ASSUME NEW f \in Events, Observe(w, f) PROVE OutboxOK'
  <2>1. UNCHANGED <<row, crashes, mails, doubts, closed>>
    BY <1>4 DEF Observe
  <2>2. WorkersOK'
    <3>1. CASE Continue(w, worker[w].todo \ {f})
      BY <3>1, ContinueType
    <3> DEFINE seen == [status |-> row[f].status, attempts |-> row[f].attempts]
               x == [worker[w] EXCEPT !.pc = "observed", !.todo = @ \ {f}, !.event = f,
                       !.seen = seen]
    <3>2. CASE worker' = [worker EXCEPT ![w] = x]
      <4>1. seen \in [status : Status, attempts : Nat]
        BY DEF OutboxOK, Row
      <4>2. x \in WorkerState /\ x.event = f
        BY <4>1 DEF WorkerState, OnEvent
      <4> QED BY <3>2, <4>2, SetWorker
    <3> QED BY <1>4, <3>1, <3>2 DEF Observe
  <2> QED BY <2>1, <2>2 DEF OutboxOK
<1>5. CASE Claim(w)
  <2>1. e \in Events
    BY <1>5 DEF Claim, OnEvent
  <2>2. UNCHANGED <<crashes, mails, doubts, closed>>
    BY <1>5 DEF Claim
  <2>3. CASE Unmoved(w, e)
    <3> DEFINE r == [status |-> "sending", attempts |-> row[e].attempts + 1,
                     stale |-> FALSE, held |-> row[e].held]
               x == [worker[w] EXCEPT !.pc = "claimed", !.seen = NoSeen]
    <3>1. row' \in [Events -> Row]
      <4>1. row' = [row EXCEPT ![e] = r]
        BY <1>5, <2>3 DEF Claim
      <4>2. r \in Row
        BY <2>1 DEF OutboxOK, Row, Status
      <4> QED BY <2>1, <4>1, <4>2, SetRow
    <3>2. WorkersOK'
      <4>1. x \in WorkerState /\ x.event = e
        BY IdleType DEF WorkerState, OnEvent
      <4>2. worker' = [worker EXCEPT ![w] = x]
        BY <1>5, <2>3 DEF Claim, OutboxOK
      <4> HIDE DEF x
      <4> QED BY <2>1, <4>1, <4>2, SetWorker
    <3> QED BY <2>2, <3>1, <3>2 DEF OutboxOK
  <2>4. CASE ~Unmoved(w, e)
    BY <1>5, <2>2, <2>4, ContinueType DEF Claim, OutboxOK
  <2> QED BY <2>3, <2>4
<1>6. CASE Refresh(w)
  <2>1. e \in Events
    BY <1>6 DEF Refresh, OnEvent
  <2>2. WorkersOK'
    <3> DEFINE x == [worker[w] EXCEPT !.pc = "leased", !.lease = row[e].attempts]
    <3>1. row[e].attempts \in Nat
      BY <2>1 DEF OutboxOK, Row
    <3>2. x \in WorkerState /\ x.event = e
      BY <3>1 DEF WorkerState, OnEvent
    <3>3. worker' = [worker EXCEPT ![w] = x]
      BY <1>6 DEF Refresh, OutboxOK
    <3> HIDE DEF x
    <3> QED BY <2>1, <3>2, <3>3, SetWorker
  <2> QED BY <1>6, <2>2 DEF Refresh, OutboxOK
<1>7. CASE Revalidate(w)
  <2>1. e \in Events
    BY <1>7 DEF Revalidate, OnEvent
  <2>2. CASE StillEligible(e)
    <3>1. WorkersOK'
      <4> DEFINE x == [worker[w] EXCEPT !.pc = "connecting"]
      <4>1. x \in WorkerState /\ x.event = e
        BY DEF WorkerState, OnEvent
      <4> QED BY <1>7, <2>1, <2>2, <4>1, SetWorker DEF Revalidate
    <3> QED BY <1>7, <2>2, <3>1 DEF Revalidate, OutboxOK
  <2>3. CASE ~StillEligible(e)
    <3>1. Finalize(w, e, "canceled", FALSE) /\ Continue(w, worker[w].todo)
      BY <1>7, <2>3 DEF Revalidate
    <3>2. row' \in [Events -> Row] /\ closed' \in [Events -> SUBSET Nat]
      BY <2>1, <3>1, FinalizeType DEF Status
    <3> QED BY <1>7, <3>1, <3>2, ContinueType DEF Revalidate, OutboxOK
  <2> QED BY <2>2, <2>3
<1>8. CASE Smtp(w)
  <2>1. e \in Events
    BY <1>8 DEF Smtp, OnEvent
  <2>2. PICK answer \in Answers, accepted \in BOOLEAN :
          /\ mails' = IF accepted THEN [mails EXCEPT ![e] = @ + 1] ELSE mails
          /\ doubts' = IF accepted /\ answer # "ok" THEN [doubts EXCEPT ![e] = @ + 1]
                       ELSE doubts
          /\ worker' = [worker EXCEPT ![w].pc = "answered", ![w].answer = answer]
    BY <1>8 DEF Smtp
  <2>3. mails' \in [Events -> Nat] /\ doubts' \in [Events -> Nat]
    BY <2>1, <2>2 DEF OutboxOK
  <2>4. WorkersOK'
    <3> DEFINE x == [worker[w] EXCEPT !.pc = "answered", !.answer = answer]
    <3>1. x \in WorkerState /\ x.event = e
      BY DEF WorkerState, OnEvent
    <3>2. worker' = [worker EXCEPT ![w] = x]
      BY <2>2 DEF OutboxOK
    <3> HIDE DEF x
    <3> QED BY <2>1, <3>1, <3>2, SetWorker
  <2> QED BY <1>8, <2>3, <2>4 DEF Smtp, OutboxOK
<1>9. CASE Record(w)
  <2>1. e \in Events
    BY <1>9 DEF Record, OnEvent
  <2>2. \E s \in Status, h \in BOOLEAN : Finalize(w, e, s, h)
    BY <1>9 DEF Record, Status
  <2>3. row' \in [Events -> Row] /\ closed' \in [Events -> SUBSET Nat]
    BY <2>1, <2>2, FinalizeType
  <2> QED BY <1>9, <2>3, ContinueType DEF Record, OutboxOK
<1> QED
  BY <1>1, <1>2, <1>3, <1>4, <1>5, <1>6, <1>7, <1>8, <1>9 DEF Pass

-----------------------------------------------------------------------------
(* What a claim has observed still fits the row: a row seen pending with    *)
(* the same attempts is pending and due, and one seen "sending" that is     *)
(* still sending the same attempt is still stale.                           *)
SeenFits(s, r) ==
    /\ s.status \in {"pending", "sending"}
    /\ s.attempts <= r.attempts
    /\ s.attempts = r.attempts /\ s.status = "pending" => r.status = "pending" /\ ~r.held
    /\ s.attempts = r.attempts /\ s.status = "sending" /\ r.status = "sending" => r.stale

SeenInv ==
    \A w \in Workers :
      worker[w].pc = "observed" => SeenFits(worker[w].seen, row[worker[w].event])

(* How one row may move in a step. *)
RowKept(e) ==
    /\ row'[e].status = row[e].status /\ row'[e].attempts = row[e].attempts
    /\ row[e].stale => row'[e].stale
    /\ row'[e].held => row[e].held
    /\ closed'[e] = closed[e]
RowDiscovered(e) ==
    /\ row[e].status = "none" /\ row'[e].status = "pending"
    /\ row'[e].attempts = row[e].attempts
    /\ row'[e].held => row[e].held
    /\ closed'[e] = closed[e]
RowClaimed(e) ==
    /\ row[e].status \in {"pending", "sending"} /\ row'[e].status = "sending"
    /\ row'[e].attempts = row[e].attempts + 1
    /\ ~row[e].held /\ ~row'[e].held
    /\ closed'[e] = closed[e]
RowEnded(e, s) ==
    /\ row[e].status = "sending" /\ row'[e].status = s
    /\ row'[e].attempts = row[e].attempts
    /\ row'[e].held => s = "pending"
    /\ closed'[e] = closed[e] \cup {row[e].attempts}

RowQuiet(e) ==
    RowKept(e) \/ RowDiscovered(e) \/ \E s \in {"pending", "failed", "canceled"} : RowEnded(e, s)

RowsStep ==
    \/ \A e \in Events : RowQuiet(e)
    \/ \E e \in Events : /\ RowClaimed(e) \/ RowEnded(e, "sent")
                        /\ \A f \in Events \ {e} : RowKept(f)

LEMMA SameRows == UNCHANGED <<row, closed>> => \A e \in Events : RowKept(e)
  BY DEF RowKept

LEMMA FinalizeStep ==
  ASSUME OutboxOK, NEW w \in Workers, NEW e \in Events, NEW s \in Status, NEW h \in BOOLEAN,
         h => s = "pending", Finalize(w, e, s, h)
  PROVE  \/ UNCHANGED <<row, closed>>
         \/ RowEnded(e, s) /\ \A f \in Events \ {e} : RowKept(f)
<1>1. CASE Owns(w, e)
  <2> DEFINE r == [row[e] EXCEPT !.status = s, !.held = h]
  <2>1. row' = [row EXCEPT ![e] = r]
    BY <1>1 DEF Finalize
  <2>2. r \in Row /\ r.status = s /\ r.held = h /\ r.attempts = row[e].attempts
    BY DEF OutboxOK, Row
  <2>3. closed' = [closed EXCEPT ![e] = @ \cup {row[e].attempts}]
    BY <1>1 DEF Finalize, Owns
  <2> HIDE DEF r
  <2>4. row'[e] = r /\ \A f \in Events \ {e} : row'[f] = row[f]
    BY <2>1, <2>2, SetRow
  <2> QED BY <1>1, <2>2, <2>3, <2>4 DEF RowEnded, RowKept, Owns, OutboxOK
<1>2. CASE ~Owns(w, e)
  BY <1>2 DEF Finalize
<1> QED
  BY <1>1, <1>2

LEMMA PassRows ==
  ASSUME OutboxOK, HeldOK, SeenInv, NEW w \in Workers, Pass(w)
  PROVE  RowsStep
<1> DEFINE e == worker[w].event
<1> USE WorkerFacts
<1>1. CASE FailExhausted(w)
  <2>1. ASSUME NEW f \in Events PROVE RowKept(f) \/ RowEnded(f, "failed")
    <3>1. CASE Exhausted(f)
      BY <1>1, <3>1 DEF FailExhausted, Exhausted, RowEnded, OutboxOK, HeldOK, Row
    <3>2. CASE ~Exhausted(f)
      BY <1>1, <3>2 DEF FailExhausted, RowKept
    <3> QED BY <3>1, <3>2
  <2> QED BY <2>1 DEF RowsStep, RowQuiet
<1>2. CASE Discover(w)
  <2>1. ASSUME NEW f \in Events PROVE RowKept(f) \/ RowDiscovered(f)
    <3>1. CASE row'[f] = row[f]
      BY <1>2, <3>1 DEF Discover, RowKept
    <3>2. CASE row[f].status = "none" /\ row'[f] = [row[f] EXCEPT !.status = "pending"]
      BY <1>2, <3>2 DEF Discover, RowDiscovered, OutboxOK, Row
    <3> QED BY <1>2, <3>1, <3>2 DEF Discover
  <2> QED BY <2>1 DEF RowsStep, RowQuiet
<1>3. ASSUME UNCHANGED <<row, closed>> PROVE RowsStep
  BY <1>3, SameRows DEF RowsStep, RowQuiet
<1>4. CASE ListClaimable(w) \/ \E f \in Events : Observe(w, f)
  BY <1>3, <1>4 DEF ListClaimable, Observe
<1>5. CASE Claim(w)
  <2>1. e \in Events
    BY <1>5 DEF Claim, OnEvent
  <2>2. CASE ~Unmoved(w, e)
    BY <1>3, <1>5, <2>2 DEF Claim
  <2>3. CASE Unmoved(w, e)
    <3> DEFINE r == [status |-> "sending", attempts |-> row[e].attempts + 1,
                     stale |-> FALSE, held |-> row[e].held]
    <3>1. row' = [row EXCEPT ![e] = r] /\ UNCHANGED closed
      BY <1>5, <2>3 DEF Claim
    <3>2. r \in Row
      BY <2>1 DEF OutboxOK, Row, Status
    <3>3. SeenFits(worker[w].seen, row[e])
      BY <1>5 DEF Claim, SeenInv
    <3>4. row[e].status \in {"pending", "sending"} /\ ~row[e].held
      BY <2>1, <2>3, <3>3 DEF SeenFits, Unmoved, HeldOK
    <3>5. row'[e] = r /\ \A f \in Events \ {e} : row'[f] = row[f]
      BY <2>1, <3>1, <3>2, SetRow
    <3>6. RowClaimed(e) /\ \A f \in Events \ {e} : RowKept(f)
      BY <3>1, <3>4, <3>5 DEF RowClaimed, RowKept
    <3> QED BY <2>1, <3>6 DEF RowsStep
  <2> QED BY <2>2, <2>3
<1>6. CASE Refresh(w) \/ Smtp(w)
  BY <1>3, <1>6 DEF Refresh, Smtp
<1>7. ASSUME e \in Events, NEW s \in {"sent", "pending", "failed", "canceled"},
             NEW h \in BOOLEAN, h => s = "pending", Finalize(w, e, s, h)
      PROVE  RowsStep
  <2>1. \/ UNCHANGED <<row, closed>>
        \/ RowEnded(e, s) /\ \A f \in Events \ {e} : RowKept(f)
    BY <1>7, FinalizeStep DEF Status
  <2>2. ASSUME RowEnded(e, s), \A f \in Events \ {e} : RowKept(f) PROVE RowsStep
    <3>1. CASE s = "sent"
      BY <1>7, <2>2, <3>1 DEF RowsStep
    <3>2. CASE s # "sent"
      BY <1>7, <2>2, <3>2 DEF RowsStep, RowQuiet
    <3> QED BY <3>1, <3>2
  <2> QED BY <1>3, <2>1, <2>2
<1>8. CASE Revalidate(w)
  <2>1. e \in Events
    BY <1>8 DEF Revalidate, OnEvent
  <2>2. UNCHANGED <<row, closed>> \/ Finalize(w, e, "canceled", FALSE)
    BY <1>8 DEF Revalidate
  <2> QED BY <1>3, <1>7, <2>1, <2>2
<1>9. CASE Record(w)
  <2>1. e \in Events
    BY <1>9 DEF Record, OnEvent
  <2>2. \/ Finalize(w, e, "sent", FALSE)
        \/ Finalize(w, e, "pending", TRUE)
        \/ Finalize(w, e, "failed", FALSE)
    <3>1. CASE worker[w].answer = "ok"
      BY <1>9, <3>1 DEF Record, Retries
    <3>2. CASE Retries(w)
      BY <1>9, <3>2 DEF Record, Retries
    <3>3. CASE worker[w].answer # "ok" /\ ~Retries(w)
      BY <1>9, <3>3 DEF Record
    <3> QED BY <3>1, <3>2, <3>3
  <2> QED BY <1>7, <2>1, <2>2
<1> QED
  BY <1>1, <1>2, <1>4, <1>5, <1>6, <1>8, <1>9 DEF Pass

(* The rows in any step, and what stays when no worker is passing. *)
LEMMA OtherSteps ==
  ASSUME OutboxOK, Household \/ Clock \/ \E w \in Workers : Crash(w)
  PROVE  /\ \A e \in Events : RowKept(e)
         /\ OutboxOK'
         /\ \A w \in Workers : worker'[w] = worker[w] \/ worker'[w] = IdleWorker
<1>1. CASE Household \/ SendTime \/ Midnight
  <2>1. UNCHANGED <<row, worker, crashes, mails, doubts, closed>>
    BY <1>1 DEF Household, ChangeBill, ChangeRecipient, ChangeSettings, Edit, SendTime, Midnight
  <2> QED BY <2>1, SameRows DEF OutboxOK
<1>2. ASSUME NEW e \in Events, Elapse(e)
      PROVE  OutboxOK' /\ worker' = worker /\ \A f \in Events : RowKept(f)
  <2> DEFINE r == [row[e] EXCEPT !.stale = TRUE]
  <2>1. row' = [row EXCEPT ![e] = r] /\ UNCHANGED <<worker, crashes, mails, closed>>
        /\ doubts' = [doubts EXCEPT ![e] = @ + 1]
    BY <1>2 DEF Elapse
  <2>2. r \in Row /\ r.stale /\ r.status = row[e].status /\ r.attempts = row[e].attempts
        /\ r.held = row[e].held
    BY DEF OutboxOK, Row
  <2> HIDE DEF r
  <2>3. row' \in [Events -> Row] /\ row'[e] = r /\ \A f \in Events \ {e} : row'[f] = row[f]
    BY <2>1, <2>2, SetRow
  <2>4. OutboxOK'
    BY <2>1, <2>3 DEF OutboxOK
  <2>5. \A f \in Events : RowKept(f)
    BY <2>1, <2>2, <2>3 DEF RowKept
  <2> QED BY <2>1, <2>4, <2>5
<1>3. ASSUME NEW e \in Events, BackoffEnds(e)
      PROVE  OutboxOK' /\ worker' = worker /\ \A f \in Events : RowKept(f)
  <2> DEFINE r == [row[e] EXCEPT !.held = FALSE]
  <2>1. row' = [row EXCEPT ![e] = r] /\ UNCHANGED <<worker, crashes, mails, doubts, closed>>
    BY <1>3 DEF BackoffEnds
  <2>2. r \in Row /\ ~r.held /\ r.status = row[e].status /\ r.attempts = row[e].attempts
        /\ r.stale = row[e].stale
    BY DEF OutboxOK, Row
  <2> HIDE DEF r
  <2>3. row' \in [Events -> Row] /\ row'[e] = r /\ \A f \in Events \ {e} : row'[f] = row[f]
    BY <2>1, <2>2, SetRow
  <2>4. OutboxOK'
    BY <2>1, <2>3 DEF OutboxOK
  <2>5. \A f \in Events : RowKept(f)
    BY <2>1, <2>2, <2>3 DEF RowKept
  <2> QED BY <2>1, <2>4, <2>5
<1>4. ASSUME NEW w \in Workers, Crash(w)
      PROVE  /\ OutboxOK' /\ \A f \in Events : RowKept(f)
             /\ worker' = [worker EXCEPT ![w] = IdleWorker]
  <2>1. UNCHANGED <<row, mails, doubts, closed>> /\ crashes' \in 0 .. MaxCrashes
        /\ worker' = [worker EXCEPT ![w] = IdleWorker]
    BY <1>4, OutboxBounds DEF Crash, OutboxOK
  <2>2. /\ worker' \in [Workers -> WorkerState]
        /\ \A v \in Workers : worker'[v].pc \in OnEvent => worker'[v].event \in Events
    BY <2>1, IdleType, SetWorker DEF OnEvent
  <2> QED BY <2>1, <2>2, SameRows DEF OutboxOK
<1>5. CASE \E w \in Workers : Crash(w)
  <2>1. PICK w \in Workers : Crash(w)
    BY <1>5
  <2> QED BY <1>4, <2>1 DEF OutboxOK
<1> QED
  BY <1>1, <1>2, <1>3, <1>5 DEF Clock

LEMMA NextRows ==
  ASSUME OutboxOK, HeldOK, SeenInv, Next
  PROVE  OutboxOK' /\ RowsStep
<1>1. CASE \E w \in Workers : Pass(w)
  BY <1>1, PassType, PassRows
<1>2. CASE Household \/ Clock \/ \E w \in Workers : Crash(w)
  BY <1>2, OtherSteps DEF RowsStep, RowQuiet
<1> QED
  BY <1>1, <1>2 DEF Next

LEMMA EachRow ==
  ASSUME RowsStep, NEW e \in Events
  PROVE  \/ RowKept(e) \/ RowDiscovered(e) \/ RowClaimed(e)
         \/ \E s \in {"sent", "pending", "failed", "canceled"} : RowEnded(e, s)
  BY DEF RowsStep, RowQuiet

LEMMA NextHeld ==
  ASSUME OutboxOK, HeldOK, RowsStep
  PROVE  HeldOK'
<1> SUFFICES ASSUME NEW e \in Events, row'[e].held PROVE row'[e].status = "pending"
  BY DEF HeldOK
<1> QED
  BY EachRow DEF HeldOK, RowKept, RowDiscovered, RowClaimed, RowEnded

LEMMA PassAlone ==
  ASSUME OutboxOK, NEW w \in Workers, NEW v \in Workers \ {w}, Pass(w)
  PROVE  worker'[v] = worker[v]
  BY DEF Pass, FailExhausted, Discover, ListClaimable, Observe, Claim, Refresh,
     Revalidate, Smtp, Record, Continue, OutboxOK

(* A worker that has observed a row in the next state observed it in this   *)
(* step, or had observed it before.                                         *)
LEMMA ObservedStep ==
  ASSUME OutboxOK, Next, NEW w \in Workers, worker'[w].pc = "observed"
  PROVE  \/ worker'[w] = worker[w]
         \/ \E e \in Events : Observe(w, e) /\ worker'[w].event = e
              /\ worker'[w].seen = [status |-> row[e].status, attempts |-> row[e].attempts]
              /\ \/ row[e].status = "pending" /\ ~row[e].held
                 \/ row[e].status = "sending" /\ row[e].stale
<1>1. CASE Household \/ Clock \/ \E v \in Workers : Crash(v)
  BY <1>1, OtherSteps, IdleType
<1>2. ASSUME NEW v \in Workers, Pass(v), v # w PROVE worker'[w] = worker[w]
  BY <1>2, PassAlone
<1>3. ASSUME NEW e \in Events, Observe(w, e)
      PROVE  /\ worker'[w].event = e
             /\ worker'[w].seen = [status |-> row[e].status, attempts |-> row[e].attempts]
             /\ \/ row[e].status = "pending" /\ ~row[e].held
                \/ row[e].status = "sending" /\ row[e].stale
  <2>1. ~Continue(w, worker[w].todo \ {e})
    BY WorkerFacts, ContinueType DEF OnEvent
  <2> QED BY <1>3, <2>1, WorkerFacts DEF Observe, OutboxOK, WorkerState
<1>4. ASSUME Pass(w) PROVE \E e \in Events : Observe(w, e)
  <2>1. \A todo \in SUBSET Events : ~Continue(w, todo)
    BY ContinueType DEF OnEvent
  <2>2. worker[w] \in WorkerState /\ worker[w].todo \in SUBSET Events
    BY WorkerFacts
  <2>3. ~FailExhausted(w) /\ ~Discover(w)
    BY <2>2 DEF FailExhausted, Discover, OutboxOK, WorkerState
  <2>4. ~ListClaimable(w)
    BY <2>1 DEF ListClaimable
  <2>5. ~Record(w)
    BY <2>1, <2>2 DEF Record
  <2>6. ~Claim(w)
    <3>1. ASSUME Claim(w), Unmoved(w, worker[w].event) PROVE FALSE
      BY <2>2, <3>1 DEF Claim, OutboxOK, WorkerState
    <3>2. ASSUME Claim(w), ~Unmoved(w, worker[w].event) PROVE FALSE
      BY <2>1, <2>2, <3>2 DEF Claim
    <3> QED BY <3>1, <3>2
  <2>7. ~Refresh(w)
    BY <2>2 DEF Refresh, OutboxOK, WorkerState
  <2>8. ~Revalidate(w)
    BY <2>1, <2>2 DEF Revalidate, OutboxOK, WorkerState
  <2>9. ~Smtp(w)
    BY <2>2 DEF Smtp, OutboxOK, WorkerState
  <2> QED BY <1>4, <2>3, <2>4, <2>5, <2>6, <2>7, <2>8, <2>9 DEF Pass
<1> QED
  BY <1>1, <1>2, <1>3, <1>4 DEF Next

LEMMA SeenStaysFit ==
  ASSUME OutboxOK, HeldOK, RowsStep, NEW e \in Events,
         NEW s \in [status : Status, attempts : Nat], SeenFits(s, row[e])
  PROVE  SeenFits(s, row'[e])
<1>1. row[e].attempts \in Nat /\ s.attempts \in Nat
  BY DEF OutboxOK, Row
<1>2. CASE RowKept(e)
  BY <1>1, <1>2 DEF RowKept, SeenFits
<1>3. CASE RowDiscovered(e)
  BY <1>1, <1>3 DEF RowDiscovered, SeenFits
<1>4. CASE RowClaimed(e)
  BY <1>1, <1>4 DEF RowClaimed, SeenFits
<1>5. ASSUME NEW t \in {"sent", "pending", "failed", "canceled"}, RowEnded(e, t)
      PROVE  SeenFits(s, row'[e])
  BY <1>1, <1>5 DEF RowEnded, SeenFits
<1> QED
  BY <1>2, <1>3, <1>4, <1>5, EachRow

LEMMA NextSeen ==
  ASSUME OutboxOK, HeldOK, SeenInv, Next
  PROVE  SeenInv'
<1> SUFFICES ASSUME NEW w \in Workers, worker'[w].pc = "observed"
             PROVE  SeenFits(worker'[w].seen, row'[worker'[w].event])
  BY DEF SeenInv
<1>1. CASE worker'[w] = worker[w]
  <2> DEFINE e == worker[w].event
             s == worker[w].seen
  <2>1. e \in Events /\ s \in [status : Status, attempts : Nat]
    BY <1>1, WorkerFacts DEF OnEvent, WorkerState
  <2>2. SeenFits(s, row[e])
    BY <1>1 DEF SeenInv
  <2>3. RowsStep
    BY NextRows
  <2>4. SeenFits(s, row'[e])
    BY <2>1, <2>2, <2>3, SeenStaysFit
  <2> QED BY <1>1, <2>4
<1>2. ASSUME NEW e \in Events, Observe(w, e), worker'[w].event = e,
             worker'[w].seen = [status |-> row[e].status, attempts |-> row[e].attempts],
             \/ row[e].status = "pending" /\ ~row[e].held
             \/ row[e].status = "sending" /\ row[e].stale
      PROVE  SeenFits(worker'[w].seen, row'[worker'[w].event])
  <2>1. row' = row
    BY <1>2 DEF Observe
  <2>2. row[e].attempts \in Nat
    BY DEF OutboxOK, Row
  <2> QED BY <1>2, <2>1, <2>2 DEF SeenFits
<1> QED
  BY <1>1, <1>2, ObservedStep

-----------------------------------------------------------------------------
BaseInv == TypeOK /\ SeenInv

LEMMA BaseParts == BaseInv => OutboxOK /\ HeldOK /\ SeenInv
  BY TypeParts, Zenon DEF BaseInv

LEMMA NextBase == BaseInv /\ [Next]_vars => BaseInv'
<1> SUFFICES ASSUME BaseInv, [Next]_vars PROVE TypeOK' /\ SeenInv'
  BY DEF BaseInv
<1> USE BaseParts
<1>1. ASSUME Next PROVE OutboxOK' /\ HeldOK' /\ SeenInv'
  BY <1>1, NextRows, NextHeld, NextSeen
<1>2. ASSUME Next PROVE TypeOK'
  <2>1. CASE Household \/ SendTime \/ Midnight
    BY <2>1, HouseholdType DEF BaseInv
  <2>2. CASE UNCHANGED household
    BY <1>1, <1>2, <2>2, SameHousehold DEF BaseInv
  <2>3. ASSUME NEW w \in Workers, Pass(w) \/ Crash(w) PROVE UNCHANGED household
    BY <2>3, Zenon DEF Pass, FailExhausted, Discover, ListClaimable, Observe, Claim, Refresh,
       Revalidate, Smtp, Record, Crash
  <2>4. ASSUME NEW e \in Events, Elapse(e) \/ BackoffEnds(e) PROVE UNCHANGED household
    BY <2>4, Zenon DEF Elapse, BackoffEnds
  <2> QED BY <1>2, <2>1, <2>2, <2>3, <2>4, Zenon DEF Next, Clock
<1>3. ASSUME UNCHANGED vars PROVE TypeOK' /\ SeenInv'
  <2>1. TypeOK'
    BY <1>3, Zenon DEF vars, TypeOK, BaseInv
  <2>2. row' = row /\ worker' = worker
    BY <1>3, Zenon DEF vars
  <2>3. SeenInv'
    BY <2>2 DEF SeenInv
  <2> QED BY <2>1, <2>3
<1> QED
  BY <1>1, <1>2, <1>3

LEMMA SpecBase == Spec => []BaseInv
<1>1. Init => SeenInv
  BY IdleType DEF Init, SeenInv
<1> QED
  BY <1>1, InitType, NextBase, PTL DEF Spec, BaseInv

(* Every reachable state is well typed, a worker past its list is on an     *)
(* event, and a row waits for its next attempt only while it is pending.    *)
THEOREM OutboxTypeCorrect == Spec => []TypeOK
  BY SpecBase, PTL DEF BaseInv

(* A step of the specification moves rows one of the ways of RowsStep.      *)
LEMMA AnyRows == BaseInv /\ [Next]_vars => RowsStep \/ UNCHANGED <<row, closed>>
<1> SUFFICES ASSUME BaseInv, [Next]_vars PROVE RowsStep \/ UNCHANGED <<row, closed>>
  OBVIOUS
<1>1. CASE Next
  BY <1>1, BaseParts, NextRows
<1>2. CASE UNCHANGED vars
  BY <1>2, Zenon DEF vars
<1> QED
  BY <1>1, <1>2

(* No pass, however late, and no household action changes the status of a   *)
(* delivery that is sent, failed or canceled.                               *)
THEOREM OutboxFinishedStays == Spec => FinishedStays
<1>1. BaseInv /\ [Next]_vars =>
        [\A e \in Events : row[e].status \in Terminal => row'[e].status = row[e].status]_vars
  <2> SUFFICES ASSUME BaseInv, [Next]_vars, NEW e \in Events, row[e].status \in Terminal
               PROVE  row'[e].status = row[e].status
    OBVIOUS
  <2>1. CASE RowsStep
    BY <2>1, EachRow DEF RowKept, RowDiscovered, RowClaimed, RowEnded, Terminal
  <2>2. CASE UNCHANGED <<row, closed>>
    BY <2>2
  <2> QED BY <2>1, <2>2, AnyRows
<1> QED
  BY <1>1, SpecBase, PTL DEF Spec, FinishedStays

-----------------------------------------------------------------------------
(* Attempts are closed in the order they are granted: none beyond the       *)
(* newest, and the newest of a sending row is open.                         *)
LeaseInv ==
    \A e \in Events :
      /\ closed[e] \subseteq 1 .. row[e].attempts
      /\ row[e].status = "sending" =>
           row[e].attempts > 0 /\ row[e].attempts \notin closed[e]

LEMMA InitLease == Init => LeaseInv /\ Lease!LeaseInit
  BY DEF Init, LeaseInv, Lease!LeaseInit, Attempts, Shown

LEMMA NextLeaseInv == BaseInv /\ LeaseInv /\ [Next]_vars => LeaseInv'
<1> SUFFICES ASSUME BaseInv, LeaseInv, [Next]_vars, NEW e \in Events
             PROVE  /\ closed'[e] \subseteq 1 .. row'[e].attempts
                    /\ row'[e].status = "sending" =>
                         row'[e].attempts > 0 /\ row'[e].attempts \notin closed'[e]
  BY DEF LeaseInv
<1>1. row[e].attempts \in Nat /\ closed[e] \subseteq Nat
  BY BaseParts DEF OutboxOK, Row
<1>2. CASE RowKept(e) \/ RowDiscovered(e)
  BY <1>2 DEF RowKept, RowDiscovered, LeaseInv
<1>3. CASE RowClaimed(e)
  BY <1>1, <1>3 DEF RowClaimed, LeaseInv
<1>4. ASSUME NEW s \in {"sent", "pending", "failed", "canceled"}, RowEnded(e, s)
      PROVE  /\ closed'[e] \subseteq 1 .. row'[e].attempts
             /\ row'[e].status # "sending"
  BY <1>1, <1>4 DEF RowEnded, LeaseInv
<1>5. CASE UNCHANGED <<row, closed>>
  BY <1>5 DEF LeaseInv
<1> QED
  BY <1>2, <1>3, <1>4, <1>5, AnyRows, EachRow

LEMMA LeaseStep ==
  BaseInv /\ LeaseInv /\ [Next]_vars => [Lease!LeaseNext]_(Lease!leaseVars)
<1> SUFFICES ASSUME BaseInv, LeaseInv, [Next]_vars, RowsStep
             PROVE  Lease!LeaseNext
  BY AnyRows DEF Lease!leaseVars, Attempts, Shown
<1>1. OutboxOK /\ OutboxOK'
  <2>1. OutboxOK' \/ UNCHANGED <<row, worker, crashes, mails, doubts, closed>>
    BY BaseParts, NextRows, Zenon DEF vars
  <2> QED BY <2>1, BaseParts DEF OutboxOK
<1>2. /\ DOMAIN closed = Events /\ DOMAIN closed' = Events
      /\ \A e \in Events : row[e].attempts \in Nat
      /\ closed' = [e \in Events |-> closed'[e]]
  BY <1>1 DEF OutboxOK, Row
<1>3. ASSUME NEW e \in Events, RowEnded(e, "sent"), \A f \in Events \ {e} : RowKept(f)
      PROVE  Lease!Publish(e)
  <2>1. closed' = [closed EXCEPT ![e] = @ \cup {Attempts[e]}]
    BY <1>1, <1>2, <1>3 DEF RowEnded, RowKept, Attempts
  <2>2. Attempts' = Attempts
    BY <1>3 DEF RowEnded, RowKept, Attempts
  <2>3. Shown' = [Shown EXCEPT ![e] = Attempts[e]]
    BY <1>3 DEF RowEnded, RowKept, Shown, Attempts
  <2>4. Attempts[e] > 0 /\ Attempts[e] \notin closed[e]
    BY <1>3 DEF RowEnded, LeaseInv, Attempts
  <2> QED
    BY <2>1, <2>2, <2>3, <2>4 DEF Lease!Publish
<1>4. ASSUME NEW e \in Events, RowClaimed(e), \A f \in Events \ {e} : RowKept(f)
      PROVE  Lease!Grant(e)
  <2>1. closed' = closed
    BY <1>1, <1>2, <1>4 DEF RowClaimed, RowKept, OutboxOK
  <2>2. Attempts' = [Attempts EXCEPT ![e] = @ + 1]
    BY <1>4 DEF RowClaimed, RowKept, Attempts
  <2>3. Shown' = Shown
    BY <1>4 DEF RowClaimed, RowKept, Shown
  <2> QED
    BY <2>1, <2>2, <2>3 DEF Lease!Grant
<1>5. ASSUME \A e \in Events : RowQuiet(e)
      PROVE  \E E \in SUBSET Events : Lease!Close(E)
  <2> DEFINE K == {e \in Events : \E s \in {"pending", "failed", "canceled"} : RowEnded(e, s)}
  <2>1. \A e \in K : Attempts[e] > 0 /\ Attempts[e] \notin closed[e]
    BY DEF RowEnded, LeaseInv, Attempts
  <2>2. Attempts' = Attempts
    BY <1>5 DEF RowQuiet, RowKept, RowDiscovered, RowEnded, Attempts
  <2>3. \A e \in Events :
          closed'[e] = IF e \in K THEN closed[e] \cup {Attempts[e]} ELSE closed[e]
    BY <1>5 DEF RowQuiet, RowKept, RowDiscovered, RowEnded, Attempts
  <2>4. Shown' = Shown
    BY <1>5 DEF RowQuiet, RowKept, RowDiscovered, RowEnded, Shown
  <2>5. closed' = [e \in Events |->
                     IF e \in K THEN closed[e] \cup {Attempts[e]} ELSE closed[e]]
    BY <1>2, <2>3
  <2> K \in SUBSET Events
    OBVIOUS
  <2> HIDE DEF K
  <2> QED
    BY <2>1, <2>2, <2>4, <2>5 DEF Lease!Close
<1> QED
  BY <1>3, <1>4, <1>5 DEF RowsStep, Lease!LeaseNext

(* The outbox implements the abstract lease: an attempt of a delivery is    *)
(* recorded at most once and only while it is the newest, and the step that *)
(* records it is the one that marks the event sent.                         *)
THEOREM OutboxImplementsLease == Spec => ImplementsLease
<1>1. Spec => [](BaseInv /\ LeaseInv)
  BY SpecBase, InitLease, NextLeaseInv, PTL DEF Spec
<1> QED
  BY <1>1, InitLease, LeaseStep, PTL DEF Spec, ImplementsLease, Lease!LeaseSpec

-----------------------------------------------------------------------------
(* Who may still add an e-mail of an event: the workers that hold it, and a *)
(* row that can be claimed (again) without a new cause.  A holder is past   *)
(* its claim and before its answer, or has a transient answer to record,    *)
(* which may open the row again.                                            *)
Holds(s, e) ==
    /\ s.event = e
    /\ \/ s.pc \in {"claimed", "leased", "connecting"}
       \/ s.pc = "answered" /\ s.answer = "transient"

Holders(e) == {w \in Workers : Holds(worker[w], e)}

Chance(r) ==
    IF r.status \in {"none", "pending"} \/ (r.status = "sending" /\ r.stale) THEN 1 ELSE 0

CreditInv ==
    \A e \in Events :
      mails[e] + Cardinality(Holders(e)) + Chance(row[e]) <= 1 + doubts[e]

LEMMA CardinalityMoves ==
  ASSUME NEW S, NEW T, IsFiniteSet(T), NEW x
  PROVE  /\ S \subseteq T => Cardinality(S) <= Cardinality(T)
         /\ S \subseteq T \cup {x} => Cardinality(S) <= Cardinality(T) + 1
         /\ x \in T /\ S \subseteq T \ {x} => Cardinality(S) <= Cardinality(T) - 1
         /\ Cardinality(T) \in Nat
<1>1. Cardinality(T) \in Nat
  BY FS_CardinalityType
<1>2. S \subseteq T => Cardinality(S) <= Cardinality(T)
  BY FS_Subset
<1>3. ASSUME S \subseteq T \cup {x} PROVE Cardinality(S) <= Cardinality(T) + 1
  <2>1. IsFiniteSet(T \cup {x}) /\ Cardinality(T \cup {x}) <= Cardinality(T) + 1
    BY <1>1, FS_AddElement
  <2>2. Cardinality(S) <= Cardinality(T \cup {x}) /\ Cardinality(S) \in Nat
    BY <1>3, <2>1, FS_Subset, FS_CardinalityType
  <2>3. Cardinality(T \cup {x}) \in Nat
    BY <2>1, FS_CardinalityType
  <2> QED BY <1>1, <2>1, <2>2, <2>3
<1>4. ASSUME x \in T, S \subseteq T \ {x} PROVE Cardinality(S) <= Cardinality(T) - 1
  <2>1. IsFiniteSet(T \ {x}) /\ Cardinality(T \ {x}) = Cardinality(T) - 1
    BY <1>4, FS_RemoveElement
  <2> QED BY <1>4, <2>1, FS_Subset
<1> QED
  BY <1>1, <1>2, <1>3, <1>4

LEMMA HoldersFinite == \A e : IsFiniteSet(Holders(e)) /\ IsFiniteSet(Holders(e))'
<1>1. \A e : Holders(e) \subseteq Workers /\ Holders(e)' \subseteq Workers
  BY DEF Holders
<1> QED
  BY <1>1, OutboxActors, FS_Subset

(* The accounts of one event: nothing new, a cause, a claim, an answer.     *)
LEMMA Balance ==
  ASSUME OutboxOK, OutboxOK', CreditInv, NEW e \in Events, NEW w \in Workers,
         \/ /\ mails'[e] = mails[e] /\ doubts'[e] = doubts[e]
            /\ Holders(e)' \subseteq Holders(e) /\ Chance(row'[e]) <= Chance(row[e])
         \/ /\ mails'[e] = mails[e] /\ doubts'[e] = doubts[e] + 1
            /\ Holders(e)' \subseteq Holders(e) /\ Chance(row[e]) = 0
         \/ /\ mails'[e] = mails[e] + 1 /\ doubts'[e] = doubts[e] + 1
            /\ Holders(e)' \subseteq Holders(e) /\ row'[e] = row[e]
         \/ /\ mails'[e] = mails[e] /\ doubts'[e] = doubts[e]
            /\ Holders(e)' \subseteq Holders(e) \cup {w}
            /\ Chance(row[e]) = 1 /\ Chance(row'[e]) = 0
         \/ /\ mails'[e] = mails[e] + 1 /\ doubts'[e] = doubts[e]
            /\ w \in Holders(e) /\ Holders(e)' \subseteq Holders(e) \ {w} /\ row'[e] = row[e]
         \/ /\ mails'[e] = mails[e] /\ doubts'[e] = doubts[e]
            /\ w \in Holders(e) /\ Holders(e)' \subseteq Holders(e) \ {w}
  PROVE  mails'[e] + Cardinality(Holders(e)') + Chance(row'[e]) <= 1 + doubts'[e]
<1> DEFINE H == Holders(e)
           K == Holders(e)'
<1>1. IsFiniteSet(H) /\ IsFiniteSet(K)
  BY HoldersFinite
<1>2. /\ K \subseteq H => Cardinality(K) <= Cardinality(H)
      /\ K \subseteq H \cup {w} => Cardinality(K) <= Cardinality(H) + 1
      /\ w \in H /\ K \subseteq H \ {w} => Cardinality(K) <= Cardinality(H) - 1
      /\ Cardinality(H) \in Nat /\ Cardinality(K) \in Nat
  BY <1>1, CardinalityMoves
<1>3. /\ mails[e] \in Nat /\ mails'[e] \in Nat /\ doubts[e] \in Nat /\ doubts'[e] \in Nat
  BY DEF OutboxOK
<1>4. Chance(row[e]) \in 0 .. 1 /\ Chance(row'[e]) \in 0 .. 1
  BY DEF Chance
<1>5. mails[e] + Cardinality(H) + Chance(row[e]) <= 1 + doubts[e]
  BY DEF CreditInv
<1> HIDE DEF H
<1>6. row'[e] = row[e] => Chance(row'[e]) = Chance(row[e])
  BY DEF Chance
<1> QED
  BY <1>2, <1>3, <1>4, <1>5, <1>6 DEF H

LEMMA HoldersMove ==
  ASSUME NEW e \in Events, NEW w \in Workers,
         \A v \in Workers \ {w} : worker'[v] = worker[v]
  PROVE  /\ Holders(e)' \subseteq Holders(e) \cup {w}
         /\ (Holds(worker'[w], e) => Holds(worker[w], e)) => Holders(e)' \subseteq Holders(e)
         /\ ~Holds(worker'[w], e) => Holders(e)' \subseteq Holders(e) \ {w}
  BY DEF Holders

LEMMA FinalizeChance ==
  ASSUME OutboxOK, NEW w \in Workers, NEW e \in Events, NEW s \in {"sent", "failed", "canceled"},
         Finalize(w, e, s, FALSE), NEW f \in Events
  PROVE  Chance(row'[f]) <= Chance(row[f])
<1>1. Chance(row[f]) \in 0 .. 1
  BY DEF Chance
<1>2. row'[f] = row[f] \/ row'[f].status = s
  BY DEF Finalize, OutboxOK, Row
<1> QED
  BY <1>1, <1>2 DEF Chance

LEMMA PassCredit ==
  ASSUME OutboxOK, OutboxOK', HeldOK, SeenInv, CreditInv, NEW w \in Workers, Pass(w)
  PROVE  CreditInv'
<1> SUFFICES ASSUME NEW f \in Events
             PROVE  mails'[f] + Cardinality(Holders(f)') + Chance(row'[f]) <= 1 + doubts'[f]
  BY DEF CreditInv
<1> DEFINE e == worker[w].event
<1>0. \A v \in Workers \ {w} : worker'[v] = worker[v]
  BY PassAlone
<1>w. /\ worker[w] \in WorkerState /\ worker[w].todo \in SUBSET Events
      /\ worker[w].pc \in OnEvent => e \in Events
  BY WorkerFacts
<1>q. ASSUME mails'[f] = mails[f], doubts'[f] = doubts[f],
             Holds(worker'[w], f) => Holds(worker[w], f),
             Chance(row'[f]) <= Chance(row[f])
      PROVE  mails'[f] + Cardinality(Holders(f)') + Chance(row'[f]) <= 1 + doubts'[f]
  BY <1>0, <1>q, HoldersMove, Balance
<1>c. ASSUME NEW todo \in SUBSET Events, Continue(w, todo) PROVE ~Holds(worker'[w], f)
  BY <1>c, ContinueType DEF Holds, OnEvent
<1>r. row'[f] = row[f] => Chance(row'[f]) <= Chance(row[f])
  BY DEF Chance
<1>1. CASE FailExhausted(w)
  <2>1. ~Holds(worker'[w], f)
    BY <1>1 DEF FailExhausted, OutboxOK, WorkerState, Holds
  <2>2. Chance(row'[f]) <= Chance(row[f])
    BY <1>1 DEF FailExhausted, Exhausted, Chance, OutboxOK, Row
  <2> QED BY <1>1, <1>q, <2>1, <2>2 DEF FailExhausted
<1>2. CASE Discover(w)
  <2>1. ~Holds(worker'[w], f)
    BY <1>2 DEF Discover, OutboxOK, WorkerState, Holds
  <2>2. Chance(row'[f]) <= Chance(row[f])
    <3>1. CASE row'[f] = row[f]
      BY <1>r, <3>1
    <3>2. CASE row[f].status = "none"
      BY <3>2 DEF Chance
    <3> QED BY <1>2, <3>1, <3>2 DEF Discover
  <2> QED BY <1>2, <1>q, <2>1, <2>2 DEF Discover
<1>3. CASE ListClaimable(w)
  <2>1. ~Holds(worker'[w], f)
    BY <1>3, <1>c DEF ListClaimable
  <2> QED BY <1>3, <1>q, <1>r, <2>1 DEF ListClaimable
<1>4. ASSUME NEW g \in Events, Observe(w, g)
      PROVE  mails'[f] + Cardinality(Holders(f)') + Chance(row'[f]) <= 1 + doubts'[f]
  <2>1. CASE Continue(w, worker[w].todo \ {g})
    <3>1. ~Holds(worker'[w], f)
      BY <1>c, <1>w, <2>1
    <3> QED BY <1>4, <1>q, <1>r, <3>1 DEF Observe
  <2>2. CASE ~Continue(w, worker[w].todo \ {g})
    <3>1. worker'[w].pc = "observed"
      BY <1>4, <1>w, <2>2 DEF Observe, OutboxOK, WorkerState
    <3>2. ~Holds(worker'[w], f)
      BY <3>1 DEF Holds
    <3> QED BY <1>4, <1>q, <1>r, <3>2 DEF Observe
  <2> QED BY <2>1, <2>2
<1>5. CASE Claim(w)
  <2>1. e \in Events /\ UNCHANGED <<mails, doubts>>
    BY <1>5, <1>w DEF Claim, OnEvent
  <2>2. CASE ~Unmoved(w, e)
    <3>1. ~Holds(worker'[w], f) /\ row' = row
      BY <1>5, <1>c, <1>w, <2>2 DEF Claim
    <3> QED BY <1>q, <1>r, <2>1, <3>1
  <2>3. CASE Unmoved(w, e)
    <3>1. worker'[w].event = e
      BY <1>5, <1>w, <2>3 DEF Claim, OutboxOK, WorkerState
    <3> DEFINE r == [status |-> "sending", attempts |-> row[e].attempts + 1,
                     stale |-> FALSE, held |-> row[e].held]
    <3>2. row' = [row EXCEPT ![e] = r]
      BY <1>5, <2>3 DEF Claim
    <3>3. CASE f # e
      <4>1. ~Holds(worker'[w], f) /\ row'[f] = row[f]
        BY <2>1, <3>1, <3>2, <3>3 DEF Holds, OutboxOK
      <4> QED BY <1>q, <1>r, <2>1, <4>1
    <3>4. CASE f = e
      <4>1. SeenFits(worker[w].seen, row[e])
        BY <1>5 DEF Claim, SeenInv
      <4>2. Chance(row[e]) = 1
        BY <2>3, <4>1 DEF SeenFits, Unmoved, Chance
      <4>3. row'[e] = r
        BY <2>1, <3>2 DEF OutboxOK
      <4>4. Chance(row'[e]) = 0
        BY <4>3 DEF Chance
      <4>5. Holders(f)' \subseteq Holders(f) \cup {w}
        BY <1>0, HoldersMove
      <4> QED BY <2>1, <3>4, <4>2, <4>4, <4>5, Balance
    <3> QED BY <3>3, <3>4
  <2> QED BY <2>2, <2>3
<1>6. CASE Refresh(w)
  <2>1. worker'[w].event = e /\ worker[w].pc = "claimed"
    BY <1>6, <1>w DEF Refresh, OutboxOK, WorkerState
  <2>2. Holds(worker'[w], f) => Holds(worker[w], f)
    BY <2>1 DEF Holds
  <2> QED BY <1>6, <1>q, <1>r, <2>2 DEF Refresh
<1>7. CASE Revalidate(w)
  <2>1. e \in Events /\ worker[w].pc = "leased" /\ UNCHANGED <<mails, doubts>>
    BY <1>7, <1>w DEF Revalidate, OnEvent
  <2>2. CASE StillEligible(e)
    <3>1. worker'[w].event = e /\ row' = row
      BY <1>7, <1>w, <2>2 DEF Revalidate, OutboxOK, WorkerState
    <3>2. Holds(worker'[w], f) => Holds(worker[w], f)
      BY <2>1, <3>1 DEF Holds
    <3> QED BY <1>q, <1>r, <2>1, <3>1, <3>2
  <2>3. CASE ~StillEligible(e)
    <3>1. Finalize(w, e, "canceled", FALSE) /\ ~Holds(worker'[w], f)
      BY <1>7, <1>c, <1>w, <2>3 DEF Revalidate
    <3> QED BY <1>q, <2>1, <3>1, FinalizeChance
  <2> QED BY <2>2, <2>3
<1>8. CASE Smtp(w)
  <2>1. e \in Events /\ worker[w].pc = "connecting" /\ row' = row
    BY <1>8, <1>w DEF Smtp, OnEvent
  <2>2. PICK answer \in Answers, accepted \in BOOLEAN :
          /\ answer = "ok" => accepted
          /\ answer = "permanent" => ~accepted
          /\ mails' = IF accepted THEN [mails EXCEPT ![e] = @ + 1] ELSE mails
          /\ doubts' = IF accepted /\ answer # "ok" THEN [doubts EXCEPT ![e] = @ + 1]
                       ELSE doubts
          /\ worker' = [worker EXCEPT ![w].pc = "answered", ![w].answer = answer]
    BY <1>8 DEF Smtp
  <2>3. worker'[w].event = e /\ worker'[w].pc = "answered" /\ worker'[w].answer = answer
    BY <1>w, <2>2 DEF OutboxOK, WorkerState
  <2>4. Holds(worker'[w], f) => Holds(worker[w], f)
    BY <2>1, <2>3 DEF Holds
  <2>5. CASE ~accepted \/ f # e
    <3>1. mails'[f] = mails[f] /\ doubts'[f] = doubts[f]
      BY <2>2, <2>5 DEF OutboxOK
    <3> QED BY <1>q, <1>r, <2>1, <2>4, <3>1
  <2>6. CASE accepted /\ f = e
    <3>1. mails'[f] = mails[f] + 1
      BY <2>2, <2>6 DEF OutboxOK
    <3>2. CASE answer = "ok"
      <4>1. doubts'[f] = doubts[f]
        BY <2>2, <3>2
      <4>2. ~Holds(worker'[w], f) /\ w \in Holders(f)
        BY <2>1, <2>3, <2>6, <3>2 DEF Holds, Holders
      <4> QED BY <1>0, <2>1, <3>1, <4>1, <4>2, HoldersMove, Balance
    <3>3. CASE answer = "transient"
      <4>1. doubts'[f] = doubts[f] + 1
        BY <2>2, <2>6, <3>3 DEF OutboxOK
      <4>2. Holders(f)' \subseteq Holders(f)
        BY <1>0, <2>4, HoldersMove
      <4> QED BY <2>1, <3>1, <4>1, <4>2, Balance
    <3> QED BY <2>2, <2>6, <3>2, <3>3 DEF Answers
  <2> QED BY <2>5, <2>6
<1>9. CASE Record(w)
  <2>1. e \in Events /\ worker[w].pc = "answered" /\ UNCHANGED <<mails, doubts>>
        /\ ~Holds(worker'[w], f)
    BY <1>9, <1>c, <1>w DEF Record, OnEvent
  <2>2. ASSUME NEW s \in {"sent", "failed", "canceled"}, Finalize(w, e, s, FALSE)
        PROVE  mails'[f] + Cardinality(Holders(f)') + Chance(row'[f]) <= 1 + doubts'[f]
    BY <1>q, <2>1, <2>2, FinalizeChance
  <2>3. CASE worker[w].answer = "ok"
    BY <1>9, <2>2, <2>3 DEF Record, Retries
  <2>4. CASE Retries(w)
    <3>1. Finalize(w, e, "pending", TRUE) /\ worker[w].answer = "transient"
      BY <1>9, <2>4 DEF Record, Retries
    <3>2. CASE f = e
      <4>1. w \in Holders(f)
        BY <2>1, <3>1, <3>2 DEF Holders, Holds
      <4> QED BY <1>0, <2>1, <4>1, HoldersMove, Balance
    <3>3. CASE f # e
      <4>1. row'[f] = row[f]
        BY <2>1, <3>1, <3>3 DEF Finalize, OutboxOK
      <4> QED BY <1>q, <1>r, <2>1, <4>1
    <3> QED BY <3>2, <3>3
  <2>5. CASE worker[w].answer # "ok" /\ ~Retries(w)
    BY <1>9, <2>2, <2>5 DEF Record
  <2> QED BY <2>3, <2>4, <2>5
<1> QED
  BY <1>1, <1>2, <1>3, <1>4, <1>5, <1>6, <1>7, <1>8, <1>9 DEF Pass

LEMMA OtherCredit ==
  ASSUME OutboxOK, OutboxOK', CreditInv, Household \/ Clock \/ \E w \in Workers : Crash(w)
  PROVE  CreditInv'
<1> SUFFICES ASSUME NEW f \in Events
             PROVE  mails'[f] + Cardinality(Holders(f)') + Chance(row'[f]) <= 1 + doubts'[f]
  BY DEF CreditInv
<1>1. Holders(f)' \subseteq Holders(f)
  BY OtherSteps, IdleType DEF Holders, Holds
<1>2. mails' = mails
  BY DEF Household, ChangeBill, ChangeRecipient, ChangeSettings, Edit, Clock, SendTime,
     Midnight, Elapse, BackoffEnds, Crash
<1>3. \/ doubts'[f] = doubts[f] /\ Chance(row'[f]) <= Chance(row[f])
      \/ doubts'[f] = doubts[f] + 1 /\ Chance(row[f]) = 0
  <2>1. ASSUME NEW e \in Events, Elapse(e)
        PROVE  \/ doubts'[f] = doubts[f] /\ row'[f] = row[f]
               \/ doubts'[f] = doubts[f] + 1 /\ Chance(row[f]) = 0
    <3>1. CASE f = e
      BY <2>1, <3>1 DEF Elapse, OutboxOK, Chance
    <3>2. CASE f # e
      BY <2>1, <3>2 DEF Elapse, OutboxOK
    <3> QED BY <3>1, <3>2
  <2>2. ASSUME NEW e \in Events, BackoffEnds(e)
        PROVE  doubts' = doubts /\ row'[f].status = row[f].status /\ row'[f].stale = row[f].stale
    BY <2>2 DEF BackoffEnds, OutboxOK, Row
  <2>3. CASE UNCHANGED <<row, doubts>>
    BY <2>3 DEF Chance
  <2>4. CASE \E e \in Events : Elapse(e)
    BY <2>1, <2>4 DEF Chance
  <2>5. CASE \E e \in Events : BackoffEnds(e)
    BY <2>2, <2>5 DEF Chance
  <2>6. CASE Household \/ SendTime \/ Midnight \/ \E w \in Workers : Crash(w)
    <3>1. UNCHANGED <<row, doubts>>
      BY <2>6 DEF Household, ChangeBill, ChangeRecipient, ChangeSettings, Edit, SendTime,
         Midnight, Crash
    <3> QED BY <2>3, <3>1
  <2> QED BY <2>4, <2>5, <2>6 DEF Clock
<1>4. CASE Workers # {}
  BY <1>1, <1>2, <1>3, <1>4, Balance
<1>5. CASE Workers = {}
  <2>1. Holders(f)' = {} /\ Holders(f) = {}
    BY <1>5 DEF Holders
  <2>2. /\ mails[f] \in Nat /\ doubts[f] \in Nat /\ doubts'[f] \in Nat
        /\ Chance(row[f]) \in 0 .. 1 /\ Chance(row'[f]) \in 0 .. 1
        /\ mails[f] + Cardinality(Holders(f)) + Chance(row[f]) <= 1 + doubts[f]
    BY DEF OutboxOK, Chance, CreditInv
  <2> QED BY <1>2, <1>3, <2>1, <2>2, FS_EmptySet
<1> QED
  BY <1>4, <1>5

LEMMA InitCredit == Init => CreditInv
<1> SUFFICES ASSUME Init, NEW e \in Events
             PROVE  mails[e] + Cardinality(Holders(e)) + Chance(row[e]) <= 1 + doubts[e]
  BY DEF CreditInv
<1>1. Holders(e) = {}
  BY IdleType DEF Init, Holders, Holds
<1>2. mails[e] = 0 /\ doubts[e] = 0 /\ row[e].status = "none"
  BY DEF Init
<1> QED
  BY <1>1, <1>2, FS_EmptySet DEF Chance

LEMMA NextCredit == BaseInv /\ CreditInv /\ [Next]_vars => CreditInv'
<1> SUFFICES ASSUME BaseInv, CreditInv, [Next]_vars PROVE CreditInv'
  OBVIOUS
<1> USE BaseParts
<1>1. CASE Next
  <2>1. OutboxOK'
    BY <1>1, NextRows
  <2> QED BY <1>1, <2>1, PassCredit, OtherCredit DEF Next
<1>2. CASE UNCHANGED vars
  <2>1. UNCHANGED <<row, worker, mails, doubts>>
    BY <1>2, Zenon DEF vars
  <2>2. \A e \in Events : Holders(e)' = Holders(e)
    BY <2>1 DEF Holders, Holds
  <2> QED BY <2>1, <2>2 DEF CreditInv, Chance
<1> QED
  BY <1>1, <1>2

(* One alert is one e-mail, and each further one has a cause of its own: a  *)
(* lease that went stale or an accepted e-mail reported as failed, for any  *)
(* number of workers, alerts, retries and crashes.                          *)
THEOREM OutboxDuplicatesHaveACause == Spec => []DuplicatesHaveACause
<1>1. Spec => [](BaseInv /\ CreditInv)
  BY SpecBase, InitCredit, NextCredit, PTL DEF Spec
<1>2. BaseInv /\ CreditInv => DuplicatesHaveACause
  <2> SUFFICES ASSUME BaseInv, CreditInv, NEW e \in Events
               PROVE  mails[e] <= 1 + doubts[e]
    BY DEF DuplicatesHaveACause
  <2>1. mails[e] \in Nat /\ doubts[e] \in Nat /\ Chance(row[e]) \in 0 .. 1
        /\ Cardinality(Holders(e)) \in Nat
    BY BaseParts, HoldersFinite, FS_CardinalityType DEF OutboxOK, Chance
  <2> QED BY <2>1 DEF CreditInv
<1> QED
  BY <1>1, <1>2, PTL
=============================================================================
