-------------------------- MODULE MonthlyCloseProofs --------------------------
(***************************************************************************)
(* Proofs about MonthlyClose for any requests and any number of writes.    *)
(***************************************************************************)
EXTENDS MonthlyClose, TLAPS

LEMMA RowTypes ==
  /\ NoClose \in CloseRow /\ NoClose.status = "none"
  /\ NoSnap \in SnapRow
  /\ Idle \in RequestRow /\ Idle.op = "none" /\ Idle.pc = "idle" /\ Idle.seen = NoClose
  /\ FirstFacts \in FactsRow
  BY DEF NoClose, NoSnap, NoBody, NoFacts, Idle, FirstFacts, CloseRow, SnapRow,
     RequestRow, FactsRow

(* build_snapshot returns a snapshot that shows the period's rows.          *)
LEMMA RebuiltType ==
  ASSUME TypeOK
  PROVE  Rebuilt \in SnapRow /\ Rebuilt.body.period = facts.period
  BY DEF TypeOK, Rebuilt, Body, SnapRow, FactsRow

(* What a transaction leaves behind when it ends.                           *)
LEMMA EndType ==
  ASSUME TypeOK, NEW r \in Requests, End(r)
  PROVE  /\ request' \in [Requests -> RequestRow]
         /\ revLock' \in Requests \cup {NoRequest}
         /\ snapLock' \in Requests \cup {NoRequest}
         /\ \A q \in Requests :
              /\ revLock' = q <=> request'[q].pc \in {"locked", "built"}
              /\ snapLock' = q <=> request'[q].pc \in {"built", "viewed"}
  BY RowTypes, CloseBounds DEF TypeOK, End, ReleaseOf

(* A request that takes no lock: it becomes s.                              *)
LEMMA SetRequest ==
  ASSUME TypeOK, NEW r \in Requests, NEW s \in RequestRow,
         s.pc \notin {"locked", "built", "viewed"},
         request[r].pc \notin {"locked", "built", "viewed"},
         request' = [request EXCEPT ![r] = s], revLock' = revLock, snapLock' = snapLock
  PROVE  /\ request' \in [Requests -> RequestRow]
         /\ \A q \in Requests :
              /\ revLock' = q <=> request'[q].pc \in {"locked", "built"}
              /\ snapLock' = q <=> request'[q].pc \in {"built", "viewed"}
  BY DEF TypeOK

LEMMA TypeInit == Init => TypeOK
<1> SUFFICES ASSUME Init PROVE TypeOK
  OBVIOUS
<1>1. request \in [Requests -> RequestRow] /\ \A r \in Requests : request[r].pc = "idle"
  BY RowTypes DEF Init
<1>2. /\ revLock \notin Requests /\ snapLock \notin Requests
      /\ \A r \in Requests : request[r].pc \notin {"locked", "built", "viewed"}
  BY <1>1, CloseBounds DEF Init
<1>3. passed \in BOOLEAN
  BY DEF Init
<1>4. writes \in 0 .. MaxWrites /\ revision \in Nat /\ flagged \in SUBSET Sources
  BY CloseBounds DEF Init
<1> QED
  BY <1>1, <1>2, <1>3, <1>4, RowTypes DEF Init, TypeOK

(* A write of a financial row keeps the versions natural numbers.           *)
LEMMA FactsType ==
  ASSUME NEW f \in FactsRow, NEW clean \in BOOLEAN
  PROVE  /\ [f EXCEPT !.period = @ + 1, !.clean = clean] \in FactsRow
         /\ [f EXCEPT !.other = @ + 1, !.clean = clean] \in FactsRow
<1>1. f.period + 1 \in Nat /\ f.other + 1 \in Nat
  BY DEF FactsRow
<1> QED
  BY <1>1, Zenon DEF FactsRow

LEMMA SpendType ==
  ASSUME TypeOK, Spend
  PROVE  writes' \in 0 .. MaxWrites
  BY CloseBounds DEF TypeOK, Spend

LEMMA TypeEnvironment ==
  ASSUME TypeOK,
         ChangeFacts \/ IntegrityRun \/ \E source \in Sources : DismissFinding(source)
  PROVE  TypeOK'
<1>1. CASE ChangeFacts
  <2>1. facts' \in FactsRow
    BY <1>1, FactsType DEF ChangeFacts, TypeOK
  <2>2. /\ Spend /\ revision' = revision + 1
        /\ UNCHANGED <<passed, flagged, snap, close, revLock, snapLock, request>>
    BY <1>1, Zenon DEF ChangeFacts
  <2> QED BY <2>1, <2>2, SpendType DEF TypeOK
<1>2. CASE IntegrityRun
  <2>1. writes' \in 0 .. MaxWrites /\ revision' \in Nat
    BY <1>2, CloseBounds DEF IntegrityRun, Spend, TypeOK
  <2>2. passed' \in BOOLEAN
    BY <1>2 DEF IntegrityRun
  <2> QED BY <1>2, <2>1, <2>2 DEF IntegrityRun, TypeOK
<1>3. CASE \E source \in Sources : DismissFinding(source)
  <2>1. /\ writes' \in 0 .. MaxWrites /\ revision' \in Nat
        /\ flagged' \in SUBSET Sources
    BY <1>3, CloseBounds DEF DismissFinding, Spend, TypeOK
  <2> QED BY <1>3, <2>1 DEF DismissFinding, TypeOK
<1> QED
  BY <1>1, <1>2, <1>3

LEMMA TypeRun ==
  ASSUME TypeOK, NEW r \in Requests,
         RunStart(r) \/ Build(r) \/ RunCommit(r) \/ RunFail(r) \/ RecordFailure(r)
  PROVE  TypeOK'
<1>1. CASE RunStart(r)
  <2> DEFINE s == [Idle EXCEPT !.op = "run", !.pc = "locked"]
  <2>1. s \in RequestRow /\ s.pc = "locked"
    BY RowTypes DEF RequestRow, Idle
  <2>2. request' = [request EXCEPT ![r] = s] /\ revLock = NoRequest /\ revLock' = r
    BY <1>1 DEF RunStart
  <2>3. request[r].pc = "idle" /\ writes' \in 0 .. MaxWrites
    BY <1>1, RowTypes, CloseBounds DEF RunStart, Spend, TypeOK
  <2>4. request' \in [Requests -> RequestRow] /\ request'[r].pc = "locked"
    BY <2>1, <2>2 DEF TypeOK
  <2>5. \A q \in Requests :
          /\ revLock' = q <=> request'[q].pc \in {"locked", "built"}
          /\ snapLock = q <=> request'[q].pc \in {"built", "viewed"}
    BY <2>2, <2>3, <2>4, CloseBounds DEF TypeOK
  <2> QED BY <1>1, <2>2, <2>3, <2>4, <2>5 DEF RunStart, TypeOK
<1>2. CASE Build(r)
  <2> DEFINE s == [request[r] EXCEPT !.pc = "built", !.built = Rebuilt]
  <2>1. s \in RequestRow /\ s.pc = "built"
    BY RebuiltType DEF RequestRow, TypeOK
  <2>2. request' = [request EXCEPT ![r] = s]
    BY <1>2 DEF Build, TypeOK, RequestRow
  <2> QED BY <1>2, <2>1, <2>2, CloseBounds DEF Build, TypeOK
<1>3. CASE RunCommit(r)
  <2>1. /\ facts \in FactsRow /\ facts.clean \in BOOLEAN /\ facts.period \in Nat
        /\ request[r].built.id + 1 \in Nat /\ revision + 1 \in Nat
    BY DEF TypeOK, FactsRow, RequestRow, SnapRow
  <2>2. flagged' \in SUBSET Sources /\ passed' \in BOOLEAN /\ revision' \in Nat
    BY <1>3, <2>1 DEF RunCommit, TypeOK, Sources
  <2>3. snap' \in SnapRow /\ snap'.id \in Nat
    BY <1>3, <2>1, <2>2 DEF RunCommit, SnapRow
  <2>4. close' \in CloseRow
    BY <1>3, <2>1, <2>2, <2>3 DEF RunCommit, TypeOK, CloseRow
  <2> QED BY <1>3, <2>2, <2>3, <2>4, EndType DEF RunCommit, TypeOK
<1>4. CASE RunFail(r)
  <2> DEFINE s == [Idle EXCEPT !.op = "run", !.pc = "failing"]
  <2>1. s \in RequestRow /\ s.pc = "failing"
    BY RowTypes DEF RequestRow, Idle
  <2> QED BY <1>4, <2>1, CloseBounds DEF RunFail, ReleaseOf, TypeOK
<1>5. CASE RecordFailure(r)
  BY <1>5, RowTypes, SetRequest DEF RecordFailure, TypeOK
<1> QED
  BY <1>1, <1>2, <1>3, <1>4, <1>5

LEMMA TypeTrust ==
  ASSUME TypeOK, NEW r \in Requests,
         \/ \E op \in {"trust", "reopen"} : Read(r, op)
         \/ TrustLock(r) \/ TrustCommit(r) \/ TrustRefuse(r) \/ ReopenCommit(r)
  PROVE  TypeOK'
<1>1. ASSUME NEW op \in {"trust", "reopen"}, Read(r, op) PROVE TypeOK'
  <2> DEFINE s == [Idle EXCEPT !.op = op, !.pc = "read", !.seen = close]
  <2>1. s \in RequestRow /\ s.pc = "read" /\ request[r].pc = "idle"
    BY <1>1, RowTypes DEF RequestRow, Idle, Read, TypeOK
  <2> QED BY <1>1, <2>1, SetRequest DEF Read, TypeOK
<1>2. CASE TrustLock(r)
  <2>1. CASE Held(r).status # "review_required"
    BY <1>2, <2>1, RowTypes, SetRequest DEF TrustLock, TypeOK
  <2>2. CASE Held(r).status = "review_required"
    <3> DEFINE s == [request[r] EXCEPT !.pc = "locked", !.seen = Held(r), !.rev = revision]
    <3>1. Held(r) \in CloseRow
      BY DEF Held, TypeOK, RequestRow
    <3>2. s \in RequestRow /\ s.pc = "locked"
      BY <3>1 DEF RequestRow, TypeOK
    <3>3. /\ request' = [request EXCEPT ![r] = s] /\ request[r].pc = "read"
          /\ revLock = NoRequest /\ revLock' = r
      BY <1>2, <2>2 DEF TrustLock, TypeOK, RequestRow
    <3>4. request' \in [Requests -> RequestRow] /\ request'[r].pc = "locked"
      BY <3>2, <3>3 DEF TypeOK
    <3>5. \A q \in Requests :
            /\ revLock' = q <=> request'[q].pc \in {"locked", "built"}
            /\ snapLock = q <=> request'[q].pc \in {"built", "viewed"}
      BY <3>3, <3>4, CloseBounds DEF TypeOK
    <3> QED BY <1>2, <3>3, <3>4, <3>5 DEF TrustLock, TypeOK
  <2> QED BY <2>1, <2>2
<1>3. CASE TrustCommit(r)
  <2>1. close' \in CloseRow /\ snap' \in SnapRow
    BY <1>3 DEF TrustCommit, TypeOK, CloseRow, RequestRow
  <2> QED BY <1>3, <2>1, EndType DEF TrustCommit, TypeOK
<1>4. CASE TrustRefuse(r)
  BY <1>4, EndType DEF TrustRefuse, TypeOK
<1>5. CASE ReopenCommit(r)
  <2>1. close' \in CloseRow
    BY <1>5 DEF ReopenCommit, TypeOK, CloseRow
  <2> QED BY <1>5, <2>1, RowTypes, SetRequest DEF ReopenCommit, TypeOK
<1> QED
  BY <1>1, <1>2, <1>3, <1>4, <1>5

LEMMA TypeViews ==
  ASSUME TypeOK, NEW r \in Requests,
         \/ \E op \in {"dashboard", "forecast"} : ViewBuild(r, op)
         \/ DashboardCommit(r) \/ ForecastCommit(r) \/ DeadlockVictim(r)
  PROVE  TypeOK'
<1>1. ASSUME NEW op \in {"dashboard", "forecast"}, ViewBuild(r, op) PROVE TypeOK'
  <2> DEFINE s == [Idle EXCEPT !.op = op, !.pc = "viewed", !.built = Rebuilt]
  <2>1. s \in RequestRow /\ s.pc = "viewed"
    BY RowTypes, RebuiltType DEF RequestRow, Idle
  <2>2. /\ request' = [request EXCEPT ![r] = s] /\ request[r].pc = "idle"
        /\ snapLock = NoRequest /\ snapLock' = r /\ revLock' = revLock
    BY <1>1, RowTypes DEF ViewBuild
  <2>3. request' \in [Requests -> RequestRow] /\ request'[r].pc = "viewed"
    BY <2>1, <2>2 DEF TypeOK
  <2>4. \A q \in Requests :
          /\ revLock = q <=> request'[q].pc \in {"locked", "built"}
          /\ snapLock' = q <=> request'[q].pc \in {"built", "viewed"}
    BY <2>2, <2>3, CloseBounds DEF TypeOK
  <2>5. writes' \in 0 .. MaxWrites
    BY <1>1, SpendType DEF ViewBuild, TypeOK
  <2> QED BY <1>1, <2>2, <2>3, <2>4, <2>5 DEF ViewBuild, TypeOK
<1>2. CASE DashboardCommit(r)
  <2>1. snap' \in SnapRow
    BY <1>2 DEF DashboardCommit, TypeOK, RequestRow
  <2> QED BY <1>2, <2>1, EndType DEF DashboardCommit, TypeOK
<1>3. CASE ForecastCommit(r)
  <2>1. snap' \in SnapRow /\ flagged' \in SUBSET Sources /\ revision' \in Nat
    BY <1>3 DEF ForecastCommit, TypeOK, RequestRow, Sources
  <2> QED BY <1>3, <2>1, EndType DEF ForecastCommit, TypeOK
<1>4. CASE DeadlockVictim(r)
  BY <1>4, EndType DEF DeadlockVictim, TypeOK
<1> QED
  BY <1>1, <1>2, <1>3, <1>4

LEMMA TypeNext == TypeOK /\ [Next]_vars => TypeOK'
<1> SUFFICES ASSUME TypeOK, [Next]_vars PROVE TypeOK'
  OBVIOUS
<1>1. ASSUME NEW r \in Requests, Begin(r) \/ Step(r) PROVE TypeOK'
  BY <1>1, TypeRun, TypeTrust, TypeViews DEF Begin, Step
<1>2. CASE UNCHANGED vars
  BY <1>2 DEF vars, TypeOK
<1> QED
  BY <1>1, <1>2, TypeEnvironment DEF Next

(* Every reachable state is well typed, and a lock is held by the request   *)
(* that took it and has not ended its transaction, by nobody else           *)
(* (lock_household_financial_revision, _lock_snapshot_key).                 *)
THEOREM CloseTypeCorrect == Spec => []TypeOK
<1> QED
  BY TypeInit, TypeNext, PTL DEF Spec

-----------------------------------------------------------------------------
(* The inductive invariant.  A session may hold a close row older than the  *)
(* committed one, but never a newer one; and while a trust holds the        *)
(* revision row nothing it compares with can move.                          *)
SessionsBehind ==
    \A r \in Requests :
      LET seen == request[r].seen IN
        seen.status # "none" =>
          /\ close.status # "none"
          /\ seen.revision <= close.revision
          /\ seen.revision = close.revision => seen.snapshot = close.snapshot

Barrier ==
    \A r \in Requests :
      request[r].op = "trust" /\ request[r].pc \in {"locked", "built"} =>
        /\ request[r].rev = revision
        /\ request[r].seen.status # "none"
        /\ request[r].pc = "built" => request[r].built.body.period = facts.period

CloseInv ==
    /\ TypeOK
    /\ close.revision <= revision
    /\ RevisionStandsForFacts
    /\ SessionsBehind
    /\ Barrier

LEMMA NumberTypes ==
  ASSUME TypeOK
  PROVE  /\ revision \in Nat /\ close.revision \in Nat
         /\ \A r \in Requests : request[r].seen.revision \in Nat
  BY DEF TypeOK, CloseRow, RequestRow

LEMMA InvInit == Init => CloseInv
<1> SUFFICES ASSUME Init PROVE CloseInv
  OBVIOUS
<1>1. close.status = "none" /\ close.revision <= revision
  BY DEF Init, NoClose
<1>2. \A r \in Requests : request[r] = Idle
  BY DEF Init
<1>3. SessionsBehind /\ Barrier
  BY <1>2, RowTypes DEF SessionsBehind, Barrier
<1> QED
  BY <1>1, <1>3, TypeInit DEF CloseInv, RevisionStandsForFacts

(* Whoever moves the revision without holding its row finds no trust in     *)
(* progress, and leaves every recorded revision behind.                     *)
LEMMA RevisionMoves ==
  ASSUME CloseInv, revLock = NoRequest, revision' = revision + 1, close' = close,
         \A r \in Requests : request'[r] = request[r] \/ request'[r] = Idle
  PROVE  /\ close'.revision <= revision' /\ RevisionStandsForFacts'
         /\ SessionsBehind' /\ Barrier'
<1> USE DEF CloseInv
<1>1. close.revision < revision'
  BY NumberTypes
<1>2. \A r \in Requests : request[r].pc \notin {"locked", "built"}
  BY CloseBounds DEF TypeOK
<1>3. RevisionStandsForFacts' /\ close'.revision <= revision'
  BY <1>1, NumberTypes DEF RevisionStandsForFacts
<1>4. SessionsBehind'
  BY RowTypes DEF SessionsBehind
<1>5. Barrier'
  BY <1>2, RowTypes DEF Barrier
<1> QED
  BY <1>3, <1>4, <1>5

(* A transaction that leaves the close row and the household's data as they *)
(* are, and at most ends.                                                   *)
LEMMA NothingMoves ==
  ASSUME CloseInv, revision' = revision, facts' = facts, passed' = passed,
         close'.status = "none" <=> close.status = "none",
         close'.revision = close.revision, close'.examined = close.examined,
         close'.snapshot = close.snapshot,
         \A r \in Requests :
            \/ request'[r] = request[r]
            \/ request'[r].op # "trust" /\ request'[r].seen.status = "none"
  PROVE  /\ close'.revision <= revision' /\ RevisionStandsForFacts'
         /\ SessionsBehind' /\ Barrier'
<1> USE DEF CloseInv
<1>1. RevisionStandsForFacts' /\ close'.revision <= revision'
  BY DEF RevisionStandsForFacts
<1>2. SessionsBehind'
  BY DEF SessionsBehind
<1>3. Barrier'
  BY DEF Barrier
<1> QED
  BY <1>1, <1>2, <1>3

LEMMA EndsOnly ==
  ASSUME TypeOK, NEW r \in Requests, End(r)
  PROVE  \A q \in Requests : request'[q] = request[q] \/ request'[q] = Idle
  BY DEF End, TypeOK

LEMMA InvEnvironment ==
  ASSUME CloseInv,
         ChangeFacts \/ IntegrityRun \/ \E source \in Sources : DismissFinding(source)
  PROVE  CloseInv'
<1>1. revLock = NoRequest /\ revision' = revision + 1 /\ close' = close /\ request' = request
  BY DEF ChangeFacts, IntegrityRun, DismissFinding
<1> QED
  BY <1>1, RevisionMoves, TypeEnvironment DEF CloseInv

LEMMA InvRun ==
  ASSUME CloseInv, NEW r \in Requests,
         RunStart(r) \/ Build(r) \/ RunCommit(r) \/ RunFail(r) \/ RecordFailure(r)
  PROVE  CloseInv'
<1> USE DEF CloseInv
<1>1. TypeOK'
  BY TypeRun
<1>2. CASE RunStart(r) \/ RunFail(r)
  <2>1. \A q \in Requests :
          \/ request'[q] = request[q]
          \/ request'[q].op # "trust" /\ request'[q].seen.status = "none"
    BY <1>2, RowTypes DEF RunStart, RunFail, TypeOK, Idle
  <2> QED BY <1>1, <1>2, <2>1, NothingMoves DEF RunStart, RunFail
<1>3. CASE Build(r)
  <2>1. \A q \in Requests :
          /\ request'[q].seen = request[q].seen
          /\ request'[q].op = request[q].op /\ request'[q].rev = request[q].rev
          /\ q # r => request'[q] = request[q]
    BY <1>3 DEF Build, TypeOK, RequestRow
  <2>2. request[r].pc = "locked" /\ request'[r].built.body.period = facts.period
    BY <1>3, RebuiltType DEF Build, TypeOK, RequestRow
  <2>3. revision' = revision /\ facts' = facts /\ close' = close /\ passed' = passed
    BY <1>3 DEF Build
  <2>4. SessionsBehind'
    BY <2>1, <2>3 DEF SessionsBehind
  <2>5. Barrier'
    BY <2>1, <2>2, <2>3 DEF Barrier
  <2> QED BY <1>1, <2>3, <2>4, <2>5 DEF RevisionStandsForFacts
<1>4. CASE RunCommit(r)
  <2>1. /\ revision' = revision + 1 /\ facts' = facts /\ passed' = facts.clean
        /\ close'.status = "review_required" /\ close'.revision = revision'
        /\ close'.examined = facts
    BY <1>4 DEF RunCommit, TypeOK, CloseRow
  <2>2. \A q \in Requests : q # r => request[q].pc \notin {"locked", "built"}
    BY <1>4 DEF RunCommit, TypeOK
  <2>3. End(r)
    BY <1>4 DEF RunCommit
  <2>4. \A q \in Requests : request'[q].seen.status # "none" => request'[q] = request[q]
    BY <2>3, EndsOnly, RowTypes
  <2>5. SessionsBehind'
    BY <2>1, <2>4, NumberTypes DEF SessionsBehind
  <2>6. Barrier'
    BY <2>2, <2>3, EndsOnly, RowTypes DEF Barrier, End, TypeOK
  <2>7. close'.revision <= revision'
    BY <2>1, NumberTypes
  <2> QED BY <1>1, <2>1, <2>5, <2>6, <2>7 DEF RevisionStandsForFacts
<1>5. CASE RecordFailure(r)
  <2>1. /\ revLock = NoRequest /\ revision' = revision + 1 /\ close' = close
        /\ \A q \in Requests : request'[q] = request[q] \/ request'[q] = Idle
    BY <1>5 DEF RecordFailure, TypeOK
  <2> QED BY <1>1, <2>1, RevisionMoves
<1> QED
  BY <1>2, <1>3, <1>4, <1>5

LEMMA InvTrust ==
  ASSUME CloseInv, NEW r \in Requests,
         \/ \E op \in {"trust", "reopen"} : Read(r, op)
         \/ TrustLock(r) \/ TrustCommit(r) \/ TrustRefuse(r) \/ ReopenCommit(r)
  PROVE  CloseInv'
<1> USE DEF CloseInv
<1>1. TypeOK'
  BY TypeTrust
<1>2. ASSUME NEW op \in {"trust", "reopen"}, Read(r, op) PROVE CloseInv'
  <2>1. /\ request'[r].pc = "read" /\ request'[r].seen = close
        /\ \A q \in Requests : q # r => request'[q] = request[q]
    BY <1>2, RowTypes DEF Read, TypeOK, Idle
  <2>2. UNCHANGED <<close, revision, facts, passed>>
    BY <1>2 DEF Read
  <2>3. SessionsBehind'
    BY <2>1, <2>2, NumberTypes DEF SessionsBehind
  <2>4. Barrier'
    BY <2>1, <2>2 DEF Barrier
  <2> QED BY <1>1, <2>2, <2>3, <2>4 DEF RevisionStandsForFacts
<1>3. CASE TrustLock(r)
  <2>1. UNCHANGED <<close, revision, facts, passed>>
    BY <1>3 DEF TrustLock
  <2>2. CASE Held(r).status # "review_required"
    <3>1. \A q \in Requests : request'[q] = request[q] \/ request'[q] = Idle
      BY <1>3, <2>2 DEF TrustLock, TypeOK
    <3> QED BY <1>1, <2>1, <3>1, NothingMoves, RowTypes
  <2>3. CASE Held(r).status = "review_required"
    <3>1. /\ request'[r].pc = "locked" /\ request'[r].seen = Held(r)
          /\ request'[r].rev = revision
          /\ \A q \in Requests : q # r => request'[q] = request[q]
      BY <1>3, <2>3 DEF TrustLock, TypeOK, RequestRow
    <3>2. Held(r) = close \/ Held(r) = request[r].seen
      BY DEF Held
    <3>3. SessionsBehind'
      BY <2>1, <3>1, <3>2, NumberTypes DEF SessionsBehind
    <3>4. Barrier'
      BY <2>1, <2>3, <3>1 DEF Barrier
    <3> QED BY <1>1, <2>1, <3>3, <3>4 DEF RevisionStandsForFacts
  <2> QED BY <2>2, <2>3
<1>4. CASE TrustCommit(r)
  <2>1. close.status # "none"
    BY <1>4 DEF TrustCommit, Barrier, SessionsBehind
  <2>2. /\ UNCHANGED <<revision, facts, passed>> /\ End(r)
        /\ close'.status = "trusted" /\ close'.revision = close.revision
        /\ close'.examined = close.examined /\ close'.snapshot = close.snapshot
    BY <1>4 DEF TrustCommit, TypeOK, CloseRow
  <2> QED BY <1>1, <2>1, <2>2, EndsOnly, NothingMoves, RowTypes
<1>5. CASE TrustRefuse(r)
  <2>1. UNCHANGED <<close, revision, facts, passed>> /\ End(r)
    BY <1>5 DEF TrustRefuse
  <2> QED BY <1>1, <2>1, EndsOnly, NothingMoves, RowTypes
<1>6. CASE ReopenCommit(r)
  <2>1. Held(r).status = "trusted" => close.status # "none"
    BY DEF Held, SessionsBehind
  <2>2. /\ UNCHANGED <<revision, facts, passed>>
        /\ close'.status = "none" <=> close.status = "none"
        /\ close'.revision = close.revision
        /\ close'.examined = close.examined /\ close'.snapshot = close.snapshot
    BY <1>6, <2>1 DEF ReopenCommit, TypeOK, CloseRow
  <2>3. \A q \in Requests : request'[q] = request[q] \/ request'[q] = Idle
    BY <1>6 DEF ReopenCommit, TypeOK
  <2> QED BY <1>1, <2>2, <2>3, NothingMoves, RowTypes
<1> QED
  BY <1>2, <1>3, <1>4, <1>5, <1>6

LEMMA InvViews ==
  ASSUME CloseInv, NEW r \in Requests,
         \/ \E op \in {"dashboard", "forecast"} : ViewBuild(r, op)
         \/ DashboardCommit(r) \/ ForecastCommit(r) \/ DeadlockVictim(r)
  PROVE  CloseInv'
<1> USE DEF CloseInv
<1>1. TypeOK'
  BY TypeViews
<1>2. ASSUME NEW op \in {"dashboard", "forecast"}, ViewBuild(r, op) PROVE CloseInv'
  <2>1. \A q \in Requests :
          \/ request'[q] = request[q]
          \/ request'[q].op # "trust" /\ request'[q].seen.status = "none"
    BY <1>2, RowTypes DEF ViewBuild, TypeOK, Idle
  <2> QED BY <1>1, <1>2, <2>1, NothingMoves DEF ViewBuild
<1>3. CASE DashboardCommit(r) \/ DeadlockVictim(r)
  <2>1. UNCHANGED <<close, revision, facts, passed>> /\ End(r)
    BY <1>3 DEF DashboardCommit, DeadlockVictim
  <2> QED BY <1>1, <2>1, EndsOnly, NothingMoves, RowTypes
<1>4. CASE ForecastCommit(r)
  <2>1. revLock = NoRequest /\ revision' = revision + 1 /\ close' = close /\ End(r)
    BY <1>4 DEF ForecastCommit
  <2> QED BY <1>1, <2>1, EndsOnly, RevisionMoves
<1> QED
  BY <1>2, <1>3, <1>4

LEMMA InvNext == CloseInv /\ [Next]_vars => CloseInv'
<1> SUFFICES ASSUME CloseInv, [Next]_vars PROVE CloseInv'
  OBVIOUS
<1>1. ASSUME NEW r \in Requests, Begin(r) \/ Step(r) PROVE CloseInv'
  BY <1>1, InvRun, InvTrust, InvViews DEF Begin, Step
<1>2. CASE UNCHANGED vars
  <2>1. TypeOK'
    BY TypeNext DEF CloseInv
  <2> QED BY <1>2, <2>1, NothingMoves DEF vars, CloseInv
<1> QED
  BY <1>1, <1>2, InvEnvironment DEF Next

LEMMA InvCorrect == Spec => []CloseInv
<1> QED
  BY InvInit, InvNext, PTL DEF Spec

(* While the revision is the one the close recorded, the facts are those    *)
(* its run examined and the verdict is the verdict on them, for any number  *)
(* of requests and writes (financial_revision.py).                          *)
THEOREM CloseRevisionStandsForFacts == Spec => []RevisionStandsForFacts
<1>1. CloseInv => RevisionStandsForFacts
  BY DEF CloseInv
<1> QED
  BY <1>1, InvCorrect, PTL

-----------------------------------------------------------------------------
(* What a trust commits: it held the revision row since it compared the     *)
(* close with it, so the comparison is still good.                          *)
LEMMA TrustEvidence ==
  ASSUME CloseInv, NEW r \in Requests, TrustCommit(r)
  PROVE  /\ close.status # "none" /\ close.examined = facts /\ facts.clean
         /\ close'.snapshot = snap'.id /\ snap'.body.period = facts.period
<1> USE DEF CloseInv
<1>1. /\ request[r].seen.revision = request[r].rev /\ request[r].rev = revision
      /\ request[r].seen.status # "none"
      /\ request[r].seen.snapshot = request[r].built.id
      /\ request[r].built.body.period = facts.period
  BY DEF TrustCommit, GatesPass, Barrier
<1>2. /\ close.status # "none" /\ close.revision = revision
      /\ close.snapshot = request[r].built.id
  BY <1>1, NumberTypes DEF SessionsBehind
<1>3. close'.snapshot = close.snapshot /\ snap' = request[r].built /\ passed
  BY DEF TrustCommit, GatesPass, TypeOK, CloseRow
<1> QED
  BY <1>1, <1>2, <1>3 DEF RevisionStandsForFacts

(* Only a trust makes a period trusted.                                     *)
LEMMA OnlyTrust ==
  ASSUME CloseInv, [Next]_vars, close.status # "trusted", close'.status = "trusted"
  PROVE  \E r \in Requests : TrustCommit(r)
<1> USE DEF CloseInv
<1>1. close' # close
  OBVIOUS
<1>2. ASSUME NEW r \in Requests, RunCommit(r) PROVE FALSE
  BY <1>2 DEF RunCommit, TypeOK, CloseRow
<1>3. ASSUME NEW r \in Requests, ReopenCommit(r) PROVE FALSE
  BY <1>3 DEF ReopenCommit, TypeOK, CloseRow
<1>4. ASSUME NEW r \in Requests, Begin(r) PROVE FALSE
  BY <1>1, <1>4 DEF Begin, RunStart, Read, ViewBuild
<1>5. ASSUME NEW r \in Requests, Step(r) PROVE TrustCommit(r)
  BY <1>1, <1>2, <1>3, <1>5 DEF Step, Build, RunFail, RecordFailure, TrustLock, TrustRefuse,
     DashboardCommit, ForecastCommit, DeadlockVictim
<1> QED
  BY <1>1, <1>4, <1>5 DEF Next, vars, ChangeFacts, IntegrityRun, DismissFinding

(* A period becomes trusted only on rows its checks would pass today, and   *)
(* with the snapshot that shows them (trust_monthly_close).                 *)
THEOREM CloseTrustedOnEvidence == Spec => TrustedOnEvidence
<1>1. CloseInv /\ [Next]_vars =>
        [close.status # "trusted" /\ close'.status = "trusted" =>
          /\ facts.clean
          /\ close'.snapshot = snap'.id /\ snap'.body.period = facts.period]_vars
  BY OnlyTrust, TrustEvidence
<1> QED
  BY <1>1, InvCorrect, PTL DEF Spec, TrustedOnEvidence

-----------------------------------------------------------------------------
LEMMA ReviewStart == Init => Review!ReviewInit
  BY DEF Init, NoClose, Review!ReviewInit

LEMMA ReviewStep ==
  ASSUME CloseInv, [Next]_vars
  PROVE  [Review!ReviewNext]_(Review!reviewVars)
<1> USE DEF CloseInv, Review!reviewVars, Review!ReviewNext
<1>1. CASE ChangeFacts
  <2>1. /\ facts.period \in Nat /\ facts.other \in Nat
        /\ facts \in FactsRow
    BY DEF TypeOK, FactsRow
  <2>2. facts'.period = facts.period + 1 \/ facts'.other = facts.other + 1
    BY <1>1, <2>1 DEF ChangeFacts, FactsRow
  <2>3. facts' # facts
    BY <2>1, <2>2
  <2> QED BY <1>1, <2>3 DEF ChangeFacts, Review!Change
<1>2. ASSUME NEW r \in Requests, RunCommit(r) PROVE Review!Examine
  BY <1>2 DEF RunCommit, Runnable, TypeOK, CloseRow, Review!Examine
<1>3. ASSUME NEW r \in Requests, TrustCommit(r)
      PROVE  Review!Trust \/ UNCHANGED Review!reviewVars
  <2>1. /\ close'.status = "trusted" /\ close'.examined = close.examined
        /\ facts' = facts
        /\ close.status \in {"none", "review_required", "trusted"}
    BY <1>3 DEF TrustCommit, TypeOK, CloseRow
  <2> QED BY <1>3, <2>1, TrustEvidence DEF Review!Trust
<1>4. ASSUME NEW r \in Requests, ReopenCommit(r)
      PROVE  Review!Reopen \/ UNCHANGED Review!reviewVars
  <2>1. Held(r).status = "trusted" => close.status # "none"
    BY DEF Held, SessionsBehind
  <2>2. \/ close' = close
        \/ /\ close'.status = "review_required" /\ close'.examined = close.examined
           /\ close.status \in {"review_required", "trusted"}
    BY <1>4, <2>1 DEF ReopenCommit, TypeOK, CloseRow
  <2> QED BY <1>4, <2>2 DEF ReopenCommit, Review!Reopen
<1>5. ASSUME NEW r \in Requests, Begin(r) PROVE UNCHANGED Review!reviewVars
  BY <1>5 DEF Begin, RunStart, Read, ViewBuild
<1>6. ASSUME NEW r \in Requests, Step(r) PROVE [Review!ReviewNext]_(Review!reviewVars)
  BY <1>2, <1>3, <1>4, <1>6 DEF Step, Build, RunFail, RecordFailure, TrustLock, TrustRefuse,
     DashboardCommit, ForecastCommit, DeadlockVictim
<1>7. CASE IntegrityRun \/ \E source \in Sources : DismissFinding(source)
  BY <1>7 DEF IntegrityRun, DismissFinding
<1>8. CASE UNCHANGED vars
  BY <1>8 DEF vars
<1> QED
  BY <1>1, <1>5, <1>6, <1>7, <1>8 DEF Next

(* The requests on a period implement PeriodReview: trusted only on the     *)
(* facts the run examined, never demoted but by a reopen.                   *)
THEOREM CloseImplementsReview == Spec => ImplementsReview
<1> QED
  BY ReviewStart, ReviewStep, InvCorrect, PTL DEF Spec, ImplementsReview, Review!ReviewSpec
=============================================================================
