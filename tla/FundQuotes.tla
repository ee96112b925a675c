----------------------------- MODULE FundQuotes -----------------------------
(***************************************************************************)
(* The daily valuation of a household's fund units from the quotas CVM     *)
(* publishes (services/privilege_valuation.py, cli/cvm_valuation_worker.py,*)
(* services/cvm_client.py).  A pass of the worker ingests the latest quota *)
(* and values the household's latest position once for each quota day; a   *)
(* person records positions and movements of units, which are only ever    *)
(* appended.  Nothing is locked: the loop and a run by hand may overlap,   *)
(* and so may two people.                                                  *)
(***************************************************************************)
EXTENDS Integers, Sequences, FiniteSets

CONSTANTS Passes,       \* processes that run passes: the loop, a run by hand
          LastQuotaDay, \* quota days are 1 .. LastQuotaDay
          MonthOf, Quota, \* the month of a day, the quota of a day
          Holdings,     \* units a statement may show
          Deltas,       \* units applied (> 0) or redeemed (< 0)
          MaxPositions  \* bound: rows of evidence

QuotaDays == 1 .. LastQuotaDay
ASSUME FundDays == LastQuotaDay \in Nat /\ MonthOf \in [QuotaDays -> Nat]
ASSUME FundQuotas == Quota \in [QuotaDays -> Nat \ {0}]
ASSUME FundUnits == Holdings \subseteq Nat /\ Deltas \subseteq Int \ {0}

VARIABLES published,  \* the last day CVM has published, 0 before the first
          quotes,     \* FundReferenceQuote days, in the order ingested
          positions,  \* FundUnitPosition rows, in the order recorded
          valuations, \* FundValuation rows by quota day
          pass,       \* what each process does
          heartbeat,  \* [running, ok]: the singleton NotificationWorkerHeartbeat row
          moving,     \* a movement that has read the position and not written
          unordered   \* history: what the code does not guard against

fqVars == <<published, quotes, positions, valuations, pass, heartbeat, moving, unordered>>

NotRunning == [step |-> "idle"]
NoMove == [delta |-> 0]
NotValued == [units |-> 0, gross |-> 0, before |-> -1]
Nothing == -1 \* previous_gross_value of the first valuation

FqTypeOK ==
    /\ published \in 0 .. LastQuotaDay
    /\ quotes \in Seq(QuotaDays)
    /\ \A n, k \in DOMAIN quotes : quotes[n] = quotes[k] => n = k
    /\ \A n \in DOMAIN positions :
          positions[n].units \in Nat /\ positions[n].day \in QuotaDays
    /\ DOMAIN valuations \subseteq {quotes[n] : n \in DOMAIN quotes}
    /\ DOMAIN pass = Passes
    /\ heartbeat \in [running : BOOLEAN, ok : BOOLEAN]
    /\ moving.delta \in Deltas \cup {0}
    /\ unordered \subseteq {"backdated", "overlap", "overtaken"}

-----------------------------------------------------------------------------
Greatest(S) == CHOOSE d \in S : \A e \in S : e <= d

(* The client reads the file of the month, and the month before when that  *)
(* cannot be read or shows no row of the fund: it may find an older day.   *)
InMonth(mth) == {d \in 1 .. published : MonthOf[d] = mth}
Quoted ==
    IF published = 0 THEN {}
    ELSE LET mth == MonthOf[published] IN
         {Greatest(InMonth(m)) : m \in {n \in {mth - 1, mth} : InMonth(n) # {}}}

(* The latest quota is that of the latest day.                             *)
(* A mutant: the one ingested last.                                        *)
LatestQuoteIngested == quotes[Len(quotes)]
LatestQuote == Greatest({quotes[n] : n \in DOMAIN quotes})

(* By effective date, then by creation.                                    *)
(* A mutant: the first row of the latest date.                             *)
LatestPositionOfDay ==
    positions[CHOOSE n \in DOMAIN positions : \A k \in DOMAIN positions \ {n} :
        positions[n].day > positions[k].day
        \/ (positions[n].day = positions[k].day /\ n < k)]
LatestPosition ==
    positions[CHOOSE n \in DOMAIN positions : \A k \in DOMAIN positions \ {n} :
        positions[n].day > positions[k].day
        \/ (positions[n].day = positions[k].day /\ n > k)]

LatestValuation == valuations[Greatest(DOMAIN valuations)]

ValuationOf(day, units) ==
    [units |-> units, gross |-> units * Quota[day],
     before |-> IF DOMAIN valuations = {} THEN Nothing ELSE LatestValuation.gross]

-----------------------------------------------------------------------------
FqInit ==
    /\ published = 0 /\ quotes = <<>> /\ positions = <<>>
    /\ valuations = [d \in {} |-> NotValued]
    /\ pass = [w \in Passes |-> NotRunning]
    /\ heartbeat = [running |-> FALSE, ok |-> FALSE]
    /\ moving = NoMove /\ unordered = {}

PublishQuota ==
    /\ published < LastQuotaDay
    /\ published' = published + 1
    /\ UNCHANGED <<quotes, positions, valuations, pass, heartbeat, moving, unordered>>

StartPass(w) ==
    /\ pass[w] = NotRunning
    /\ pass' = [pass EXCEPT ![w] = [step |-> "started"]]
    /\ heartbeat' = [heartbeat EXCEPT !.running = TRUE]
    /\ UNCHANGED <<published, quotes, positions, valuations, moving, unordered>>

(* CVM does not answer, or the quota is there already, or it is added.     *)
Ingest(w) ==
    /\ pass[w].step = "started"
    /\ \/ UNCHANGED quotes
       \/ \E d \in Quoted : /\ \A n \in DOMAIN quotes : quotes[n] # d
                            /\ quotes' = Append(quotes, d)
    /\ pass' = [pass EXCEPT ![w] = [step |-> "ingested"]]
    /\ UNCHANGED <<published, positions, valuations, heartbeat, moving, unordered>>

ReadHousehold(w) ==
    /\ pass[w].step = "ingested"
    /\ quotes # <<>> /\ positions # <<>>
    /\ pass' = [pass EXCEPT ![w] =
          [step |-> "valuing", day |-> LatestQuote, units |-> LatestPosition.units,
           seen |-> Len(quotes)]]
    /\ UNCHANGED <<published, quotes, positions, valuations, heartbeat, moving, unordered>>

(* The previous valuation is looked for after the quota was read; one row  *)
(* for each quota day, whoever else is at it.                              *)
ValueHousehold(w) ==
    /\ pass[w].step = "valuing"
    /\ LET day == pass[w].day IN
       IF day \in DOMAIN valuations THEN UNCHANGED <<valuations, unordered>>
       ELSE /\ valuations' = [d \in DOMAIN valuations \cup {day} |->
                  IF d = day THEN ValuationOf(day, pass[w].units) ELSE valuations[d]]
            /\ unordered' = IF Len(quotes) # pass[w].seen
                            THEN unordered \cup {"overtaken"} ELSE unordered
    /\ pass' = [pass EXCEPT ![w] = [step |-> "valued"]]
    /\ UNCHANGED <<published, quotes, positions, heartbeat, moving>>

(* A household whose valuation fails is counted and left for another pass. *)
FinishPass(w) ==
    /\ \/ pass[w].step = "ingested" /\ (quotes = <<>> \/ positions = <<>>)
       \/ pass[w].step \in {"valuing", "valued"}
    /\ pass' = [pass EXCEPT ![w] = NotRunning]
    /\ heartbeat' = [running |-> FALSE, ok |-> TRUE]
    /\ UNCHANGED <<published, quotes, positions, valuations, moving, unordered>>

AbortPass(w) ==
    /\ pass[w].step \in {"started", "ingested"}
    /\ pass' = [pass EXCEPT ![w] = NotRunning]
    /\ heartbeat' = [running |-> FALSE, ok |-> FALSE]
    /\ UNCHANGED <<published, quotes, positions, valuations, moving, unordered>>

KillPass(w) ==
    /\ pass[w] # NotRunning
    /\ pass' = [pass EXCEPT ![w] = NotRunning]
    /\ UNCHANGED <<published, quotes, positions, valuations, heartbeat, moving, unordered>>

-----------------------------------------------------------------------------
Recorded(row) ==
    /\ Len(positions) < MaxPositions
    /\ positions' = Append(positions, row)

Backdated(day) ==
    IF \E n \in DOMAIN positions : positions[n].day > day THEN {"backdated"} ELSE {}

RecordSnapshot(units, day) ==
    /\ Recorded([units |-> units, day |-> day, delta |-> 0])
    /\ unordered' = unordered \cup Backdated(day)
    /\ UNCHANGED <<published, quotes, valuations, pass, heartbeat, moving>>

(* A movement needs a position to apply to, and never leaves it negative.  *)
\* A mutant: only a movement of what is not there at all is refused.
AppliesToAny(delta, row) == row.units # 0 \/ delta >= 0
Applies(delta, row) == row.units + delta >= 0

RecordMovement(delta, day) ==
    /\ positions # <<>>
    /\ Applies(delta, LatestPosition)
    /\ Recorded([units |-> LatestPosition.units + delta, day |-> day, delta |-> delta])
    /\ unordered' = unordered \cup Backdated(day)
    /\ UNCHANGED <<published, quotes, valuations, pass, heartbeat, moving>>

ReadPosition(delta, day) ==
    /\ moving = NoMove /\ positions # <<>>
    /\ Applies(delta, LatestPosition)
    /\ moving' = [delta |-> delta, day |-> day, units |-> LatestPosition.units,
                  seen |-> Len(positions)]
    /\ UNCHANGED <<published, quotes, positions, valuations, pass, heartbeat, unordered>>

WritePosition ==
    /\ moving # NoMove
    /\ Recorded([units |-> moving.units + moving.delta, day |-> moving.day,
                 delta |-> moving.delta])
    /\ unordered' = unordered \cup Backdated(moving.day)
         \cup (IF Len(positions) # moving.seen THEN {"overlap"} ELSE {})
    /\ moving' = NoMove
    /\ UNCHANGED <<published, quotes, valuations, pass, heartbeat>>

FqNext ==
    \/ PublishQuota
    \/ \E w \in Passes : \/ StartPass(w) \/ Ingest(w) \/ ReadHousehold(w)
                         \/ ValueHousehold(w) \/ FinishPass(w)
                         \/ AbortPass(w) \/ KillPass(w)
    \/ \E day \in QuotaDays :
          \/ \E units \in Holdings : RecordSnapshot(units, day)
          \/ \E delta \in Deltas : RecordMovement(delta, day) \/ ReadPosition(delta, day)
    \/ WritePosition

FqSpec == FqInit /\ [][FqNext]_fqVars

-----------------------------------------------------------------------------
(* The units shown are the last statement's and every movement since,      *)
(* unless a row was recorded under an earlier date or two movements        *)
(* overlapped.                                                             *)
Reckoned ==
    LET upTo[n \in 0 .. Len(positions)] ==
            IF n = 0 THEN 0
            ELSE IF positions[n].delta = 0 THEN positions[n].units
                 ELSE upTo[n - 1] + positions[n].delta
    IN  upTo[Len(positions)]

UnitsFollowTheMovements ==
    (positions # <<>> /\ unordered \cap {"backdated", "overlap"} = {})
        => LatestPosition.units = Reckoned

(* Over days skipped, quotas found late, passes killed, retried or run     *)
(* twice, each valuation's variation is from that of the last valued day   *)
(* before it: the variations shown add up to the change of the estimate.   *)
(* Excepted: a pass that is overtaken between two of its reads.            *)
VariationsAddUp ==
    "overtaken" \notin unordered =>
        \A d \in DOMAIN valuations :
            LET earlier == {e \in DOMAIN valuations : e < d} IN
            valuations[d].before = IF earlier = {} THEN Nothing
                                   ELSE valuations[Greatest(earlier)].gross

(* Both together: units and valuations of a fund's holding follow from the *)
(* movements and the quotas (privilege_valuation.py).                      *)
HoldingsAddUp == UnitsFollowTheMovements /\ VariationsAddUp
=============================================================================
