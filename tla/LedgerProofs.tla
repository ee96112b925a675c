---------------------------- MODULE LedgerProofs ----------------------------
(***************************************************************************)
(* Manual transactions and obligations, and the Assistant's proposals over *)
(* them, for any rows, sessions, requests and amounts.                     *)
(*                                                                         *)
(* Obligations: what a commit writes over rows that changed after they     *)
(* were read, and so from which balance a payment was taken, the row that  *)
(* explains what is left, and the transaction of a paid obligation.        *)
(*                                                                         *)
(* Proposals: the sessions that race to confirm, cancel and undo one       *)
(* implement OneShotDecision.                                              *)
(***************************************************************************)
EXTENDS Assistant, FiniteSetTheorems, WellFoundedInduction, TLAPS

-----------------------------------------------------------------------------
(* Manual transactions and obligations.  The rows of the three tables.      *)
TxRow == [kind : Kinds, amount : Nat, day : Nat, imported : BOOLEAN, counts : BOOLEAN,
          group : TxIds \cup {None}, peer : TxIds \cup {None}]
ObRow == [status : {"pending", "paid", "cancelled"}, paidTx : TxIds \cup {None},
          created : BOOLEAN, privilege : BOOLEAN, fundTx : TxIds \cup {None},
          fundObs : ObsIds \cup {None}]
ObsRow == [used : BOOLEAN, amount : Nat, asOf : Nat, prev : ObsIds \cup {None},
           next : ObsIds \cup {None}, invalid : BOOLEAN, trace : TxIds \cup {None}]

LEMMA TablesAre == Tables = [tx : [TxIds -> TxRow], ob : [Obligations -> ObRow],
                             obs : [ObsIds -> ObsRow]]
  BY DEF Tables, TxRow, ObRow, ObsRow

LEMMA TablesOf ==
  ASSUME NEW d \in Tables
  PROVE  /\ d.tx \in [TxIds -> TxRow] /\ d.ob \in [Obligations -> ObRow]
         /\ d.obs \in [ObsIds -> ObsRow]
         /\ d = [tx |-> d.tx, ob |-> d.ob, obs |-> d.obs]
  BY TablesAre

LEMMA IdsAreNat == TxIds \subseteq Nat /\ ObsIds \subseteq Nat /\ None \notin TxIds \cup ObsIds
                   /\ IsFiniteSet(TxIds) /\ IsFiniteSet(ObsIds)
  BY NatBounds, RowBounds, FS_Interval DEF TxIds, ObsIds

LEMMA LeastNumber ==
  ASSUME NEW S \in SUBSET Nat, S # {}
  PROVE  \E m \in S : \A k \in S : m <= k
<1> DEFINE R == {ss \in Nat \X Nat : ss[1] < ss[2]}
<1>1. IsWellFoundedOn(R, Nat)
  <2> R = OpToRel(<, Nat)
    BY DEF OpToRel
  <2> QED
    BY NatLessThanWellFounded
<1>2. \A x, y \in Nat : y < x => <<y, x>> \in R
  OBVIOUS
<1> HIDE DEF R
<1>3. PICK x \in S : \A y \in S : ~ (<<y, x>> \in R)
  BY <1>1, WFMin
<1>4. ASSUME NEW y \in S PROVE x <= y
  <2>1. x \in Nat /\ y \in Nat
    OBVIOUS
  <2>2. ~ (y < x)
    BY <2>1, <1>2, <1>3
  <2> QED
    BY <2>1, <2>2
<1> QED
  BY <1>4

(* A finite set has an element of which a number is as high as of any.      *)
LEMMA Foremost ==
  ASSUME NEW S, IsFiniteSet(S), S # {}, NEW f \in [S -> Nat]
  PROVE  \E r \in S : \A s \in S : f[s] <= f[r]
<1> DEFINE Above(r) == {s \in S : f[s] > f[r]}
           Ns == {Cardinality(Above(r)) : r \in S}
<1>1. ASSUME NEW r \in S PROVE IsFiniteSet(Above(r)) /\ Cardinality(Above(r)) \in Nat
  <2> Above(r) \subseteq S
    OBVIOUS
  <2> HIDE DEF Above
  <2> QED
    BY FS_Subset, FS_CardinalityType
<1>2. PICK m \in Ns : \A k \in Ns : m <= k
  <2> Ns \in SUBSET Nat /\ Ns # {}
    BY <1>1
  <2> HIDE DEF Ns
  <2> QED
    BY LeastNumber
<1>3. PICK r \in S : m = Cardinality(Above(r))
  BY <1>2
<1>4. ASSUME NEW s \in S, f[s] > f[r] PROVE FALSE
  <2>1. Above(s) \subseteq Above(r) /\ s \in Above(r) /\ s \notin Above(s)
    BY <1>4
  <2>2. Cardinality(Above(s)) \in Ns
    OBVIOUS
  <2> HIDE DEF Above, Ns
  <2>3. Cardinality(Above(s)) < Cardinality(Above(r))
    <3>1. Above(s) # Above(r)
      BY <2>1
    <3>2. Cardinality(Above(s)) <= Cardinality(Above(r))
      BY <1>1, <2>1, FS_Subset
    <3>3. Cardinality(Above(s)) = Cardinality(Above(r)) => Above(s) = Above(r)
      BY <1>1, <2>1, FS_Subset
    <3>4. Cardinality(Above(s)) \in Nat /\ Cardinality(Above(r)) \in Nat
      BY <1>1
    <3> QED
      BY <3>1, <3>2, <3>3, <3>4
  <2>4. Cardinality(Above(r)) <= Cardinality(Above(s))
    BY <1>2, <1>3, <2>2
  <2>5. Cardinality(Above(s)) \in Nat /\ Cardinality(Above(r)) \in Nat
    BY <1>1
  <2> QED
    BY <2>3, <2>4, <2>5
<1>5. \A s \in S : f[s] <= f[r]
  BY <1>4
<1> QED
  BY <1>5

LEMMA LeastOf ==
  ASSUME NEW S, S \subseteq Nat, S # {}
  PROVE  Least(S) \in S /\ \A y \in S : Least(S) <= y
<1>1. S \in SUBSET Nat
  OBVIOUS
<1>2. \E m \in S : \A k \in S : m <= k
  BY <1>1, LeastNumber
<1> QED
  BY <1>2 DEF Least

-----------------------------------------------------------------------------
(* The tables a request can read: unused ids come last, and what was never  *)
(* recorded is not referred to.                                             *)
LedgerSound(d) ==
    /\ d \in Tables
    /\ \A x, y \in TxIds : x < y /\ d.tx[x].kind = "unused" => d.tx[y].kind = "unused"
    /\ \A n \in ObsIds : ~d.obs[n].used => d.obs[n] = NoObs
    /\ \A n \in ObsIds : d.obs[n].next # None => d.obs[d.obs[n].next].used
    /\ \A n \in ObsIds : d.obs[n].trace # None => d.obs[n].prev # None
    /\ \A o \in Obligations : d.ob[o].fundObs # None => d.obs[d.ob[o].fundObs].trace # None
    /\ \A o \in Obligations : d.ob[o].paidTx # None => d.tx[d.ob[o].paidTx].kind # "unused"
    /\ \A o \in Obligations : d.ob[o].fundTx # None => d.tx[d.ob[o].fundTx].kind # "unused"

LEMMA NewTx ==
  ASSUME NEW d, LedgerSound(d), NEW k \in Nat, k >= 1, RoomFor(d, k)
  PROVE  /\ FirstTx(d) \in TxIds /\ d.tx[FirstTx(d)].kind = "unused"
         /\ \A y \in TxIds : d.tx[y].kind = "unused" => FirstTx(d) <= y
         /\ k >= 2 => /\ SecondTx(d) \in TxIds /\ d.tx[SecondTx(d)].kind = "unused"
                      /\ SecondTx(d) # FirstTx(d)
                      /\ \A y \in TxIds : d.tx[y].kind = "unused" =>
                             y = FirstTx(d) \/ SecondTx(d) <= y
<1> DEFINE U == UnusedIds(d)  x == FirstTx(d)
<1>1. U \subseteq TxIds /\ IsFiniteSet(U) /\ Cardinality(U) \in Nat
  BY IdsAreNat, FS_Subset, FS_CardinalityType DEF UnusedIds
<1>2. Cardinality(U) >= k
  BY DEF RoomFor
<1>3. U # {}
  BY <1>1, <1>2, FS_EmptySet
<1>4. x \in U /\ \A y \in U : x <= y
  BY <1>1, <1>3, IdsAreNat, LeastOf DEF FirstTx
<1>5. k >= 2 => x # MaxTx
  <2> SUFFICES ASSUME k >= 2, x = MaxTx PROVE FALSE
    OBVIOUS
  <2>1. U = {x}
    BY <1>1, <1>4, RowBounds DEF TxIds
  <2>2. Cardinality({x}) = 1
    BY FS_Singleton
  <2> QED
    BY <1>2, <2>1, <2>2
<1>6. \A y \in TxIds : y \in U <=> d.tx[y].kind = "unused"
  BY DEF UnusedIds
<1>7. k >= 2 => x + 1 \in TxIds /\ x < x + 1
  BY <1>1, <1>4, <1>5, RowBounds DEF TxIds
<1>8. k >= 2 => d.tx[x + 1].kind = "unused"
  BY <1>1, <1>4, <1>6, <1>7 DEF LedgerSound
<1> HIDE DEF U, x
<1>9. \A y \in U : y = x \/ x + 1 <= y
  <2> SUFFICES ASSUME NEW y \in U PROVE y = x \/ x + 1 <= y
    OBVIOUS
  <2> x \in Nat /\ y \in Nat /\ x <= y
    BY <1>1, <1>4, IdsAreNat
  <2> QED
    OBVIOUS
<1>10. x = FirstTx(d) /\ SecondTx(d) = x + 1
  BY DEF x, SecondTx
<1> QED
  BY <1>1, <1>4, <1>6, <1>7, <1>8, <1>9, <1>10, IdsAreNat

LEMMA NewObs ==
  ASSUME NEW d, \E n \in ObsIds : ~d.obs[n].used
  PROVE  FreshObs(d) \in ObsIds /\ ~d.obs[FreshObs(d)].used
<1> DEFINE F == {n \in ObsIds : ~d.obs[n].used}
<1>1. F \subseteq Nat /\ F # {}
  BY IdsAreNat
<1>2. FreshObs(d) = Least(F)
  BY DEF FreshObs
<1> HIDE DEF F
<1>3. Least(F) \in F
  BY <1>1, LeastOf
<1> QED
  BY <1>2, <1>3 DEF F

LEMMA LatestIsActive ==
  ASSUME NEW d \in Tables, Active(d) # {}
  PROVE  Latest(d) \in Active(d)
<1> DEFINE A == Active(d)  f == [n \in A |-> d.obs[n].asOf]
<1>1. A \subseteq ObsIds /\ IsFiniteSet(A)
  BY IdsAreNat, FS_Subset DEF Active
<1>2. f \in [A -> Nat]
  BY <1>1, TablesOf DEF ObsRow
<1>3. PICK r \in A : \A s \in A : f[s] <= f[r]
  BY <1>1, <1>2, Foremost
<1> DEFINE B == {n \in A : f[n] = f[r]}  g == [n \in B |-> n]
<1>4. B \subseteq A /\ r \in B /\ IsFiniteSet(B) /\ g \in [B -> Nat]
  <2>1. B \subseteq A /\ r \in B
    OBVIOUS
  <2>2. B \subseteq ObsIds
    BY <1>1, <2>1
  <2>3. \A n \in B : n \in Nat
    BY <2>2, IdsAreNat
  <2> HIDE DEF B
  <2> QED
    BY <1>1, <2>1, <2>3, FS_Subset
<1>5. PICK q \in B : \A s \in B : g[s] <= g[q]
  BY <1>4, Foremost
<1>6. \A k \in A : d.obs[q].asOf > d.obs[k].asOf \/ (d.obs[q].asOf = d.obs[k].asOf /\ q >= k)
  <2> SUFFICES ASSUME NEW k \in A
               PROVE d.obs[q].asOf > d.obs[k].asOf \/ (d.obs[q].asOf = d.obs[k].asOf /\ q >= k)
    OBVIOUS
  <2>1. d.obs[q].asOf = f[r] /\ d.obs[k].asOf = f[k] /\ f[k] <= f[r] /\ f[r] \in Nat /\ f[k] \in Nat
    BY <1>2, <1>3
  <2>2. f[k] = f[r] => k \in B /\ k <= q /\ q \in Nat /\ k \in Nat
    BY <1>5, <1>1, IdsAreNat
  <2> HIDE DEF A, f, B, g
  <2> QED
    BY <2>1, <2>2
<1>7. q \in A
  BY <1>4
<1> HIDE DEF f, B, g
<1>8. Latest(d) = CHOOSE n \in A : \A k \in A :
          d.obs[n].asOf > d.obs[k].asOf \/ (d.obs[n].asOf = d.obs[k].asOf /\ n >= k)
  BY DEF Latest
<1> HIDE DEF A
<1> QED
  BY <1>6, <1>7, <1>8 DEF A

(* Tables read, as they are now: ids are only taken up, and an observation  *)
(* keeps what it says and is not made valid again.                          *)
Since(read, now) ==
    /\ \A x \in TxIds : now.tx[x].kind = "unused" => read.tx[x].kind = "unused"
    /\ \A n \in ObsIds : read.obs[n].used =>
         /\ now.obs[n].used /\ now.obs[n].trace = read.obs[n].trace
         /\ now.obs[n].prev = read.obs[n].prev
    /\ \A n \in ObsIds : read.obs[n].invalid => now.obs[n].invalid

(* What an operation does to the observations r, which become w.            *)
Spends(r, w, seen, now, c, n, amount, trace) ==
    /\ c \in Active(seen) /\ n \in ObsIds /\ ~now.obs[n].used
    /\ amount \in Nat /\ seen.obs[c].amount >= amount
    /\ w[n].used /\ w[n].amount = seen.obs[c].amount - amount
    /\ w[n].prev = c /\ w[n].next = None /\ ~w[n].invalid
    /\ trace \in TxIds /\ w[n].trace = trace
    /\ w[c] = [r[c] EXCEPT !.next = n]
    /\ \A k \in ObsIds \ {c, n} : w[k] = r[k]
Confirms(r, w, now, p, n) ==
    /\ p \in ObsIds \cup {None} /\ n \in ObsIds /\ ~now.obs[n].used
    /\ w[n].used /\ w[n].prev = p /\ w[n].next = None /\ ~w[n].invalid /\ w[n].trace = None
    /\ p # None => r[p].used /\ w[p] = [r[p] EXCEPT !.next = n, !.invalid = TRUE]
    /\ \A k \in ObsIds \ {p, n} : w[k] = r[k]
Restores(r, w, n) ==
    /\ n \in ObsIds /\ ~r[n].invalid /\ r[n].next = None
    /\ w[n] = [r[n] EXCEPT !.invalid = TRUE]
    /\ \A k \in ObsIds \ {n} : w[k] = IF k = r[n].prev THEN [r[k] EXCEPT !.next = None] ELSE r[k]

LEMMA SinceItself == ASSUME NEW a PROVE Since(a, a)
  BY DEF Since

LEMMA SpentEffect ==
  ASSUME NEW d \in Tables, NEW seen, LedgerSound(seen), NEW now, LedgerSound(now),
         Since(seen, now), NEW a \in Nat, NEW day \in Nat,
         NEW t \in TxIds, CanSpend(seen, now, a, day)
  PROVE  LET e == Spent(d, seen, now, a, day, t) IN
         /\ e \in Tables /\ e.tx = d.tx /\ e.ob = d.ob
         /\ Spends(d.obs, e.obs, seen, now, Latest(seen), FreshObs(now), a, t)
<1> DEFINE c == Latest(seen)  n == FreshObs(now)  e == Spent(d, seen, now, a, day, t)
<1>1. c \in Active(seen) /\ seen.obs[c].amount >= a
  BY LatestIsActive DEF CanSpend, LedgerSound
<1>2. n \in ObsIds /\ ~now.obs[n].used
  BY NewObs DEF CanSpend
<1>3. c \in ObsIds /\ now.obs[c].used
  BY <1>1 DEF Active, Since
<1>4. seen.obs[c].amount \in Nat /\ seen.obs[c].amount - a \in Nat
  BY <1>1, <1>3, TablesOf DEF LedgerSound, ObsRow
<1> DEFINE made == [used |-> TRUE, amount |-> seen.obs[c].amount - a, asOf |-> day, prev |-> c,
                   next |-> None, invalid |-> FALSE, trace |-> t]
           f == [d.obs EXCEPT ![n] = made]
           g == [f EXCEPT ![c].next = n]
<1>5. made \in ObsRow
  BY <1>3, <1>4 DEF ObsRow
<1>6. d.obs \in [ObsIds -> ObsRow]
  BY TablesOf
<1>7. e = [d EXCEPT !.obs = g]
  <2> HIDE DEF c, n
  <2> QED
    BY DEF Spent, c, n
<1> HIDE DEF made, c, n, e
<1>8. f \in [ObsIds -> ObsRow] /\ f[n] = made /\ \A k \in ObsIds \ {n} : f[k] = d.obs[k]
  BY <1>2, <1>5, <1>6
<1> HIDE DEF f
<1>9. c # n
  BY <1>2, <1>3
<1>10. g[c] = [d.obs[c] EXCEPT !.next = n] /\ \A k \in ObsIds \ {c} : g[k] = f[k]
  BY <1>3, <1>8, <1>9
<1>11. g \in [ObsIds -> ObsRow]
  <2>1. [f[c] EXCEPT !.next = n] \in ObsRow
    BY <1>2, <1>3, <1>8 DEF ObsRow
  <2> QED
    BY <1>3, <1>8, <2>1
<1> HIDE DEF g
<1>12. e \in Tables /\ e.tx = d.tx /\ e.ob = d.ob /\ e.obs = g
  BY <1>7, <1>11, TablesAre
<1>13. g[n] = made
  BY <1>2, <1>8, <1>9, <1>10
<1>14. Spends(d.obs, g, seen, now, c, n, a, t)
  BY <1>1, <1>2, <1>8, <1>10, <1>13 DEF Spends, made
<1> QED
  BY <1>12, <1>14 DEF e, c, n

LEMMA ConfirmedEffect ==
  ASSUME NEW d \in Tables, NEW now, LedgerSound(now), Since(d, now), NEW rq \in Confirmations,
         CanConfirm(rq, d, now)
  PROVE  LET e == Confirmed(rq, d, now) IN
         /\ e \in Tables /\ e.tx = d.tx /\ e.ob = d.ob
         /\ Confirms(d.obs, e.obs, now, rq.prev, FreshObs(now))
<1> DEFINE n == FreshObs(now)  p == rq.prev  e == Confirmed(rq, d, now)
<1>1. n \in ObsIds /\ ~now.obs[n].used
  BY NewObs DEF CanConfirm
<1>2. rq.amount \in Nat /\ rq.day \in Nat /\ p \in ObsIds \cup {None}
  BY NatBounds DEF Confirmations
<1>3. p # None => p \in ObsIds /\ d.obs[p].used /\ d.obs[p].next = None /\ p # n
  BY <1>1, <1>2 DEF CanConfirm, Since
<1> DEFINE made == [NoObs EXCEPT !.used = TRUE, !.amount = rq.amount, !.asOf = rq.day, !.prev = p]
           f == [d.obs EXCEPT ![n] = made]
           g == [f EXCEPT ![p].next = n, ![p].invalid = TRUE]
<1>4. made \in ObsRow /\ made.used /\ made.prev = p /\ made.next = None /\ ~made.invalid /\ made.trace = None
  BY <1>2 DEF ObsRow, NoObs
<1>5. d.obs \in [ObsIds -> ObsRow]
  BY TablesOf
<1>6. e = IF p = None THEN [d EXCEPT !.obs = f] ELSE [d EXCEPT !.obs = g]
  <2> HIDE DEF n
  <2> QED
    BY DEF Confirmed, n
<1> HIDE DEF made, n, e
<1>7. f \in [ObsIds -> ObsRow] /\ f[n] = made /\ \A k \in ObsIds \ {n} : f[k] = d.obs[k]
  BY <1>1, <1>4, <1>5
<1> HIDE DEF f
<1>8. CASE p = None
  <2>1. e \in Tables /\ e.tx = d.tx /\ e.ob = d.ob /\ e.obs = f
    BY <1>6, <1>7, <1>8, TablesAre
  <2>2. Confirms(d.obs, f, now, p, n)
    BY <1>1, <1>2, <1>4, <1>7, <1>8 DEF Confirms
  <2> QED
    BY <2>1, <2>2 DEF e, n
<1>9. CASE p # None
  <2>1. g[p] = [d.obs[p] EXCEPT !.next = n, !.invalid = TRUE] /\ \A k \in ObsIds \ {p} : g[k] = f[k]
    BY <1>3, <1>7, <1>9
  <2>2. g \in [ObsIds -> ObsRow]
    <3>1. [f[p] EXCEPT !.next = n, !.invalid = TRUE] \in ObsRow
      BY <1>1, <1>3, <1>7, <1>9, ZenonT(40) DEF ObsRow
    <3> QED
      BY <1>3, <1>7, <1>9, <3>1
  <2> HIDE DEF g
  <2>3. e \in Tables /\ e.tx = d.tx /\ e.ob = d.ob /\ e.obs = g
    BY <1>6, <1>9, <2>2, TablesAre
  <2>4. Confirms(d.obs, g, now, p, n)
    BY <1>1, <1>2, <1>3, <1>4, <1>7, <1>9, <2>1 DEF Confirms
  <2> QED
    BY <2>3, <2>4 DEF e, n
<1> QED
  BY <1>8, <1>9

LEMMA RestoredEffect ==
  ASSUME NEW d \in Tables, NEW n \in ObsIds, CanRestore(d, n)
  PROVE  LET e == Restored(d, n) IN
         /\ e \in Tables /\ e.tx = d.tx /\ e.ob = d.ob
         /\ Restores(d.obs, e.obs, n)
<1> DEFINE p == d.obs[n].prev  e == Restored(d, n)
           g == [k \in ObsIds |-> IF k = n THEN [d.obs[k] EXCEPT !.invalid = TRUE]
                                  ELSE IF k = p THEN [d.obs[k] EXCEPT !.next = None] ELSE d.obs[k]]
<1>1. e = [d EXCEPT !.obs = g]
  BY DEF Restored
<1>2. d.obs \in [ObsIds -> ObsRow]
  BY TablesOf
<1>3. ASSUME NEW k \in ObsIds PROVE g[k] \in ObsRow
  BY <1>2 DEF ObsRow
<1>4. g \in [ObsIds -> ObsRow]
  BY <1>3
<1>5. Restores(d.obs, g, n)
  BY DEF Restores, CanRestore
<1> HIDE DEF g
<1>6. e \in Tables /\ e.tx = d.tx /\ e.ob = d.ob /\ e.obs = g
  BY <1>1, <1>4, TablesAre
<1> QED
  BY <1>5, <1>6

(* What an operation does to the transactions r, which become w: it adds    *)
(* the next ids, or removes a set of rows.                                  *)
Adds(r, w, now, C) ==
    /\ C \subseteq TxIds
    /\ \A x \in C : now.tx[x].kind = "unused" /\ w[x].kind \in {"expense", "transfer"}
    /\ \A x \in C, y \in TxIds \ C : now.tx[y].kind = "unused" => x < y
    /\ \A x \in TxIds \ C : w[x] = r[x]
Removes(r, w, S) == \A x \in TxIds : w[x] = IF x \in S THEN Gone ELSE r[x]

WithTx(d, x, one) == [d EXCEPT !.tx[x] = one]
WithTwo(d, x, y, one, two) == [d EXCEPT !.tx[x] = one, !.tx[y] = two]

(* The next ids.                                                            *)
NextTx(now) == {FirstTx(now)}
NextTwo(now) == {FirstTx(now), SecondTx(now)}

LEMMA OneAdded ==
  ASSUME NEW d \in Tables, NEW now, LedgerSound(now), RoomFor(now, 1),
         NEW made \in TxRow, made.kind \in {"expense", "transfer"}
  PROVE  LET x == FirstTx(now)  e == WithTx(d, x, made) IN
         /\ x \in TxIds /\ now.tx[x].kind = "unused"
         /\ e \in Tables /\ e.ob = d.ob /\ e.obs = d.obs
         /\ e.tx[x] = made /\ Adds(d.tx, e.tx, now, NextTx(now))
<1> DEFINE x == FirstTx(now)  w == [d.tx EXCEPT ![x] = made]  e == WithTx(d, x, made)
<1>1. /\ x \in TxIds /\ now.tx[x].kind = "unused"
      /\ \A y \in TxIds : now.tx[y].kind = "unused" => x <= y
  BY NewTx
<1> HIDE DEF x
<1>2. d.tx \in [TxIds -> TxRow]
  BY TablesOf
<1>3. w \in [TxIds -> TxRow] /\ w[x] = made /\ \A y \in TxIds \ {x} : w[y] = d.tx[y]
  BY <1>1, <1>2
<1>4. e = [d EXCEPT !.tx = w]
  BY TablesOf DEF WithTx
<1> HIDE DEF w, e
<1>5. e \in Tables /\ e.tx = w /\ e.ob = d.ob /\ e.obs = d.obs
  BY <1>3, <1>4, TablesAre
<1>6. \A y \in TxIds \ {x} : now.tx[y].kind = "unused" => x < y
  BY <1>1, IdsAreNat
<1>7. Adds(d.tx, w, now, {x})
  BY <1>1, <1>3, <1>6 DEF Adds
<1> QED
  BY <1>1, <1>3, <1>5, <1>7 DEF x, e, NextTx

LEMMA TwoAdded ==
  ASSUME NEW d \in Tables, NEW now, LedgerSound(now), RoomFor(now, 2),
         NEW one \in TxRow, one.kind \in {"expense", "transfer"},
         NEW two \in TxRow, two.kind \in {"expense", "transfer"}
  PROVE  LET x == FirstTx(now)  y == SecondTx(now)  e == WithTwo(d, x, y, one, two) IN
         /\ x \in TxIds /\ y \in TxIds /\ x # y
         /\ now.tx[x].kind = "unused" /\ now.tx[y].kind = "unused"
         /\ e \in Tables /\ e.ob = d.ob /\ e.obs = d.obs
         /\ e.tx[x] = one /\ e.tx[y] = two /\ Adds(d.tx, e.tx, now, NextTwo(now))
<1> DEFINE x == FirstTx(now)  y == SecondTx(now)
           w == [d.tx EXCEPT ![x] = one, ![y] = two]  e == WithTwo(d, x, y, one, two)
<1>1. /\ x \in TxIds /\ now.tx[x].kind = "unused" /\ y \in TxIds /\ now.tx[y].kind = "unused"
      /\ x # y
      /\ \A z \in TxIds : now.tx[z].kind = "unused" => x <= z /\ (z = x \/ y <= z)
  BY NewTx
<1> HIDE DEF x, y
<1>2. d.tx \in [TxIds -> TxRow]
  BY TablesOf
<1>3. /\ w \in [TxIds -> TxRow] /\ w[x] = one /\ w[y] = two
      /\ \A z \in TxIds \ {x, y} : w[z] = d.tx[z]
  BY <1>1, <1>2
<1>4. e = [d EXCEPT !.tx = w]
  BY TablesOf DEF WithTwo
<1> HIDE DEF w, e
<1>5. e \in Tables /\ e.tx = w /\ e.ob = d.ob /\ e.obs = d.obs
  BY <1>3, <1>4, TablesAre
<1>6. \A z \in TxIds \ {x, y} : now.tx[z].kind = "unused" => x < z /\ y < z
  BY <1>1, IdsAreNat
<1>7. Adds(d.tx, w, now, {x, y})
  BY <1>1, <1>3, <1>6 DEF Adds
<1> QED
  BY <1>1, <1>3, <1>5, <1>7 DEF x, y, e, NextTwo

LEMMA RemovedEffect ==
  ASSUME NEW d \in Tables, NEW S
  PROVE  LET e == Removed(d, S) IN
         e \in Tables /\ Removes(d.tx, e.tx, S) /\ e.ob = d.ob /\ e.obs = d.obs
<1> DEFINE w == [x \in TxIds |-> IF x \in S THEN Gone ELSE d.tx[x]]
<1>1. d.tx \in [TxIds -> TxRow]
  BY TablesOf
<1>2. Gone \in TxRow
  BY DEF Gone, NoTx, TxRow, Kinds
<1>3. w \in [TxIds -> TxRow] /\ Removes(d.tx, w, S)
  BY <1>1, <1>2 DEF Removes
<1>4. Removed(d, S) = [d EXCEPT !.tx = w]
  BY DEF Removed
<1> HIDE DEF w
<1> QED
  BY <1>3, <1>4, TablesAre

LEMMA RowsMade ==
  ASSUME NEW a \in Nat, NEW day \in Nat, NEW g \in TxIds \cup {None}, NEW p \in TxIds \cup {None}
  PROVE  /\ Expense(a, day, g, p) \in TxRow
         /\ LET e == Expense(a, day, g, p) IN
            e.kind = "expense" /\ e.amount = a /\ e.group = g /\ e.counts
         /\ Transfer(a, day, g, p) \in TxRow
         /\ LET t == Transfer(a, day, g, p) IN
            t.kind = "transfer" /\ t.amount = a /\ t.group = g
  BY DEF Expense, Transfer, TxRow, Kinds

-----------------------------------------------------------------------------
(* What each operation leaves.                                              *)
LEMMA CreatedShape ==
  ASSUME NEW d \in Tables, NEW now, LedgerSound(now), NEW rq \in Creations, CanCreate(rq, now)
  PROVE  LET e == Created(rq, d, now)  x == FirstTx(now) IN
         /\ e \in Tables /\ e.ob = d.ob /\ e.obs = d.obs
         /\ Adds(d.tx, e.tx, now, NextTx(now))
         /\ e.tx[x].kind = "expense" /\ e.tx[x].group = None
<1>1. rq.amount \in Nat /\ rq.day \in Nat /\ rq.imported \in BOOLEAN
  BY NatBounds DEF Creations
<1> DEFINE x == FirstTx(now)
           made == [Expense(rq.amount, rq.day, None, None) EXCEPT !.imported = rq.imported]
<1>2. made \in TxRow /\ made.kind = "expense" /\ made.group = None
  BY <1>1 DEF Expense, TxRow, Kinds
<1>3. Created(rq, d, now) = WithTx(d, x, made)
  BY DEF Created, WithTx
<1> HIDE DEF made
<1>4. RoomFor(now, 1) /\ made.kind \in {"expense", "transfer"}
  BY <1>2 DEF CanCreate
<1> QED
  BY <1>2, <1>3, <1>4, OneAdded

LEMMA FundedShape ==
  ASSUME NEW d \in Tables, NEW now, LedgerSound(now), NEW rq \in Fundings, CanFundExpense(rq, now)
  PROVE  LET e == FundedExpense(rq, d, now)  x == FirstTx(now)  f == SecondTx(now) IN
         /\ e \in Tables /\ e.ob = d.ob
         /\ x \in TxIds /\ f \in TxIds /\ x # f /\ Adds(d.tx, e.tx, now, NextTwo(now))
         /\ e.tx[x].kind = "expense" /\ e.tx[x].group = x
         /\ e.tx[f].kind = "transfer" /\ e.tx[f].group = x /\ e.tx[f].amount = rq.amount
         /\ Spends(d.obs, e.obs, now, now, Latest(now), FreshObs(now), rq.amount, x)
<1>1. rq.amount \in Nat /\ rq.day \in Nat
  BY NatBounds DEF Fundings
<1> DEFINE x == FirstTx(now)  f == SecondTx(now)
           one == Expense(rq.amount, rq.day, x, f)  two == Transfer(rq.amount, rq.day, x, x)
           b == WithTwo(d, x, f, one, two)
<1>2. RoomFor(now, 2) /\ CanSpend(now, now, rq.amount, rq.day)
  BY DEF CanFundExpense
<1>3. x \in TxIds /\ f \in TxIds
  BY <1>2, NewTx
<1>4. /\ one \in TxRow /\ one.kind = "expense" /\ one.group = x
      /\ two \in TxRow /\ two.kind = "transfer" /\ two.group = x /\ two.amount = rq.amount
      /\ one.kind \in {"expense", "transfer"} /\ two.kind \in {"expense", "transfer"}
  <2> HIDE DEF x, f
  <2> QED
    BY <1>1, <1>3, RowsMade
<1>5. FundedExpense(rq, d, now) = Spent(b, now, now, rq.amount, rq.day, x)
  BY DEF FundedExpense, WithTwo
<1> HIDE DEF one, two
<1>6. /\ b \in Tables /\ b.ob = d.ob /\ b.obs = d.obs /\ x # f
      /\ b.tx[x] = one /\ b.tx[f] = two /\ Adds(d.tx, b.tx, now, NextTwo(now))
  BY <1>2, <1>4, TwoAdded
<1> HIDE DEF b
<1>7. LET e == Spent(b, now, now, rq.amount, rq.day, x) IN
      /\ e \in Tables /\ e.tx = b.tx /\ e.ob = b.ob
      /\ Spends(b.obs, e.obs, now, now, Latest(now), FreshObs(now), rq.amount, x)
  <2> HIDE DEF x
  <2> QED
    BY <1>1, <1>2, <1>3, <1>6, SinceItself, SpentEffect
<1> QED
  BY <1>3, <1>4, <1>5, <1>6, <1>7

LEMMA TransferredShape ==
  ASSUME NEW d \in Tables, NEW now, LedgerSound(now), NEW rq \in Transfers, CanTransfer(rq, now)
  PROVE  LET e == Transferred(rq, d, now)  x == FirstTx(now)  y == SecondTx(now) IN
         /\ e \in Tables /\ e.ob = d.ob /\ e.obs = d.obs
         /\ x \in TxIds /\ y \in TxIds /\ x # y /\ Adds(d.tx, e.tx, now, NextTwo(now))
         /\ e.tx[x].kind = "transfer" /\ e.tx[x].group = x
         /\ e.tx[y].kind = "transfer" /\ e.tx[y].group = x
<1>1. rq.amount \in Nat /\ rq.day \in Nat
  BY NatBounds DEF Transfers
<1> DEFINE x == FirstTx(now)  y == SecondTx(now)
           one == Transfer(rq.amount, rq.day, x, y)  two == Transfer(rq.amount, rq.day, x, x)
<1>2. RoomFor(now, 2)
  BY DEF CanTransfer
<1>3. x \in TxIds /\ y \in TxIds
  BY <1>2, NewTx
<1>4. /\ one \in TxRow /\ one.kind = "transfer" /\ one.group = x
      /\ two \in TxRow /\ two.kind = "transfer" /\ two.group = x
      /\ one.kind \in {"expense", "transfer"} /\ two.kind \in {"expense", "transfer"}
  <2> HIDE DEF x, y
  <2> QED
    BY <1>1, <1>3, RowsMade
<1>5. Transferred(rq, d, now) = WithTwo(d, x, y, one, two)
  BY DEF Transferred, WithTwo
<1> HIDE DEF one, two
<1>6. LET e == WithTwo(d, x, y, one, two) IN
      /\ x # y /\ e \in Tables /\ e.ob = d.ob /\ e.obs = d.obs
      /\ e.tx[x] = one /\ e.tx[y] = two /\ Adds(d.tx, e.tx, now, NextTwo(now))
  BY <1>2, <1>4, TwoAdded
<1> HIDE DEF x, y
<1>7. LET e == Transferred(rq, d, now) IN
      /\ e \in Tables /\ e.ob = d.ob /\ e.obs = d.obs
      /\ x \in TxIds /\ y \in TxIds /\ x # y /\ Adds(d.tx, e.tx, now, NextTwo(now))
      /\ e.tx[x].kind = "transfer" /\ e.tx[x].group = x
      /\ e.tx[y].kind = "transfer" /\ e.tx[y].group = x
  BY <1>3, <1>4, <1>5, <1>6
<1> QED
  BY <1>7 DEF x, y

LEMMA UpdatedShape ==
  ASSUME NEW d \in Tables, NEW rq \in Updates, CanUpdate(rq, d)
  PROVE  LET e == Updated(rq, d)  x == rq.x IN
         /\ e \in Tables /\ e.ob = d.ob /\ e.obs = d.obs
         /\ x \in RowIds(d)
         /\ e.tx[x] = [d.tx[x] EXCEPT !.counts = rq.counts]
         /\ \A y \in TxIds \ {x} : e.tx[y] = d.tx[y]
<1> DEFINE x == rq.x  w == [d.tx EXCEPT ![x].counts = rq.counts]
<1>1. x \in RowIds(d) /\ x \in TxIds /\ rq.counts \in BOOLEAN
  BY DEF CanUpdate, RowIds, Updates
<1>2. d.tx \in [TxIds -> TxRow]
  BY TablesOf
<1>3. [d.tx[x] EXCEPT !.counts = rq.counts] \in TxRow
  BY <1>1, <1>2 DEF TxRow
<1>4. /\ w \in [TxIds -> TxRow] /\ w[x] = [d.tx[x] EXCEPT !.counts = rq.counts]
      /\ \A y \in TxIds \ {x} : w[y] = d.tx[y]
  BY <1>1, <1>2, <1>3
<1>5. Updated(rq, d) = [d EXCEPT !.tx = w]
  BY TablesOf DEF Updated
<1> HIDE DEF w
<1>6. LET e == [d EXCEPT !.tx = w] IN e \in Tables /\ e.tx = w /\ e.ob = d.ob /\ e.obs = d.obs
  BY <1>4, TablesAre
<1> QED
  BY <1>1, <1>4, <1>5, <1>6

LEMMA DeletedShape ==
  ASSUME NEW d \in Tables, NEW rq \in Deletions, CanDelete(rq, d)
  PROVE  LET e == Deleted(rq, d)  back == Standing(d, TraceOf(d, rq.x)) IN
         /\ e \in Tables /\ e.ob = d.ob
         /\ Removes(d.tx, e.tx, GroupOf(d, rq.x))
         /\ back = {} => e.obs = d.obs
         /\ back # {} => \E n \in back : Restores(d.obs, e.obs, n)
<1> DEFINE back == Standing(d, TraceOf(d, rq.x))  S == GroupOf(d, rq.x)  g == Removed(d, S)
           n == CHOOSE k \in back : TRUE
<1>1. g \in Tables /\ Removes(d.tx, g.tx, S) /\ g.ob = d.ob /\ g.obs = d.obs
  <2> HIDE DEF S
  <2> QED
    BY RemovedEffect
<1>2. Deleted(rq, d) = IF back = {} THEN g ELSE Restored(g, n)
  BY DEF Deleted
<1>3. back \subseteq ObsIds /\ \A k \in back : CanRestore(d, k)
  BY DEF Standing, CanDelete
<1> HIDE DEF g, S
<1>4. CASE back = {}
  BY <1>1, <1>2, <1>4 DEF S
<1>5. CASE back # {}
  <2>1. n \in back
    BY <1>5
  <2> HIDE DEF n
  <2>2. n \in ObsIds /\ CanRestore(d, n)
    BY <1>3, <2>1
  <2>3. CanRestore(g, n)
    BY <1>1, <2>2 DEF CanRestore
  <2>4. /\ Restored(g, n) \in Tables /\ Restored(g, n).tx = g.tx /\ Restored(g, n).ob = g.ob
        /\ Restores(g.obs, Restored(g, n).obs, n)
    BY <1>1, <2>2, <2>3, RestoredEffect
  <2> HIDE DEF back
  <2>5. Deleted(rq, d) = Restored(g, n)
    BY <1>2, <1>5
  <2>6. LET e == Deleted(rq, d) IN /\ e \in Tables /\ e.ob = d.ob
                                   /\ Removes(d.tx, e.tx, S) /\ Restores(d.obs, e.obs, n)
    BY <1>1, <2>4, <2>5
  <2> QED
    BY <1>5, <2>1, <2>6 DEF S, back
<1> QED
  BY <1>4, <1>5

LEMMA CancelledShape ==
  ASSUME NEW d \in Tables, NEW rq \in Cancellations
  PROVE  LET e == Cancelled(rq, d)  o == rq.o IN
         /\ e \in Tables /\ e.tx = d.tx /\ e.obs = d.obs
         /\ o \in Obligations /\ e.ob[o] = [d.ob[o] EXCEPT !.status = "cancelled"]
         /\ \A p \in Obligations \ {o} : e.ob[p] = d.ob[p]
<1> DEFINE o == rq.o  w == [d.ob EXCEPT ![o].status = "cancelled"]
<1>1. o \in Obligations
  BY DEF Cancellations
<1>2. d.ob \in [Obligations -> ObRow]
  BY TablesOf
<1>3. [d.ob[o] EXCEPT !.status = "cancelled"] \in ObRow
  BY <1>1, <1>2 DEF ObRow
<1>4. /\ w \in [Obligations -> ObRow] /\ w[o] = [d.ob[o] EXCEPT !.status = "cancelled"]
      /\ \A p \in Obligations \ {o} : w[p] = d.ob[p]
  BY <1>1, <1>2, <1>3
<1>5. Cancelled(rq, d) = [d EXCEPT !.ob = w]
  BY TablesOf DEF Cancelled
<1> HIDE DEF w
<1>6. LET e == [d EXCEPT !.ob = w] IN e \in Tables /\ e.ob = w /\ e.tx = d.tx /\ e.obs = d.obs
  BY <1>4, TablesAre
<1> QED
  BY <1>1, <1>4, <1>5, <1>6

LEMMA UnpayedShape ==
  ASSUME NEW d \in Tables, NEW rq \in Reversals, CanUnpay(rq, d)
  PROVE  LET e == Unpayed(rq, d)  ob == d.ob[rq.o]
             gone == (IF ob.created THEN {ob.paidTx} ELSE {})
                       \cup (IF ob.privilege THEN {ob.fundTx} ELSE {}) IN
         /\ e \in Tables /\ Removes(d.tx, e.tx, gone)
         /\ rq.o \in Obligations /\ ob.status = "paid"
         /\ e.ob[rq.o] = Unpaid /\ \A p \in Obligations \ {rq.o} : e.ob[p] = d.ob[p]
         /\ IF ob.privilege /\ ob.fundObs # None THEN Restores(d.obs, e.obs, ob.fundObs)
            ELSE e.obs = d.obs
<1> DEFINE o == rq.o  ob == d.ob[o]
           gone == (IF ob.created THEN {ob.paidTx} ELSE {})
                     \cup (IF ob.privilege THEN {ob.fundTx} ELSE {})
           given == ob.privilege /\ ob.fundObs # None
           b == IF given THEN Restored(d, ob.fundObs) ELSE d
           r == Removed(b, gone)
           w == [r.ob EXCEPT ![o] = Unpaid]
<1>1. o \in Obligations /\ ob \in ObRow /\ ob.status = "paid"
  BY TablesOf DEF Reversals, CanUnpay
<1>2. given => ob.fundObs \in ObsIds /\ CanRestore(d, ob.fundObs)
  BY <1>1 DEF CanUnpay, ObRow
<1>3. Unpayed(rq, d) = [r EXCEPT !.ob[o] = Unpaid]
  BY DEF Unpayed
<1> HIDE DEF o, ob, gone
<1>4. /\ b \in Tables /\ b.tx = d.tx /\ b.ob = d.ob
      /\ IF given THEN Restores(d.obs, b.obs, ob.fundObs) ELSE b.obs = d.obs
  BY <1>2, RestoredEffect
<1> HIDE DEF b, given
<1>5. r \in Tables /\ Removes(b.tx, r.tx, gone) /\ r.ob = b.ob /\ r.obs = b.obs
  BY <1>4, RemovedEffect
<1> HIDE DEF r
<1>6. Unpaid \in ObRow
  BY DEF Unpaid, ObRow
<1>7. r.ob \in [Obligations -> ObRow]
  BY <1>5, TablesOf
<1>8. w \in [Obligations -> ObRow] /\ w[o] = Unpaid /\ \A p \in Obligations \ {o} : w[p] = d.ob[p]
  BY <1>1, <1>4, <1>5, <1>6, <1>7
<1>9. Unpayed(rq, d) = [r EXCEPT !.ob = w]
  BY <1>3, <1>5, TablesOf
<1> HIDE DEF w
<1>10. LET e == [r EXCEPT !.ob = w] IN e \in Tables /\ e.ob = w /\ e.tx = r.tx /\ e.obs = r.obs
  BY <1>5, <1>8, TablesAre
<1>11. LET e == Unpayed(rq, d) IN
       /\ e \in Tables /\ Removes(d.tx, e.tx, gone)
       /\ o \in Obligations /\ ob.status = "paid"
       /\ e.ob[o] = Unpaid /\ \A p \in Obligations \ {o} : e.ob[p] = d.ob[p]
       /\ IF given THEN Restores(d.obs, e.obs, ob.fundObs) ELSE e.obs = d.obs
  BY <1>1, <1>4, <1>5, <1>8, <1>9, <1>10
<1> QED
  BY <1>11 DEF gone, given, o, ob

(* What a payment books, and the obligation once it is paid.                *)
NewlyBooked(rq, now) ==
    IF rq.x = None THEN IF rq.fund THEN NextTwo(now) ELSE NextTx(now)
    ELSE IF rq.fund THEN NextTx(now) ELSE {}
PaidWith(rq, now) == IF rq.x = None THEN FirstTx(now) ELSE rq.x
FundedWith(rq, now) == IF rq.x = None THEN SecondTx(now) ELSE FirstTx(now)
PaidRow(rq, now) ==
    [status |-> "paid", paidTx |-> PaidWith(rq, now), created |-> (rq.x = None),
     privilege |-> rq.fund, fundTx |-> IF rq.fund THEN FundedWith(rq, now) ELSE None,
     fundObs |-> IF rq.fund THEN FreshObs(now) ELSE None]

LEMMA BookedRows ==
  ASSUME NEW d \in Tables, NEW now, LedgerSound(now), NEW rq \in Payments,
         rq.x # None => rq.x \in TxIds /\ now.tx[rq.x].kind # "unused", CanSettle(rq, d, now),
         NEW one \in TxRow, one.kind = "expense", NEW two \in TxRow, two.kind = "transfer"
  PROVE  LET x == PaidWith(rq, now)  f == FundedWith(rq, now)
             b == IF rq.x # None THEN d ELSE WithTx(d, x, one)
             e == IF rq.fund THEN WithTx(b, f, two) ELSE b IN
         /\ e \in Tables /\ e.ob = d.ob /\ e.obs = d.obs
         /\ Adds(d.tx, e.tx, now, NewlyBooked(rq, now))
         /\ x \in TxIds
         /\ rq.x = None => now.tx[x].kind = "unused" /\ e.tx[x] = one
         /\ rq.fund => f \in TxIds /\ f # x /\ now.tx[f].kind = "unused" /\ e.tx[f] = two
<1> DEFINE x == PaidWith(rq, now)  f == FundedWith(rq, now)
           b == IF rq.x # None THEN d ELSE WithTx(d, x, one)
           e == IF rq.fund THEN WithTx(b, f, two) ELSE b
<1>1. /\ one.kind \in {"expense", "transfer"} /\ two.kind \in {"expense", "transfer"}
      /\ rq.fund \in BOOLEAN
  BY DEF Payments
<1>2. CASE rq.x = None /\ rq.fund
  <2>1. RoomFor(now, 2) /\ x = FirstTx(now) /\ f = SecondTx(now) /\ NewlyBooked(rq, now) = NextTwo(now)
    BY <1>2 DEF CanSettle, NewRows, PaidWith, FundedWith, NewlyBooked
  <2>2. e = WithTwo(d, x, f, one, two)
    <3>1. b = WithTx(d, x, one) /\ e = WithTx(b, f, two)
      BY <1>2
    <3> HIDE DEF b, e, x, f
    <3> QED
      BY <3>1, TablesOf DEF WithTwo, WithTx
  <2> HIDE DEF b, e, x, f
  <2>3. LET w == WithTwo(d, FirstTx(now), SecondTx(now), one, two) IN
        /\ FirstTx(now) \in TxIds /\ SecondTx(now) \in TxIds /\ FirstTx(now) # SecondTx(now)
        /\ now.tx[FirstTx(now)].kind = "unused" /\ now.tx[SecondTx(now)].kind = "unused"
        /\ w \in Tables /\ w.ob = d.ob /\ w.obs = d.obs
        /\ w.tx[FirstTx(now)] = one /\ w.tx[SecondTx(now)] = two
        /\ Adds(d.tx, w.tx, now, NextTwo(now))
    BY <1>1, <2>1, TwoAdded
  <2> QED
    BY <2>1, <2>2, <2>3 DEF b, e, x, f
<1>3. CASE rq.x = None /\ ~rq.fund
  <2>1. RoomFor(now, 1) /\ x = FirstTx(now) /\ NewlyBooked(rq, now) = NextTx(now)
    BY <1>3 DEF CanSettle, NewRows, PaidWith, NewlyBooked
  <2>2. e = WithTx(d, x, one)
    BY <1>3
  <2> HIDE DEF b, e, x, f
  <2>3. LET w == WithTx(d, FirstTx(now), one) IN
        /\ FirstTx(now) \in TxIds /\ now.tx[FirstTx(now)].kind = "unused"
        /\ w \in Tables /\ w.ob = d.ob /\ w.obs = d.obs
        /\ w.tx[FirstTx(now)] = one /\ Adds(d.tx, w.tx, now, NextTx(now))
    BY <1>1, <2>1, OneAdded
  <2> QED
    BY <1>3, <2>1, <2>2, <2>3 DEF b, e, x, f
<1>4. CASE rq.x # None /\ rq.fund
  <2>1. /\ RoomFor(now, 1) /\ f = FirstTx(now) /\ NewlyBooked(rq, now) = NextTx(now)
        /\ x = rq.x /\ x \in TxIds /\ now.tx[x].kind # "unused"
    BY <1>4 DEF CanSettle, NewRows, PaidWith, FundedWith, NewlyBooked
  <2>2. e = WithTx(d, f, two)
    BY <1>4
  <2> HIDE DEF b, e, x, f
  <2>3. LET w == WithTx(d, FirstTx(now), two) IN
        /\ FirstTx(now) \in TxIds /\ now.tx[FirstTx(now)].kind = "unused"
        /\ w \in Tables /\ w.ob = d.ob /\ w.obs = d.obs
        /\ w.tx[FirstTx(now)] = two /\ Adds(d.tx, w.tx, now, NextTx(now))
    BY <1>1, <2>1, OneAdded
  <2> QED
    BY <1>4, <2>1, <2>2, <2>3 DEF b, e, x, f
<1>5. CASE rq.x # None /\ ~rq.fund
  <2>1. e = d /\ NewlyBooked(rq, now) = {} /\ x = rq.x /\ x \in TxIds
    BY <1>5 DEF PaidWith, NewlyBooked
  <2>2. Adds(d.tx, d.tx, now, {})
    BY DEF Adds
  <2> HIDE DEF b, e, x, f
  <2> QED
    BY <1>5, <2>1, <2>2 DEF b, e, x, f
<1> QED
  BY <1>1, <1>2, <1>3, <1>4, <1>5

(* The tables a request reads the latest balance in.                        *)
BalanceFrom(rq, read, now) ==
    IF rq.op = "pay" /\ rq.fund THEN Seen(rq, read, now) ELSE now

LEMMA SeenIs ==
  ASSUME NEW read, LedgerSound(read), NEW now, LedgerSound(now), Since(read, now), NEW rq
  PROVE  /\ LedgerSound(Seen(rq, read, now)) /\ Since(Seen(rq, read, now), now)
         /\ LedgerSound(BalanceFrom(rq, read, now)) /\ Since(BalanceFrom(rq, read, now), now)
<1>1. /\ Seen(rq, read, now) = read \/ Seen(rq, read, now) = now
      /\ BalanceFrom(rq, read, now) = read \/ BalanceFrom(rq, read, now) = now
  BY DEF Seen, BalanceFrom
<1> QED
  BY <1>1, SinceItself

LEMMA PaidShape ==
  ASSUME NEW d, LedgerSound(d), NEW now, LedgerSound(now), Since(d, now), NEW rq \in Payments,
         rq.x # None => rq.x \in TxIds /\ now.tx[rq.x].kind # "unused", CanSettle(rq, d, now)
  PROVE  LET e == Paid(rq, d, now)  o == rq.o
             x == PaidWith(rq, now)  f == FundedWith(rq, now)  s == Seen(rq, d, now) IN
         /\ e \in Tables /\ Adds(d.tx, e.tx, now, NewlyBooked(rq, now))
         /\ o \in Obligations /\ e.ob[o] = PaidRow(rq, now)
         /\ \A p \in Obligations \ {o} : e.ob[p] = d.ob[p]
         /\ x \in TxIds
         /\ rq.x = None => /\ now.tx[x].kind = "unused" /\ e.tx[x].kind = "expense"
                           /\ e.tx[x].amount = AmountDue[o] /\ e.tx[x].group = None
                           /\ e.tx[x].counts
         /\ IF rq.fund
            THEN /\ f \in TxIds /\ f # x /\ now.tx[f].kind = "unused"
                 /\ e.tx[f].kind = "transfer" /\ e.tx[f].group = None
                 /\ e.tx[f].amount = AmountDue[o]
                 /\ Spends(d.obs, e.obs, s, now, Latest(s), FreshObs(now), AmountDue[o], f)
            ELSE e.obs = d.obs
<1> DEFINE o == rq.o  x == PaidWith(rq, now)  f == FundedWith(rq, now)
           day == PaidOn(rq, d)  due == AmountDue[o]  seen == Seen(rq, d, now)
           one == Expense(due, rq.day, None, None)  two == Transfer(due, day, None, None)
           b == IF rq.x # None THEN d ELSE WithTx(d, x, one)
           t == IF rq.fund THEN WithTx(b, f, two) ELSE b
           w == [t.ob EXCEPT ![o] = PaidRow(rq, now)]
           s == [t EXCEPT !.ob = w]
<1>1. /\ o \in Obligations /\ due \in Nat /\ rq.day \in Nat /\ rq.fund \in BOOLEAN
      /\ rq.x \in TxIds \cup {None} /\ d \in Tables
      /\ LedgerSound(seen) /\ Since(seen, now)
  <2>1. d \in Tables
    BY DEF LedgerSound
  <2>2. LedgerSound(seen) /\ Since(seen, now)
    BY SeenIs
  <2> QED
    BY <2>1, <2>2, DueType, NatBounds DEF Payments
<1>2. day \in Nat
  BY <1>1, TablesOf DEF PaidOn, TxRow
<1> HIDE DEF day, due, seen
<1>3. /\ one \in TxRow /\ one.kind = "expense" /\ one.amount = due /\ one.group = None /\ one.counts
      /\ two \in TxRow /\ two.kind = "transfer" /\ two.amount = due /\ two.group = None
  BY <1>1, <1>2 DEF Expense, Transfer, TxRow, Kinds
<1> HIDE DEF one, two
<1>4. /\ t \in Tables /\ t.ob = d.ob /\ t.obs = d.obs
      /\ Adds(d.tx, t.tx, now, NewlyBooked(rq, now))
      /\ x \in TxIds
      /\ rq.x = None => now.tx[x].kind = "unused" /\ t.tx[x] = one
      /\ rq.fund => f \in TxIds /\ f # x /\ now.tx[f].kind = "unused" /\ t.tx[f] = two
  BY <1>1, <1>3, BookedRows
<1>5. rq.fund => CanSpend(seen, now, due, day)
  BY DEF CanSettle, due, day, seen
<1>6. PaidRow(rq, now) \in ObRow
  <2>1. rq.fund => FreshObs(now) \in ObsIds
    BY <1>5, NewObs DEF CanSpend
  <2>2. /\ PaidWith(rq, now) \in TxIds
        /\ rq.fund => FundedWith(rq, now) \in TxIds
    BY <1>4
  <2> QED
    BY <1>1, <2>1, <2>2 DEF PaidRow, ObRow
<1>7. /\ w \in [Obligations -> ObRow] /\ w[o] = PaidRow(rq, now)
      /\ \A p \in Obligations \ {o} : w[p] = d.ob[p]
  <2>1. t.ob \in [Obligations -> ObRow]
    BY <1>4, TablesOf
  <2> HIDE DEF t
  <2> QED
    BY <1>1, <1>4, <1>6, <2>1
<1>8. Paid(rq, d, now) = IF rq.fund THEN Spent(s, seen, now, due, day, f) ELSE s
  <2>1. b = [tx |-> b.tx, ob |-> b.ob, obs |-> b.obs]
    BY <1>1, TablesOf DEF WithTx
  <2>2. Paid(rq, d, now) =
          IF ~rq.fund THEN [b EXCEPT !.ob[o] = PaidRow(rq, now)]
          ELSE Spent([[b EXCEPT !.ob[o] = PaidRow(rq, now)] EXCEPT !.tx[f] = two],
                    seen, now, due, day, f)
    BY DEF Paid, PaidRow, PaidWith, FundedWith, WithTx, one, two, due, day, seen
  <2> HIDE DEF b
  <2>3. [b EXCEPT !.ob[o] = PaidRow(rq, now)]
          = [tx |-> b.tx, ob |-> [b.ob EXCEPT ![o] = PaidRow(rq, now)], obs |-> b.obs]
    BY <2>1
  <2>4. [[b EXCEPT !.ob[o] = PaidRow(rq, now)] EXCEPT !.tx[f] = two]
          = [tx |-> [b.tx EXCEPT ![f] = two], ob |-> [b.ob EXCEPT ![o] = PaidRow(rq, now)],
             obs |-> b.obs]
    <3> DEFINE p == [b EXCEPT !.ob[o] = PaidRow(rq, now)]
    <3>1. p = [tx |-> b.tx, ob |-> [b.ob EXCEPT ![o] = PaidRow(rq, now)], obs |-> b.obs]
      BY <2>3
    <3> HIDE DEF p
    <3>2. [p EXCEPT !.tx[f] = two] = [tx |-> [b.tx EXCEPT ![f] = two],
             ob |-> [b.ob EXCEPT ![o] = PaidRow(rq, now)], obs |-> b.obs]
      <4> HIDE DEF o, f
      <4> QED
        BY <3>1
    <3> QED
      BY <3>2 DEF p
  <2>5. WithTx(b, f, two) = [tx |-> [b.tx EXCEPT ![f] = two], ob |-> b.ob, obs |-> b.obs]
    BY <2>1 DEF WithTx
  <2>6. CASE rq.fund
    <3>1. s = [tx |-> [b.tx EXCEPT ![f] = two], ob |-> [b.ob EXCEPT ![o] = PaidRow(rq, now)],
               obs |-> b.obs]
      BY <2>5, <2>6
    <3> HIDE DEF s, t
    <3> QED
      BY <2>2, <2>4, <2>6, <3>1
  <2>7. CASE ~rq.fund
    <3>1. s = [tx |-> b.tx, ob |-> [b.ob EXCEPT ![o] = PaidRow(rq, now)], obs |-> b.obs]
      BY <2>1, <2>7
    <3> HIDE DEF s, t
    <3> QED
      BY <2>2, <2>3, <2>7, <3>1
  <2> QED
    BY <1>1, <2>6, <2>7
<1> HIDE DEF b, t, w
<1>9. s \in Tables /\ s.tx = t.tx /\ s.ob = w /\ s.obs = d.obs
  BY <1>4, <1>7, TablesAre
<1> HIDE DEF s
<1>10. rq.fund => LET e == Spent(s, seen, now, due, day, f) IN
                  /\ e \in Tables /\ e.tx = s.tx /\ e.ob = s.ob
                  /\ Spends(s.obs, e.obs, seen, now, Latest(seen), FreshObs(now), due, f)
  <2> HIDE DEF f
  <2> QED
    BY <1>1, <1>2, <1>4, <1>5, <1>9, SpentEffect
<1>11. LET e == Paid(rq, d, now) IN
       /\ e \in Tables /\ e.tx = t.tx /\ e.ob = w
       /\ IF rq.fund THEN Spends(d.obs, e.obs, seen, now, Latest(seen), FreshObs(now), due, f)
          ELSE e.obs = d.obs
  BY <1>8, <1>9, <1>10
<1> HIDE DEF o, x, f
<1>12. LET e == Paid(rq, d, now) IN
         /\ e \in Tables /\ Adds(d.tx, e.tx, now, NewlyBooked(rq, now))
         /\ o \in Obligations /\ e.ob[o] = PaidRow(rq, now)
         /\ \A p \in Obligations \ {o} : e.ob[p] = d.ob[p]
         /\ x \in TxIds
         /\ rq.x = None => /\ now.tx[x].kind = "unused" /\ e.tx[x].kind = "expense"
                           /\ e.tx[x].amount = due /\ e.tx[x].group = None
                           /\ e.tx[x].counts
         /\ IF rq.fund
            THEN /\ f \in TxIds /\ f # x /\ now.tx[f].kind = "unused"
                 /\ e.tx[f].kind = "transfer" /\ e.tx[f].group = None
                 /\ e.tx[f].amount = due
                 /\ Spends(d.obs, e.obs, seen, now, Latest(seen), FreshObs(now), due, f)
            ELSE e.obs = d.obs
  BY <1>1, <1>3, <1>4, <1>7, <1>11
<1> QED
  BY <1>12 DEF o, x, f, due, seen

-----------------------------------------------------------------------------
(* What a request that read, decided and computed writes over rows that     *)
(* have changed since: column by column.                                    *)
Col(r, n, w) == IF n # r THEN n ELSE w
ObsMergedRow(r, n, w) ==
    [used |-> Col(r.used, n.used, w.used), amount |-> Col(r.amount, n.amount, w.amount),
     asOf |-> Col(r.asOf, n.asOf, w.asOf), prev |-> Col(r.prev, n.prev, w.prev),
     next |-> Col(r.next, n.next, w.next), invalid |-> Col(r.invalid, n.invalid, w.invalid),
     trace |-> Col(r.trace, n.trace, w.trace)]
ObMergedRow(r, n, w) ==
    [status |-> Col(r.status, n.status, w.status), paidTx |-> Col(r.paidTx, n.paidTx, w.paidTx),
     created |-> Col(r.created, n.created, w.created),
     privilege |-> Col(r.privilege, n.privilege, w.privilege),
     fundTx |-> Col(r.fundTx, n.fundTx, w.fundTx), fundObs |-> Col(r.fundObs, n.fundObs, w.fundObs)]
TxMergedRow(r, n, w) ==
    [kind |-> Col(r.kind, n.kind, w.kind), amount |-> Col(r.amount, n.amount, w.amount),
     day |-> Col(r.day, n.day, w.day), imported |-> Col(r.imported, n.imported, w.imported),
     counts |-> Col(r.counts, n.counts, w.counts), group |-> Col(r.group, n.group, w.group),
     peer |-> Col(r.peer, n.peer, w.peer)]

LEMMA ColIsOne == \A r, n, w : Col(r, n, w) \in {n, w} /\ Col(r, r, w) = w /\ Col(r, n, r) = n
  BY DEF Col

LEMMA MergedRowsTyped ==
  /\ \A r, n, w \in ObsRow : ObsMergedRow(r, n, w) \in ObsRow
  /\ \A r, n, w \in ObRow : ObMergedRow(r, n, w) \in ObRow
  /\ \A r, n, w \in TxRow : TxMergedRow(r, n, w) \in TxRow
<1>1. ASSUME NEW r \in ObsRow, NEW n \in ObsRow, NEW w \in ObsRow
      PROVE  ObsMergedRow(r, n, w) \in ObsRow
  <2>1. /\ Col(r.used, n.used, w.used) \in BOOLEAN /\ Col(r.invalid, n.invalid, w.invalid) \in BOOLEAN
        /\ Col(r.amount, n.amount, w.amount) \in Nat /\ Col(r.asOf, n.asOf, w.asOf) \in Nat
        /\ Col(r.prev, n.prev, w.prev) \in ObsIds \cup {None}
        /\ Col(r.next, n.next, w.next) \in ObsIds \cup {None}
        /\ Col(r.trace, n.trace, w.trace) \in TxIds \cup {None}
    BY ColIsOne DEF ObsRow
  <2> QED
    BY <2>1 DEF ObsMergedRow, ObsRow
<1>2. ASSUME NEW r \in ObRow, NEW n \in ObRow, NEW w \in ObRow
      PROVE  ObMergedRow(r, n, w) \in ObRow
  <2>1. /\ Col(r.status, n.status, w.status) \in {"pending", "paid", "cancelled"}
        /\ Col(r.created, n.created, w.created) \in BOOLEAN
        /\ Col(r.privilege, n.privilege, w.privilege) \in BOOLEAN
        /\ Col(r.paidTx, n.paidTx, w.paidTx) \in TxIds \cup {None}
        /\ Col(r.fundTx, n.fundTx, w.fundTx) \in TxIds \cup {None}
        /\ Col(r.fundObs, n.fundObs, w.fundObs) \in ObsIds \cup {None}
    BY ColIsOne DEF ObRow
  <2> QED
    BY <2>1 DEF ObMergedRow, ObRow
<1>3. ASSUME NEW r \in TxRow, NEW n \in TxRow, NEW w \in TxRow
      PROVE  TxMergedRow(r, n, w) \in TxRow
  <2>1. /\ Col(r.kind, n.kind, w.kind) \in Kinds
        /\ Col(r.amount, n.amount, w.amount) \in Nat /\ Col(r.day, n.day, w.day) \in Nat
        /\ Col(r.imported, n.imported, w.imported) \in BOOLEAN
        /\ Col(r.counts, n.counts, w.counts) \in BOOLEAN
        /\ Col(r.group, n.group, w.group) \in TxIds \cup {None}
        /\ Col(r.peer, n.peer, w.peer) \in TxIds \cup {None}
    BY ColIsOne DEF TxRow
  <2> QED
    BY <2>1 DEF TxMergedRow, TxRow
<1> QED
  BY <1>1, <1>2, <1>3

LEMMA WrittenObs ==
  ASSUME NEW r \in [ObsIds -> ObsRow], NEW n \in [ObsIds -> ObsRow], NEW w \in [ObsIds -> ObsRow]
  PROVE  Written(r, n, w) = [k \in ObsIds |-> ObsMergedRow(r[k], n[k], w[k])]
<1>1. ASSUME NEW k \in ObsIds
      PROVE  [f \in DOMAIN w[k] |-> IF n[k][f] # r[k][f] THEN n[k][f] ELSE w[k][f]]
               = ObsMergedRow(r[k], n[k], w[k])
  BY DEF ObsMergedRow, ObsRow, Col
<1> QED
  BY <1>1 DEF Written

LEMMA WrittenOb ==
  ASSUME NEW r \in [Obligations -> ObRow], NEW n \in [Obligations -> ObRow],
         NEW w \in [Obligations -> ObRow]
  PROVE  Written(r, n, w) = [k \in Obligations |-> ObMergedRow(r[k], n[k], w[k])]
<1>1. ASSUME NEW k \in Obligations
      PROVE  [f \in DOMAIN w[k] |-> IF n[k][f] # r[k][f] THEN n[k][f] ELSE w[k][f]]
               = ObMergedRow(r[k], n[k], w[k])
  BY DEF ObMergedRow, ObRow, Col
<1> QED
  BY <1>1 DEF Written

LEMMA WrittenTx ==
  ASSUME NEW r \in [TxIds -> TxRow], NEW n \in [TxIds -> TxRow], NEW w \in [TxIds -> TxRow]
  PROVE  Written(r, n, w) = [k \in TxIds |-> TxMergedRow(r[k], n[k], w[k])]
<1>1. ASSUME NEW k \in TxIds
      PROVE  [f \in DOMAIN w[k] |-> IF n[k][f] # r[k][f] THEN n[k][f] ELSE w[k][f]]
               = TxMergedRow(r[k], n[k], w[k])
  BY DEF TxMergedRow, TxRow, Col
<1> QED
  BY <1>1 DEF Written

LEMMA MergedIs ==
  ASSUME NEW read \in Tables, NEW new \in Tables, NEW now \in Tables
  PROVE  LET w == Merged(read, new, now) IN
         /\ w \in Tables
         /\ \A x \in TxIds : w.tx[x] = TxMergedRow(read.tx[x], new.tx[x], now.tx[x])
         /\ \A o \in Obligations : w.ob[o] = ObMergedRow(read.ob[o], new.ob[o], now.ob[o])
         /\ \A n \in ObsIds : w.obs[n] = ObsMergedRow(read.obs[n], new.obs[n], now.obs[n])
<1> DEFINE w == Merged(read, new, now)
<1>1. /\ read.tx \in [TxIds -> TxRow] /\ read.ob \in [Obligations -> ObRow]
      /\ read.obs \in [ObsIds -> ObsRow]
      /\ new.tx \in [TxIds -> TxRow] /\ new.ob \in [Obligations -> ObRow]
      /\ new.obs \in [ObsIds -> ObsRow]
      /\ now.tx \in [TxIds -> TxRow] /\ now.ob \in [Obligations -> ObRow]
      /\ now.obs \in [ObsIds -> ObsRow]
  BY TablesOf
<1>2. w = [tx |-> [k \in TxIds |-> TxMergedRow(read.tx[k], new.tx[k], now.tx[k])],
           ob |-> [k \in Obligations |-> ObMergedRow(read.ob[k], new.ob[k], now.ob[k])],
           obs |-> [k \in ObsIds |-> ObsMergedRow(read.obs[k], new.obs[k], now.obs[k])]]
  <2>1. Written(read.tx, new.tx, now.tx) = [k \in TxIds |-> TxMergedRow(read.tx[k], new.tx[k], now.tx[k])]
    BY <1>1, WrittenTx
  <2>2. Written(read.ob, new.ob, now.ob)
          = [k \in Obligations |-> ObMergedRow(read.ob[k], new.ob[k], now.ob[k])]
    BY <1>1, WrittenOb
  <2>3. Written(read.obs, new.obs, now.obs)
          = [k \in ObsIds |-> ObsMergedRow(read.obs[k], new.obs[k], now.obs[k])]
    BY <1>1, WrittenObs
  <2> QED
    BY <2>1, <2>2, <2>3 DEF Merged
<1>3. \A k \in TxIds : TxMergedRow(read.tx[k], new.tx[k], now.tx[k]) \in TxRow
  BY <1>1, MergedRowsTyped
<1>4. \A k \in Obligations : ObMergedRow(read.ob[k], new.ob[k], now.ob[k]) \in ObRow
  BY <1>1, MergedRowsTyped
<1>5. \A k \in ObsIds : ObsMergedRow(read.obs[k], new.obs[k], now.obs[k]) \in ObsRow
  BY <1>1, MergedRowsTyped
<1>6. w \in Tables
  BY <1>2, <1>3, <1>4, <1>5, TablesAre
<1> HIDE DEF w
<1> QED
  BY <1>2, <1>6 DEF w

(* Written over the rows it read, the result is what was computed.          *)
LEMMA SelfMerge ==
  ASSUME NEW d \in Tables, NEW new \in Tables
  PROVE  Merged(d, new, d) = new
<1> DEFINE w == Merged(d, new, d)
<1>1. /\ d.tx \in [TxIds -> TxRow] /\ d.ob \in [Obligations -> ObRow] /\ d.obs \in [ObsIds -> ObsRow]
      /\ new.tx \in [TxIds -> TxRow] /\ new.ob \in [Obligations -> ObRow]
      /\ new.obs \in [ObsIds -> ObsRow]
  BY TablesOf
<1>2. /\ w \in Tables
      /\ \A x \in TxIds : w.tx[x] = TxMergedRow(d.tx[x], new.tx[x], d.tx[x])
      /\ \A o \in Obligations : w.ob[o] = ObMergedRow(d.ob[o], new.ob[o], d.ob[o])
      /\ \A n \in ObsIds : w.obs[n] = ObsMergedRow(d.obs[n], new.obs[n], d.obs[n])
  BY MergedIs
<1> HIDE DEF w
<1>3. /\ w.tx \in [TxIds -> TxRow] /\ w.ob \in [Obligations -> ObRow] /\ w.obs \in [ObsIds -> ObsRow]
      /\ w = [tx |-> w.tx, ob |-> w.ob, obs |-> w.obs]
  BY <1>2, TablesOf
<1>4. \A r, n \in TxRow : TxMergedRow(r, n, r) = n
  BY ColIsOne DEF TxMergedRow, TxRow
<1>5. \A r, n \in ObRow : ObMergedRow(r, n, r) = n
  BY ColIsOne DEF ObMergedRow, ObRow
<1>6. \A r, n \in ObsRow : ObsMergedRow(r, n, r) = n
  BY ColIsOne DEF ObsMergedRow, ObsRow
<1>7. \A x \in TxIds : w.tx[x] = new.tx[x]
  BY <1>1, <1>2, <1>4
<1>8. \A o \in Obligations : w.ob[o] = new.ob[o]
  BY <1>1, <1>2, <1>5
<1>9. \A n \in ObsIds : w.obs[n] = new.obs[n]
  BY <1>1, <1>2, <1>6
<1>10. w.tx = new.tx /\ w.ob = new.ob /\ w.obs = new.obs
  BY <1>1, <1>3, <1>7, <1>8, <1>9
<1>11. new = [tx |-> new.tx, ob |-> new.ob, obs |-> new.obs]
  BY TablesOf
<1> QED
  BY <1>3, <1>10, <1>11 DEF w

(* References to deleted rows are nulled; nothing else changes.             *)
LEMMA SettledIs ==
  ASSUME NEW d \in Tables
  PROVE  LET s == Settled(d) IN
         /\ s \in Tables /\ s.obs = d.obs
         /\ \A x \in TxIds :
              /\ s.tx[x].kind = d.tx[x].kind
              /\ d.tx[x].kind = "gone" => s.tx[x] = Gone
              /\ d.tx[x].kind # "gone" =>
                   /\ s.tx[x].amount = d.tx[x].amount /\ s.tx[x].counts = d.tx[x].counts
                   /\ s.tx[x].group = d.tx[x].group
         /\ \A o \in Obligations :
              /\ s.ob[o].status = d.ob[o].status /\ s.ob[o].created = d.ob[o].created
              /\ s.ob[o].privilege = d.ob[o].privilege /\ s.ob[o].fundObs = d.ob[o].fundObs
              /\ s.ob[o].paidTx = IF d.ob[o].paidTx # None /\ d.tx[d.ob[o].paidTx].kind = "gone"
                                  THEN None ELSE d.ob[o].paidTx
              /\ s.ob[o].fundTx = IF d.ob[o].fundTx # None /\ d.tx[d.ob[o].fundTx].kind = "gone"
                                  THEN None ELSE d.ob[o].fundTx
<1> DEFINE gone == {x \in TxIds : d.tx[x].kind = "gone"}
           Kept(x) == IF x \in gone THEN None ELSE x
           t == [x \in TxIds |-> IF x \in gone THEN Gone ELSE [d.tx[x] EXCEPT !.peer = Kept(d.tx[x].peer)]]
           b == [o \in Obligations |-> [d.ob[o] EXCEPT !.paidTx = Kept(d.ob[o].paidTx),
                                                       !.fundTx = Kept(d.ob[o].fundTx)]]
           s == Settled(d)
<1>1. /\ d.tx \in [TxIds -> TxRow] /\ d.ob \in [Obligations -> ObRow]
      /\ d.obs \in [ObsIds -> ObsRow]
  BY TablesOf
<1>2. \A x \in TxIds \cup {None} : Kept(x) \in TxIds \cup {None}
  OBVIOUS
<1>3. Gone \in TxRow /\ Gone.kind = "gone"
  BY DEF Gone, NoTx, TxRow, Kinds
<1>4. s = [tx |-> t, ob |-> b, obs |-> d.obs]
  <2>1. \A o \in Obligations :
          [d.ob[o] EXCEPT !.paidTx = Kept(@), !.fundTx = Kept(@)]
            = [d.ob[o] EXCEPT !.paidTx = Kept(d.ob[o].paidTx), !.fundTx = Kept(d.ob[o].fundTx)]
    BY <1>1 DEF ObRow
  <2> QED
    BY <2>1 DEF Settled
<1>5. ASSUME NEW x \in TxIds
      PROVE  /\ t[x] \in TxRow /\ t[x].kind = d.tx[x].kind
             /\ d.tx[x].kind = "gone" => t[x] = Gone
             /\ d.tx[x].kind # "gone" =>
                  /\ t[x].amount = d.tx[x].amount /\ t[x].counts = d.tx[x].counts
                  /\ t[x].group = d.tx[x].group
  <2>1. d.tx[x] \in TxRow /\ Kept(d.tx[x].peer) \in TxIds \cup {None}
    BY <1>1, <1>2 DEF TxRow
  <2>2. CASE x \in gone
    BY <1>3, <2>2
  <2>3. CASE x \notin gone
    <3>1. t[x] = [d.tx[x] EXCEPT !.peer = Kept(d.tx[x].peer)] /\ d.tx[x].kind # "gone"
      BY <2>3
    <3> HIDE DEF t, Kept
    <3> QED
      BY <2>1, <3>1 DEF TxRow
  <2> QED
    BY <2>2, <2>3
<1>6. ASSUME NEW o \in Obligations
      PROVE  /\ b[o] \in ObRow
             /\ b[o].status = d.ob[o].status /\ b[o].created = d.ob[o].created
             /\ b[o].privilege = d.ob[o].privilege /\ b[o].fundObs = d.ob[o].fundObs
             /\ b[o].paidTx = IF d.ob[o].paidTx # None /\ d.tx[d.ob[o].paidTx].kind = "gone"
                                  THEN None ELSE d.ob[o].paidTx
             /\ b[o].fundTx = IF d.ob[o].fundTx # None /\ d.tx[d.ob[o].fundTx].kind = "gone"
                                  THEN None ELSE d.ob[o].fundTx
  <2>1. d.ob[o] \in ObRow
    BY <1>1
  <2>2. \A x \in TxIds \cup {None} :
          Kept(x) = IF x # None /\ d.tx[x].kind = "gone" THEN None ELSE x
    BY IdsAreNat
  <2>3. b[o] = [d.ob[o] EXCEPT !.paidTx = Kept(d.ob[o].paidTx), !.fundTx = Kept(d.ob[o].fundTx)]
    OBVIOUS
  <2> HIDE DEF Kept, b
  <2> QED
    BY <1>2, <2>1, <2>2, <2>3 DEF ObRow
<1> HIDE DEF t, b, gone, Kept
<1>7. t \in [TxIds -> TxRow] /\ b \in [Obligations -> ObRow]
  <2>1. t \in [TxIds -> TxRow]
    BY <1>5 DEF t
  <2>2. b \in [Obligations -> ObRow]
    BY <1>6 DEF b
  <2> QED
    BY <2>1, <2>2
<1>8. s \in Tables /\ s.tx = t /\ s.ob = b /\ s.obs = d.obs
  BY <1>1, <1>4, <1>7, TablesAre
<1> HIDE DEF s
<1> QED
  BY <1>5, <1>6, <1>8 DEF s

-----------------------------------------------------------------------------
(* The observations, merged.                                                *)
NextSet(r, v) == [r EXCEPT !.next = v]
ReplacedBy(r, v) == [r EXCEPT !.next = v, !.invalid = TRUE]
Voided(r) == [r EXCEPT !.invalid = TRUE]

(* Observations given back over others than those read: nothing but links   *)
(* taken away and observations voided.                                      *)
Returned(r, w) ==
    \A k \in ObsIds :
        /\ w[k].used = r[k].used /\ w[k].trace = r[k].trace /\ w[k].prev = r[k].prev
        /\ w[k].next \in {r[k].next, None}
        /\ r[k].invalid => w[k].invalid
        /\ ~r[k].used => w[k] = r[k]
Spending(r, w, seen, now) ==
    \E n \in ObsIds, a \in Nat, t \in TxIds : Spends(r, w, seen, now, Latest(seen), n, a, t)
Confirming(r, w, now) ==
    \E p \in ObsIds \cup {None}, n \in ObsIds : Confirms(r, w, now, p, n)
Restoring(r, w) == \E n \in ObsIds : r[n].trace # None /\ Restores(r, w, n)

LEMMA ObsRowMerges ==
  ASSUME NEW r \in ObsRow, NEW w \in ObsRow, NEW v
  PROVE  /\ ObsMergedRow(r, r, w) = w
         /\ v # r.next => ObsMergedRow(r, NextSet(r, v), w) = NextSet(w, v)
         /\ v # r.next /\ (r.invalid => w.invalid) =>
              ObsMergedRow(r, ReplacedBy(r, v), w) = ReplacedBy(w, v)
         /\ ~r.invalid => ObsMergedRow(r, Voided(r), w) = Voided(w)
<1>1. w = [used |-> w.used, amount |-> w.amount, asOf |-> w.asOf, prev |-> w.prev,
           next |-> w.next, invalid |-> w.invalid, trace |-> w.trace]
      /\ w.invalid \in BOOLEAN
  BY DEF ObsRow
<1>2. r = [used |-> r.used, amount |-> r.amount, asOf |-> r.asOf, prev |-> r.prev,
           next |-> r.next, invalid |-> r.invalid, trace |-> r.trace]
      /\ r.invalid \in BOOLEAN
  BY DEF ObsRow
<1>3. ObsMergedRow(r, r, w) = w
  BY <1>1 DEF ObsMergedRow, Col
<1>4. v # r.next => ObsMergedRow(r, NextSet(r, v), w) = NextSet(w, v)
  BY <1>1, <1>2 DEF ObsMergedRow, Col, NextSet
<1> DEFINE yes == TRUE
<1>5. r.invalid \in {FALSE, yes} /\ w.invalid \in {FALSE, yes}
  BY <1>1, <1>2
<1>6. /\ ReplacedBy(r, v) = [r EXCEPT !.next = v, !.invalid = yes]
      /\ ReplacedBy(w, v) = [w EXCEPT !.next = v, !.invalid = yes]
      /\ Voided(r) = [r EXCEPT !.invalid = yes] /\ Voided(w) = [w EXCEPT !.invalid = yes]
  BY DEF ReplacedBy, Voided
<1>7. (r.invalid => w.invalid) => Col(r.invalid, yes, w.invalid) = yes
  <2>1. CASE r.invalid = yes
    BY <1>1, <2>1 DEF Col
  <2>2. CASE r.invalid = FALSE
    BY <2>2 DEF Col
  <2> QED
    BY <1>5, <2>1, <2>2
<1>8. ~r.invalid => (r.invalid => w.invalid)
  OBVIOUS
<1> HIDE DEF yes
<1>9. /\ [r EXCEPT !.invalid = yes]
           = [used |-> r.used, amount |-> r.amount, asOf |-> r.asOf, prev |-> r.prev,
              next |-> r.next, invalid |-> yes, trace |-> r.trace]
      /\ [w EXCEPT !.invalid = yes]
           = [used |-> w.used, amount |-> w.amount, asOf |-> w.asOf, prev |-> w.prev,
              next |-> w.next, invalid |-> yes, trace |-> w.trace]
  BY DEF ObsRow
<1>10. /\ [r EXCEPT !.next = v, !.invalid = yes]
           = [used |-> r.used, amount |-> r.amount, asOf |-> r.asOf, prev |-> r.prev,
              next |-> v, invalid |-> yes, trace |-> r.trace]
       /\ [w EXCEPT !.next = v, !.invalid = yes]
           = [used |-> w.used, amount |-> w.amount, asOf |-> w.asOf, prev |-> w.prev,
              next |-> v, invalid |-> yes, trace |-> w.trace]
  <2>1. \A q \in ObsRow : [q EXCEPT !.next = v, !.invalid = yes]
          = [used |-> q.used, amount |-> q.amount, asOf |-> q.asOf, prev |-> q.prev,
             next |-> v, invalid |-> yes, trace |-> q.trace]
    <3> SUFFICES ASSUME NEW q \in ObsRow
                 PROVE  [q EXCEPT !.next = v, !.invalid = yes]
                          = [used |-> q.used, amount |-> q.amount, asOf |-> q.asOf, prev |-> q.prev,
                             next |-> v, invalid |-> yes, trace |-> q.trace]
      OBVIOUS
    <3>1. PICK p : p = [q EXCEPT !.next = v]
      OBVIOUS
    <3>2. p = [used |-> q.used, amount |-> q.amount, asOf |-> q.asOf, prev |-> q.prev,
               next |-> v, invalid |-> q.invalid, trace |-> q.trace]
      BY <3>1 DEF ObsRow
    <3>3. [p EXCEPT !.invalid = yes] = [used |-> q.used, amount |-> q.amount, asOf |-> q.asOf,
             prev |-> q.prev, next |-> v, invalid |-> yes, trace |-> q.trace]
      BY <3>2
    <3>4. [q EXCEPT !.next = v, !.invalid = yes] = [p EXCEPT !.invalid = yes]
      BY <3>1
    <3> QED
      BY <3>3, <3>4
  <2> QED
    BY <2>1
<1>11. Col(r.next, v, w.next) = IF v # r.next THEN v ELSE w.next
  BY DEF Col
<1>12. v # r.next /\ (r.invalid => w.invalid) =>
         ObsMergedRow(r, ReplacedBy(r, v), w) = ReplacedBy(w, v)
  <2> SUFFICES ASSUME v # r.next, r.invalid => w.invalid
               PROVE  ObsMergedRow(r, ReplacedBy(r, v), w) = ReplacedBy(w, v)
    OBVIOUS
  <2> QED
    BY <1>6, <1>7, <1>10, <1>11, ColIsOne DEF ObsMergedRow
<1>13. ~r.invalid => ObsMergedRow(r, Voided(r), w) = Voided(w)
  <2> SUFFICES ASSUME ~r.invalid PROVE ObsMergedRow(r, Voided(r), w) = Voided(w)
    OBVIOUS
  <2> QED
    BY <1>6, <1>7, <1>8, <1>9, ColIsOne DEF ObsMergedRow
<1> QED
  BY <1>3, <1>4, <1>12, <1>13

LEMMA SpendsMerged ==
  ASSUME NEW read, LedgerSound(read), NEW now, LedgerSound(now), Since(read, now),
         NEW new \in Tables, NEW seen, Spending(read.obs, new.obs, seen, now)
  PROVE  Spending(now.obs, Merged(read, new, now).obs, seen, now)
<1> DEFINE m == Merged(read, new, now).obs  c == Latest(seen)
<1>1. /\ c \in ObsIds
      /\ \E n \in ObsIds, a \in Nat, t \in TxIds : Spends(read.obs, new.obs, seen, now, c, n, a, t)
  BY DEF Spending, Spends, Active
<1> HIDE DEF c
<1>0. PICK n \in ObsIds, a \in Nat, t \in TxIds : Spends(read.obs, new.obs, seen, now, c, n, a, t)
  BY <1>1
<1>2. /\ read.obs \in [ObsIds -> ObsRow] /\ now.obs \in [ObsIds -> ObsRow]
      /\ new.obs \in [ObsIds -> ObsRow]
  BY TablesOf DEF LedgerSound
<1>3. \A k \in ObsIds : m[k] = ObsMergedRow(read.obs[k], new.obs[k], now.obs[k])
  BY MergedIs DEF LedgerSound
<1> HIDE DEF m
<1>4. read.obs[n] = now.obs[n]
  BY <1>0, <1>2, SMTT(30) DEF Spends, LedgerSound, Since, ObsRow
<1>5. m[n] = new.obs[n]
  <2>1. \A q \in ObsRow : ObsMergedRow(now.obs[n], q, now.obs[n]) = q
    BY <1>2, ColIsOne DEF ObsMergedRow, ObsRow
  <2> QED
    BY <1>2, <1>3, <1>4, <2>1
<1>6. m[c] = NextSet(now.obs[c], n)
  <2>1. c \in ObsIds /\ new.obs[c] = NextSet(read.obs[c], n)
    BY <1>0, <1>1 DEF Spends, NextSet
  <2>2. n # read.obs[c].next
    BY <1>0, <2>1, IdsAreNat, SMTT(30) DEF Spends, LedgerSound, Since
  <2>3. read.obs[c] \in ObsRow /\ now.obs[c] \in ObsRow
    BY <1>2, <2>1
  <2> QED
    BY <1>3, <2>1, <2>2, <2>3, ObsRowMerges
<1>7. \A k \in ObsIds \ {c, n} : m[k] = now.obs[k]
  <2> SUFFICES ASSUME NEW k \in ObsIds \ {c, n} PROVE m[k] = now.obs[k]
    OBVIOUS
  <2>1. new.obs[k] = read.obs[k]
    BY <1>0 DEF Spends
  <2>2. read.obs[k] \in ObsRow /\ now.obs[k] \in ObsRow
    BY <1>2
  <2>3. ObsMergedRow(read.obs[k], read.obs[k], now.obs[k]) = now.obs[k]
    BY <2>2, ObsRowMerges
  <2> QED
    BY <1>3, <2>1, <2>3
<1>8. Spends(now.obs, m, seen, now, c, n, a, t)
  BY <1>0, <1>5, <1>6, <1>7 DEF Spends, NextSet
<1> QED
  BY <1>8 DEF Spending, m, c

LEMMA ConfirmsMerged ==
  ASSUME NEW read, LedgerSound(read), NEW now, LedgerSound(now), Since(read, now),
         NEW new \in Tables, Confirming(read.obs, new.obs, now)
  PROVE  Confirming(now.obs, Merged(read, new, now).obs, now)
<1> DEFINE m == Merged(read, new, now).obs
<1>1. PICK p \in ObsIds \cup {None}, n \in ObsIds : Confirms(read.obs, new.obs, now, p, n)
  BY DEF Confirming
<1>2. /\ read.obs \in [ObsIds -> ObsRow] /\ now.obs \in [ObsIds -> ObsRow]
      /\ new.obs \in [ObsIds -> ObsRow]
  BY TablesOf DEF LedgerSound
<1>3. \A k \in ObsIds : m[k] = ObsMergedRow(read.obs[k], new.obs[k], now.obs[k])
  BY MergedIs DEF LedgerSound
<1> HIDE DEF m
<1>4. read.obs[n] = now.obs[n] /\ ~read.obs[n].used
  BY <1>1, <1>2, SMTT(30) DEF Confirms, LedgerSound, Since, ObsRow
<1>5. m[n] = new.obs[n]
  <2>1. \A q \in ObsRow : ObsMergedRow(now.obs[n], q, now.obs[n]) = q
    BY <1>2, ColIsOne DEF ObsMergedRow, ObsRow
  <2> QED
    BY <1>2, <1>3, <1>4, <2>1
<1>6. p # None => m[p] = ReplacedBy(now.obs[p], n) /\ now.obs[p].used
  <2> SUFFICES ASSUME p # None PROVE m[p] = ReplacedBy(now.obs[p], n) /\ now.obs[p].used
    OBVIOUS
  <2>1. p \in ObsIds /\ new.obs[p] = ReplacedBy(read.obs[p], n) /\ read.obs[p].used
    BY <1>1 DEF Confirms, ReplacedBy
  <2>2. n # read.obs[p].next
    BY <1>1, <1>4, <2>1, IdsAreNat, SMTT(30) DEF LedgerSound
  <2>3. /\ read.obs[p] \in ObsRow /\ now.obs[p] \in ObsRow
        /\ read.obs[p].invalid => now.obs[p].invalid
        /\ now.obs[p].used
    BY <1>2, <2>1 DEF Since
  <2> QED
    BY <1>3, <2>1, <2>2, <2>3, ObsRowMerges
<1>7. \A k \in ObsIds \ {p, n} : m[k] = now.obs[k]
  <2> SUFFICES ASSUME NEW k \in ObsIds \ {p, n} PROVE m[k] = now.obs[k]
    OBVIOUS
  <2>1. new.obs[k] = read.obs[k]
    BY <1>1 DEF Confirms
  <2>2. read.obs[k] \in ObsRow /\ now.obs[k] \in ObsRow
    BY <1>2
  <2>3. ObsMergedRow(read.obs[k], read.obs[k], now.obs[k]) = now.obs[k]
    BY <2>2, ObsRowMerges
  <2> QED
    BY <1>3, <2>1, <2>3
<1>8. Confirms(now.obs, m, now, p, n)
  BY <1>1, <1>5, <1>6, <1>7 DEF Confirms, ReplacedBy
<1> QED
  BY <1>8 DEF Confirming, m

LEMMA RestoresMerged ==
  ASSUME NEW read, LedgerSound(read), NEW now, LedgerSound(now), Since(read, now),
         NEW new \in Tables, Restoring(read.obs, new.obs)
  PROVE  Returned(now.obs, Merged(read, new, now).obs)
<1> DEFINE m == Merged(read, new, now).obs
<1>1. PICK n \in ObsIds : read.obs[n].trace # None /\ Restores(read.obs, new.obs, n)
  BY DEF Restoring
<1>2. /\ read.obs \in [ObsIds -> ObsRow] /\ now.obs \in [ObsIds -> ObsRow]
      /\ new.obs \in [ObsIds -> ObsRow]
  BY TablesOf DEF LedgerSound
<1>3. \A k \in ObsIds : m[k] = ObsMergedRow(read.obs[k], new.obs[k], now.obs[k])
  BY MergedIs DEF LedgerSound
<1> HIDE DEF m
<1>4. read.obs[n].used /\ now.obs[n].used
  BY <1>1, SMTT(30) DEF LedgerSound, Since, NoObs
<1>5. m[n] = Voided(now.obs[n])
  <2>1. new.obs[n] = Voided(read.obs[n]) /\ ~read.obs[n].invalid
    BY <1>1 DEF Restores, Voided
  <2>2. read.obs[n] \in ObsRow /\ now.obs[n] \in ObsRow
    BY <1>2
  <2> QED
    BY <1>3, <2>1, <2>2, ObsRowMerges
<1>6. ASSUME NEW k \in ObsIds \ {n}
      PROVE  m[k] = now.obs[k] \/ (now.obs[k].used /\ m[k] = NextSet(now.obs[k], None))
  <2>1. new.obs[k] = IF k = read.obs[n].prev THEN NextSet(read.obs[k], None) ELSE read.obs[k]
    BY <1>1 DEF Restores, NextSet
  <2>2. read.obs[k] \in ObsRow /\ now.obs[k] \in ObsRow
    BY <1>2
  <2>3. read.obs[k].next = None => NextSet(read.obs[k], None) = read.obs[k]
    BY <2>2 DEF NextSet, ObsRow
  <2>4. CASE new.obs[k] = read.obs[k]
    BY <1>3, <2>2, <2>4, ObsRowMerges
  <2>5. CASE new.obs[k] # read.obs[k]
    <3>1. new.obs[k] = NextSet(read.obs[k], None) /\ read.obs[k].next # None
      BY <2>1, <2>3, <2>5
    <3>2. now.obs[k].used
      BY <3>1, SMTT(30) DEF LedgerSound, Since, NoObs
    <3> QED
      BY <1>3, <2>2, <3>1, <3>2, ObsRowMerges
  <2> QED
    BY <2>4, <2>5
<1>7. ASSUME NEW k \in ObsIds
      PROVE  /\ m[k].used = now.obs[k].used /\ m[k].trace = now.obs[k].trace
             /\ m[k].prev = now.obs[k].prev /\ m[k].next \in {now.obs[k].next, None}
             /\ now.obs[k].invalid => m[k].invalid
             /\ ~now.obs[k].used => m[k] = now.obs[k]
  <2>1. now.obs[k] \in ObsRow
    BY <1>2
  <2>2. m[k] = now.obs[k] \/ (now.obs[k].used /\ m[k] = NextSet(now.obs[k], None))
          \/ (now.obs[k].used /\ m[k] = Voided(now.obs[k]))
    BY <1>4, <1>5, <1>6
  <2> QED
    BY <2>1, <2>2 DEF NextSet, Voided, ObsRow
<1> QED
  BY <1>7 DEF Returned, m

(* The observations w that a commit leaves, where they were r.              *)
ObsRowsSound(w) ==
    /\ \A n \in ObsIds : ~w[n].used => w[n] = NoObs
    /\ \A n \in ObsIds : w[n].next # None => w[w[n].next].used
    /\ \A n \in ObsIds : w[n].trace # None => w[n].prev # None
ObsSince(r, w) ==
    /\ \A n \in ObsIds : r[n].used =>
         w[n].used /\ w[n].trace = r[n].trace /\ w[n].prev = r[n].prev
    /\ \A n \in ObsIds : r[n].invalid => w[n].invalid

LEMMA ObsSound ==
  ASSUME NEW seen, NEW now, Since(seen, now), LedgerSound(now), NEW w \in [ObsIds -> ObsRow],
         w = now.obs \/ Spending(now.obs, w, seen, now) \/ Confirming(now.obs, w, now)
           \/ Returned(now.obs, w)
  PROVE  ObsRowsSound(w) /\ ObsSince(now.obs, w)
<1> DEFINE r == now.obs
<1>1. /\ r \in [ObsIds -> ObsRow] /\ None \notin ObsIds
      /\ \A n \in ObsIds : ~r[n].used => r[n] = NoObs
      /\ \A n \in ObsIds : r[n].next # None => r[n].next \in ObsIds /\ r[r[n].next].used
      /\ \A n \in ObsIds : r[n].trace # None => r[n].prev # None
  BY TablesOf, IdsAreNat DEF LedgerSound, ObsRow
<1>2. CASE w = r
  BY <1>1, <1>2 DEF ObsRowsSound, ObsSince
<1>3. CASE Spending(r, w, seen, now)
  <2> DEFINE c == Latest(seen)
  <2>0. PICK n \in ObsIds, a \in Nat, t \in TxIds : Spends(r, w, seen, now, c, n, a, t)
    BY <1>3 DEF Spending
  <2>1. c \in ObsIds /\ r[c].used
    BY <2>0 DEF Spends, Active, Since
  <2> HIDE DEF c
  <2> DEFINE u == NextSet(r[c], n)
  <2>2. /\ c # n /\ ~r[n].used /\ r[c].used
        /\ w[c] = u /\ w[n].used /\ w[n].next = None /\ w[n].prev = c
        /\ \A k \in ObsIds \ {c, n} : w[k] = r[k]
    BY <2>0, <2>1 DEF Spends, NextSet
  <2>3. /\ u.used = r[c].used /\ u.trace = r[c].trace /\ u.prev = r[c].prev
        /\ u.invalid = r[c].invalid /\ u.next = n
    BY <1>1, <2>1 DEF NextSet, ObsRow
  <2> HIDE DEF u, r
  <2>4. ~r[n].invalid /\ r[n].trace = None
    BY <1>1, <2>2 DEF NoObs
  <2>5. \A k \in ObsIds : r[k].used => w[k].used
    BY <2>1, <2>2, <2>3
  <2>6. \A k \in ObsIds : w[k].next # None => w[w[k].next].used
    BY <1>1, <2>2, <2>3, <2>5
  <2>7. \A k \in ObsIds : w[k].trace # None => w[k].prev # None
    <3> SUFFICES ASSUME NEW k \in ObsIds, w[k].trace # None PROVE w[k].prev # None
      OBVIOUS
    <3>1. CASE k = n
      BY <1>1, <2>1, <2>2, <3>1
    <3>2. CASE k # n
      BY <1>1, <2>2, <2>3, <3>2
    <3> QED
      BY <3>1, <3>2
  <2>8. \A k \in ObsIds : ~w[k].used => w[k] = NoObs
    <3> SUFFICES ASSUME NEW k \in ObsIds, ~w[k].used PROVE w[k] = NoObs
      OBVIOUS
    <3>1. k # n /\ k # c
      BY <2>2, <2>3
    <3> QED
      BY <1>1, <2>2, <3>1
  <2>9. ObsSince(r, w)
    BY <1>1, <2>2, <2>3, <2>4 DEF ObsSince
  <2> QED
    BY <2>6, <2>7, <2>8, <2>9 DEF ObsRowsSound, r
<1>4. CASE Confirming(r, w, now)
  <2>1. PICK p \in ObsIds \cup {None}, n \in ObsIds : Confirms(r, w, now, p, n)
    BY <1>4 DEF Confirming
  <2> DEFINE u == ReplacedBy(r[p], n)
  <2>2. /\ ~r[n].used
        /\ w[n].used /\ w[n].next = None /\ w[n].trace = None
        /\ p # None => p \in ObsIds /\ p # n /\ r[p].used /\ w[p] = u
        /\ \A k \in ObsIds \ {p, n} : w[k] = r[k]
    BY <2>1 DEF Confirms, ReplacedBy
  <2>3. p # None => /\ u.used = r[p].used /\ u.trace = r[p].trace /\ u.prev = r[p].prev
                    /\ u.invalid /\ u.next = n
    BY <1>1, <2>2 DEF ReplacedBy, ObsRow
  <2> HIDE DEF u, r
  <2>4. ~r[n].invalid /\ r[n].trace = None
    BY <1>1, <2>2 DEF NoObs
  <2>5. \A k \in ObsIds : r[k].used => w[k].used
    BY <1>1, <2>2, <2>3
  <2>6. \A k \in ObsIds : w[k].next # None => w[w[k].next].used
    BY <1>1, <2>2, <2>3, <2>5
  <2>7. \A k \in ObsIds : w[k].trace # None => w[k].prev # None
    BY <1>1, <2>2, <2>3
  <2>8. \A k \in ObsIds : ~w[k].used => w[k] = NoObs
    BY <1>1, <2>2, <2>3
  <2>9. ObsSince(r, w)
    BY <1>1, <2>2, <2>3, <2>4 DEF ObsSince
  <2> QED
    BY <2>6, <2>7, <2>8, <2>9 DEF ObsRowsSound, r
<1>5. CASE Returned(r, w)
  <2> HIDE DEF r
  <2>1. \A k \in ObsIds : w[k].next # None => w[w[k].next].used
    BY <1>1, <1>5 DEF Returned
  <2>2. \A k \in ObsIds : w[k].trace # None => w[k].prev # None
    BY <1>1, <1>5 DEF Returned
  <2>3. \A k \in ObsIds : ~w[k].used => w[k] = NoObs
    BY <1>1, <1>5 DEF Returned
  <2>4. ObsSince(r, w)
    BY <1>5 DEF Returned, ObsSince
  <2> QED
    BY <2>1, <2>2, <2>3, <2>4 DEF ObsRowsSound, r
<1> QED
  BY <1>2, <1>3, <1>4, <1>5

-----------------------------------------------------------------------------
(* What an operation that decided on the rows read leaves in each table.    *)
KindMoves(read, e, now) ==
    \/ \E C \in SUBSET TxIds : Adds(read.tx, e.tx, now, C)
    \/ \A x \in TxIds : e.tx[x].kind # read.tx[x].kind =>
           e.tx[x].kind # "unused" /\ read.tx[x].kind # "unused"
ObMoves(read, e) ==
    \A o \in Obligations :
        /\ e.ob[o].paidTx \in {read.ob[o].paidTx, None} \/ e.tx[e.ob[o].paidTx].kind # "unused"
        /\ e.ob[o].fundTx \in {read.ob[o].fundTx, None} \/ e.tx[e.ob[o].fundTx].kind # "unused"
        /\ e.ob[o].fundObs \in {read.ob[o].fundObs, None} \/ e.obs[e.ob[o].fundObs].trace # None
ObsMoves(rq, read, e, now) ==
    \/ e.obs = read.obs
    \/ Spending(read.obs, e.obs, BalanceFrom(rq, read, now), now)
    \/ Confirming(read.obs, e.obs, now)
    \/ rq.op \in {"delete", "unpay"} /\ Restoring(read.obs, e.obs)
Moves(rq, read, e, now) ==
    e \in Tables /\ KindMoves(read, e, now) /\ ObMoves(read, e) /\ ObsMoves(rq, read, e, now)

LEMMA KindsMerged ==
  ASSUME NEW read, LedgerSound(read), NEW now, LedgerSound(now), Since(read, now),
         NEW e \in Tables, KindMoves(read, e, now)
  PROVE  LET w == Merged(read, e, now) IN
         /\ \A x \in TxIds : w.tx[x].kind = "unused" =>
              now.tx[x].kind = "unused" /\ e.tx[x].kind = "unused"
         /\ \A x, y \in TxIds : x < y /\ w.tx[x].kind = "unused" => w.tx[y].kind = "unused"
<1> DEFINE w == Merged(read, e, now)
<1>1. \A x \in TxIds : w.tx[x].kind = Col(read.tx[x].kind, e.tx[x].kind, now.tx[x].kind)
  <2>1. read \in Tables /\ now \in Tables
    BY DEF LedgerSound
  <2>2. \A x \in TxIds : w.tx[x] = TxMergedRow(read.tx[x], e.tx[x], now.tx[x])
    BY <2>1, MergedIs
  <2>3. \A r, n, q \in TxRow : TxMergedRow(r, n, q).kind = Col(r.kind, n.kind, q.kind)
    BY DEF TxMergedRow
  <2>4. \A x \in TxIds : read.tx[x] \in TxRow /\ e.tx[x] \in TxRow /\ now.tx[x] \in TxRow
    BY <2>1, TablesOf
  <2> HIDE DEF w
  <2> QED
    BY <2>2, <2>3, <2>4
<1>2. \A x \in TxIds : now.tx[x].kind = "unused" => read.tx[x].kind = "unused"
  BY DEF Since
<1>3. \A x, y \in TxIds : x < y /\ now.tx[x].kind = "unused" => now.tx[y].kind = "unused"
  BY DEF LedgerSound
<1> HIDE DEF w
<1>4. CASE \E C \in SUBSET TxIds : Adds(read.tx, e.tx, now, C)
  <2>1. PICK C \in SUBSET TxIds : Adds(read.tx, e.tx, now, C)
    BY <1>4
  <2>2. \A x \in C : /\ now.tx[x].kind = "unused" /\ read.tx[x].kind = "unused"
                     /\ e.tx[x].kind # "unused" /\ w.tx[x].kind # "unused"
    BY <1>1, <1>2, <2>1 DEF Adds, Col
  <2>3. \A x \in TxIds \ C : w.tx[x].kind = now.tx[x].kind /\ e.tx[x].kind = read.tx[x].kind
    BY <1>1, <2>1 DEF Adds, Col
  <2>4. ASSUME NEW x \in TxIds, NEW y \in TxIds, x < y, w.tx[x].kind = "unused"
        PROVE  w.tx[y].kind = "unused"
    <3>1. x \notin C /\ now.tx[x].kind = "unused" /\ now.tx[y].kind = "unused"
      BY <1>3, <2>2, <2>3, <2>4
    <3>2. y \notin C
      <4> SUFFICES ASSUME y \in C PROVE FALSE
        OBVIOUS
      <4>1. y < x
        BY <2>1, <3>1 DEF Adds
      <4> QED
        BY <2>4, <4>1, IdsAreNat
    <3> QED
      BY <2>3, <3>1, <3>2
  <2> QED
    BY <1>2, <2>2, <2>3, <2>4 DEF w
<1>5. CASE \A x \in TxIds : e.tx[x].kind # read.tx[x].kind =>
             e.tx[x].kind # "unused" /\ read.tx[x].kind # "unused"
  <2>1. \A x \in TxIds : w.tx[x].kind = "unused" <=> now.tx[x].kind = "unused"
    BY <1>1, <1>2, <1>5 DEF Col
  <2>2. \A x \in TxIds : now.tx[x].kind = "unused" => e.tx[x].kind = "unused"
    BY <1>2, <1>5
  <2> QED
    BY <1>3, <2>1, <2>2 DEF w
<1> QED
  BY <1>4, <1>5 DEF KindMoves

(* What a request commits, over the rows as they are now.                   *)
Commit(read, e, now) == Settled(Merged(read, e, now))

LEMMA ObsMerged ==
  ASSUME NEW read, LedgerSound(read), NEW now, LedgerSound(now), Since(read, now),
         NEW rq, NEW e, Moves(rq, read, e, now)
  PROVE  LET m == Merged(read, e, now).obs IN
         /\ m \in [ObsIds -> ObsRow]
         /\ m = now.obs \/ Spending(now.obs, m, BalanceFrom(rq, read, now), now)
              \/ Confirming(now.obs, m, now)
              \/ (rq.op \in {"delete", "unpay"} /\ Returned(now.obs, m))
         /\ \A n \in ObsIds : e.obs[n].trace # None => m[n].trace # None
<1> DEFINE w == Merged(read, e, now)  m == w.obs
<1>1. read \in Tables /\ now \in Tables /\ e \in Tables
  BY DEF LedgerSound, Moves
<1>2. w \in Tables /\ \A n \in ObsIds : m[n] = ObsMergedRow(read.obs[n], e.obs[n], now.obs[n])
  BY <1>1, MergedIs
<1> HIDE DEF w
<1>3. /\ m \in [ObsIds -> ObsRow] /\ read.obs \in [ObsIds -> ObsRow]
      /\ e.obs \in [ObsIds -> ObsRow] /\ now.obs \in [ObsIds -> ObsRow]
  BY <1>1, <1>2, TablesOf
<1>4. ASSUME NEW n \in ObsIds, e.obs[n].trace # None PROVE m[n].trace # None
  <2>1. \A r, q, k \in ObsRow : ObsMergedRow(r, q, k).trace = Col(r.trace, q.trace, k.trace)
    BY DEF ObsMergedRow
  <2>2. m[n].trace = Col(read.obs[n].trace, e.obs[n].trace, now.obs[n].trace)
    BY <1>2, <1>3, <2>1
  <2>3. read.obs[n].trace # None => now.obs[n].trace = read.obs[n].trace
    BY DEF LedgerSound, Since, NoObs
  <2> QED
    BY <1>4, <2>2, <2>3 DEF Col
<1>5. CASE e.obs = read.obs
  <2>1. \A n \in ObsIds : m[n] = now.obs[n]
    <3> SUFFICES ASSUME NEW n \in ObsIds PROVE m[n] = now.obs[n]
      OBVIOUS
    <3>1. read.obs[n] \in ObsRow /\ now.obs[n] \in ObsRow /\ e.obs[n] = read.obs[n]
      BY <1>3, <1>5
    <3> QED
      BY <1>2, <3>1, ObsRowMerges
  <2>2. m = now.obs
    BY <1>3, <2>1
  <2> QED
    BY <1>3, <1>4, <2>2 DEF w
<1>6. CASE Spending(read.obs, e.obs, BalanceFrom(rq, read, now), now)
  BY <1>1, <1>3, <1>4, <1>6, SpendsMerged DEF w
<1>7. CASE Confirming(read.obs, e.obs, now)
  BY <1>1, <1>3, <1>4, <1>7, ConfirmsMerged DEF w
<1>8. CASE rq.op \in {"delete", "unpay"} /\ Restoring(read.obs, e.obs)
  BY <1>1, <1>3, <1>4, <1>8, RestoresMerged DEF w
<1> QED
  BY <1>5, <1>6, <1>7, <1>8 DEF Moves, ObsMoves

LEMMA ObMerged ==
  ASSUME NEW read, LedgerSound(read), NEW now, LedgerSound(now), Since(read, now),
         NEW rq, NEW e, Moves(rq, read, e, now)
  PROVE  LET w == Merged(read, e, now) IN
         \A o \in Obligations :
            /\ w.ob[o].paidTx # None => w.tx[w.ob[o].paidTx].kind # "unused"
            /\ w.ob[o].fundTx # None => w.tx[w.ob[o].fundTx].kind # "unused"
            /\ w.ob[o].fundObs # None => w.obs[w.ob[o].fundObs].trace # None
<1> DEFINE w == Merged(read, e, now)
<1>1. read \in Tables /\ now \in Tables /\ e \in Tables /\ KindMoves(read, e, now) /\ ObMoves(read, e)
  BY DEF LedgerSound, Moves
<1>2. /\ w \in Tables
      /\ \A o \in Obligations : w.ob[o] = ObMergedRow(read.ob[o], e.ob[o], now.ob[o])
  BY <1>1, MergedIs
<1>3. \A x \in TxIds : w.tx[x].kind = "unused" => now.tx[x].kind = "unused" /\ e.tx[x].kind = "unused"
  BY <1>1, KindsMerged
<1>4. \A n \in ObsIds : e.obs[n].trace # None => w.obs[n].trace # None
  BY ObsMerged
<1>5. \A n \in ObsIds : now.obs[n].trace # None => w.obs[n].trace # None
  <2>1. /\ w.obs \in [ObsIds -> ObsRow]
        /\ w.obs = now.obs \/ Spending(now.obs, w.obs, BalanceFrom(rq, read, now), now)
             \/ Confirming(now.obs, w.obs, now)
             \/ (rq.op \in {"delete", "unpay"} /\ Returned(now.obs, w.obs))
    BY ObsMerged
  <2>2. ObsSince(now.obs, w.obs)
    BY <2>1, SeenIs, ObsSound
  <2>3. \A n \in ObsIds : now.obs[n].trace # None => now.obs[n].used
    BY DEF LedgerSound, NoObs
  <2> QED
    BY <2>2, <2>3 DEF ObsSince
<1> HIDE DEF w
<1>6. /\ w.ob \in [Obligations -> ObRow] /\ e.ob \in [Obligations -> ObRow]
      /\ read.ob \in [Obligations -> ObRow] /\ now.ob \in [Obligations -> ObRow]
  BY <1>1, <1>2, TablesOf
<1> SUFFICES ASSUME NEW o \in Obligations
             PROVE  /\ w.ob[o].paidTx # None => w.tx[w.ob[o].paidTx].kind # "unused"
                    /\ w.ob[o].fundTx # None => w.tx[w.ob[o].fundTx].kind # "unused"
                    /\ w.ob[o].fundObs # None => w.obs[w.ob[o].fundObs].trace # None
  BY DEF w
<1>7. /\ w.ob[o].paidTx = Col(read.ob[o].paidTx, e.ob[o].paidTx, now.ob[o].paidTx)
      /\ w.ob[o].fundTx = Col(read.ob[o].fundTx, e.ob[o].fundTx, now.ob[o].fundTx)
      /\ w.ob[o].fundObs = Col(read.ob[o].fundObs, e.ob[o].fundObs, now.ob[o].fundObs)
  <2>1. \A r, n, q \in ObRow : LET v == ObMergedRow(r, n, q) IN
          /\ v.paidTx = Col(r.paidTx, n.paidTx, q.paidTx)
          /\ v.fundTx = Col(r.fundTx, n.fundTx, q.fundTx)
          /\ v.fundObs = Col(r.fundObs, n.fundObs, q.fundObs)
    BY DEF ObMergedRow
  <2>2. read.ob[o] \in ObRow /\ e.ob[o] \in ObRow /\ now.ob[o] \in ObRow
    BY <1>6
  <2> QED
    BY <1>2, <2>1, <2>2
<1>8. /\ now.ob[o].paidTx # None => now.tx[now.ob[o].paidTx].kind # "unused"
      /\ now.ob[o].fundTx # None => now.tx[now.ob[o].fundTx].kind # "unused"
      /\ now.ob[o].fundObs # None => now.obs[now.ob[o].fundObs].trace # None
  BY DEF LedgerSound
<1>9. /\ w.ob[o].paidTx \in TxIds \cup {None} /\ w.ob[o].fundTx \in TxIds \cup {None}
      /\ w.ob[o].fundObs \in ObsIds \cup {None}
  BY <1>6 DEF ObRow
<1>10. /\ e.ob[o].paidTx \in {read.ob[o].paidTx, None} \/ e.tx[e.ob[o].paidTx].kind # "unused"
       /\ e.ob[o].fundTx \in {read.ob[o].fundTx, None} \/ e.tx[e.ob[o].fundTx].kind # "unused"
       /\ e.ob[o].fundObs \in {read.ob[o].fundObs, None} \/ e.obs[e.ob[o].fundObs].trace # None
  BY <1>1 DEF ObMoves
<1>11. w.ob[o].paidTx # None => w.tx[w.ob[o].paidTx].kind # "unused"
  BY <1>3, <1>7, <1>8, <1>9, <1>10 DEF Col
<1>12. w.ob[o].fundTx # None => w.tx[w.ob[o].fundTx].kind # "unused"
  BY <1>3, <1>7, <1>8, <1>9, <1>10 DEF Col
<1>13. w.ob[o].fundObs # None => w.obs[w.ob[o].fundObs].trace # None
  BY <1>4, <1>5, <1>7, <1>8, <1>9, <1>10 DEF Col
<1> QED
  BY <1>11, <1>12, <1>13

(* Whatever overlaps, a commit leaves sound tables, later than those before.*)
LEMMA CommitSound ==
  ASSUME NEW read, LedgerSound(read), NEW now, LedgerSound(now), Since(read, now),
         NEW rq, NEW e, Moves(rq, read, e, now)
  PROVE  LET w == Commit(read, e, now) IN LedgerSound(w) /\ Since(now, w)
<1> DEFINE m == Merged(read, e, now)  w == Settled(m)
<1>1. read \in Tables /\ now \in Tables /\ e \in Tables /\ KindMoves(read, e, now)
  BY DEF LedgerSound, Moves
<1>2. m \in Tables
  BY <1>1, MergedIs
<1>3. /\ \A x \in TxIds : m.tx[x].kind = "unused" => now.tx[x].kind = "unused"
      /\ \A x, y \in TxIds : x < y /\ m.tx[x].kind = "unused" => m.tx[y].kind = "unused"
  BY <1>1, KindsMerged
<1>4. /\ m.obs \in [ObsIds -> ObsRow]
      /\ m.obs = now.obs \/ Spending(now.obs, m.obs, BalanceFrom(rq, read, now), now)
           \/ Confirming(now.obs, m.obs, now)
           \/ Returned(now.obs, m.obs)
  BY ObsMerged
<1>5. ObsRowsSound(m.obs) /\ ObsSince(now.obs, m.obs)
  BY <1>4, SeenIs, ObsSound
<1>6. \A o \in Obligations :
        /\ m.ob[o].paidTx # None => m.tx[m.ob[o].paidTx].kind # "unused"
        /\ m.ob[o].fundTx # None => m.tx[m.ob[o].fundTx].kind # "unused"
        /\ m.ob[o].fundObs # None => m.obs[m.ob[o].fundObs].trace # None
  BY ObMerged
<1> HIDE DEF m
<1>7. /\ w \in Tables /\ w.obs = m.obs
      /\ \A x \in TxIds : w.tx[x].kind = m.tx[x].kind
      /\ \A o \in Obligations : /\ w.ob[o].fundObs = m.ob[o].fundObs
                                /\ w.ob[o].paidTx \in {m.ob[o].paidTx, None}
                                /\ w.ob[o].fundTx \in {m.ob[o].fundTx, None}
  BY <1>2, SettledIs
<1> HIDE DEF w
<1>8. m.ob \in [Obligations -> ObRow]
  BY <1>2, TablesOf
<1>9. \A o \in Obligations :
        /\ w.ob[o].paidTx # None => w.tx[w.ob[o].paidTx].kind # "unused"
        /\ w.ob[o].fundTx # None => w.tx[w.ob[o].fundTx].kind # "unused"
        /\ w.ob[o].fundObs # None => w.obs[w.ob[o].fundObs].trace # None
  BY <1>6, <1>7, <1>8 DEF ObRow
<1>10. LedgerSound(w)
  BY <1>3, <1>5, <1>7, <1>9, SMTT(30) DEF LedgerSound, ObsRowsSound
<1>11. Since(now, w)
  BY <1>3, <1>5, <1>7 DEF Since, ObsSince
<1> QED
  BY <1>10, <1>11 DEF Commit, w, m

(* What one request read is still behind the tables two commits later.      *)
LEMMA SinceBoth ==
  ASSUME NEW a, NEW b, NEW c, Since(a, b), Since(b, c)
  PROVE  Since(a, c)
  BY DEF Since

(* A standing redemption, and the balances no redemption shares.            *)
Stands(d, n) == d.obs[n].trace # None /\ ~d.obs[n].invalid
SpentOnce(d) ==
    /\ \A m, n \in ObsIds : Stands(d, m) /\ Stands(d, n) /\ d.obs[m].prev = d.obs[n].prev => m = n
    /\ \A m \in ObsIds : Stands(d, m) =>
         d.obs[d.obs[m].prev].next # None \/ d.obs[d.obs[m].prev].invalid

LEMMA CommitSpends ==
  ASSUME NEW read, LedgerSound(read), NEW now, LedgerSound(now), Since(read, now),
         NEW rq, NEW e, Moves(rq, read, e, now), SpentOnce(now),
         rq.op \in {"delete", "unpay"} => read = now,
         ~SpendsOutdated(rq, read, now)
  PROVE  SpentOnce(Commit(read, e, now))
<1> DEFINE m == Merged(read, e, now)  r == now.obs  w == Commit(read, e, now)
           seen == BalanceFrom(rq, read, now)
<1>1. read \in Tables /\ now \in Tables /\ e \in Tables
  BY DEF LedgerSound, Moves
<1>2. m \in Tables
  BY <1>1, MergedIs
<1>3. w.obs = m.obs
  BY <1>2, SettledIs DEF Commit
<1>4. /\ m.obs \in [ObsIds -> ObsRow]
      /\ m.obs = r \/ Spending(r, m.obs, seen, now) \/ Confirming(r, m.obs, now)
           \/ (rq.op \in {"delete", "unpay"} /\ Returned(r, m.obs))
  BY ObsMerged
<1>5. m.obs = r \/ Spending(r, m.obs, seen, now) \/ Confirming(r, m.obs, now) \/ Restoring(r, m.obs)
  <2>1. CASE rq.op \in {"delete", "unpay"}
    <3>1. m = e /\ read = now
      BY <1>1, <2>1, SelfMerge
    <3> QED
      BY <3>1 DEF Moves, ObsMoves
  <2>2. CASE ~(rq.op \in {"delete", "unpay"})
    BY <1>4, <2>2
  <2> QED
    BY <2>1, <2>2
<1> HIDE DEF m, w
<1> DEFINE s == w.obs
<1>6. /\ r \in [ObsIds -> ObsRow] /\ None \notin ObsIds
      /\ \A n \in ObsIds : ~r[n].used => r[n].next = None /\ ~r[n].invalid /\ r[n].trace = None
      /\ \A n \in ObsIds : r[n].trace # None => r[n].prev # None
      /\ \A n \in ObsIds : r[n].prev \in ObsIds \cup {None}
  BY <1>1, TablesOf, IdsAreNat DEF LedgerSound, NoObs, ObsRow
<1> DEFINE R(n) == r[n].trace # None /\ ~r[n].invalid
           W(n) == s[n].trace # None /\ ~s[n].invalid
<1>7. /\ \A k, n \in ObsIds : R(k) /\ R(n) /\ r[k].prev = r[n].prev => k = n
      /\ \A k \in ObsIds : R(k) => r[r[k].prev].next # None \/ r[r[k].prev].invalid
  BY DEF SpentOnce, Stands
<1>8. CASE s = r
  BY <1>7, <1>8 DEF SpentOnce, Stands, w
<1>9. CASE Spending(r, s, seen, now)
  <2> DEFINE c == Latest(seen)
  <2>0. PICK n \in ObsIds, a \in Nat, t \in TxIds : Spends(r, s, seen, now, c, n, a, t)
    BY <1>9 DEF Spending
  <2>1. c \in ObsIds /\ r[c] = seen.obs[c]
    <3>1. c \in ObsIds
      BY <2>0 DEF Spends, Active
    <3>2. seen = now \/ (rq.op = "pay" /\ rq.fund /\ seen = Seen(rq, read, now))
      BY DEF BalanceFrom
    <3> QED
      BY <1>9, <3>1, <3>2 DEF SpendsOutdated
  <2> DEFINE u == NextSet(r[c], n)
  <2>2. /\ c # n /\ ~r[n].used /\ r[c].used /\ ~r[c].invalid /\ r[c].next = None
        /\ s[c] = u /\ s[n].next = None /\ s[n].prev = c
        /\ \A k \in ObsIds \ {c, n} : s[k] = r[k]
    BY <2>0, <2>1 DEF Spends, Active, NextSet
  <2>3. /\ u.trace = r[c].trace /\ u.prev = r[c].prev
        /\ u.invalid = r[c].invalid /\ u.next = n
    BY <1>6 DEF NextSet, ObsRow
  <2> HIDE DEF u, r, s, c
  <2>4. \A k \in ObsIds : R(k) => r[k].prev # c /\ r[k].prev # n
    BY <1>6, <1>7, <2>2
  <2>5. \A k \in ObsIds \ {n} : s[k].trace = r[k].trace /\ s[k].prev = r[k].prev
                                /\ s[k].invalid = r[k].invalid
    BY <2>2, <2>3
  <2>6. \A k \in ObsIds \ {n} : W(k) => R(k) /\ s[k].prev = r[k].prev
    BY <2>5
  <2>7. \A k, q \in ObsIds : W(k) /\ W(q) /\ s[k].prev = s[q].prev => k = q
    BY <1>7, <2>2, <2>4, <2>6
  <2>8. ASSUME NEW k \in ObsIds, W(k)
        PROVE  s[s[k].prev].next # None \/ s[s[k].prev].invalid
    <3>1. CASE k = n
      BY <1>6, <2>2, <2>3, <3>1
    <3>2. CASE k # n
      <4>1. R(k) /\ s[k].prev = r[k].prev /\ r[k].prev \in ObsIds \ {c, n}
        BY <1>6, <2>4, <2>6, <2>8, <3>2
      <4> QED
        BY <1>7, <2>2, <4>1
    <3> QED
      BY <3>1, <3>2
  <2> QED
    BY <2>7, <2>8 DEF SpentOnce, Stands, s, w
<1>10. CASE Confirming(r, s, now)
  <2>1. PICK p \in ObsIds \cup {None}, n \in ObsIds : Confirms(r, s, now, p, n)
    BY <1>10 DEF Confirming
  <2> DEFINE u == ReplacedBy(r[p], n)
  <2>2. /\ ~r[n].used /\ s[n].next = None /\ s[n].trace = None
        /\ p # None => p \in ObsIds /\ p # n /\ r[p].used /\ s[p] = u
        /\ \A k \in ObsIds \ {p, n} : s[k] = r[k]
    BY <2>1 DEF Confirms, ReplacedBy
  <2>3. p # None => u.trace = r[p].trace /\ u.prev = r[p].prev /\ u.invalid /\ u.next = n
    BY <1>6, <2>2 DEF ReplacedBy, ObsRow
  <2> HIDE DEF u, r, s
  <2>4. \A k \in ObsIds : R(k) => r[k].prev # n
    BY <1>6, <1>7, <2>2
  <2>5. \A k \in ObsIds : W(k) => k # n /\ k # p /\ s[k] = r[k] /\ R(k)
    BY <1>6, <2>2, <2>3
  <2>6. \A k, q \in ObsIds : W(k) /\ W(q) /\ s[k].prev = s[q].prev => k = q
    BY <1>7, <2>5
  <2>7. ASSUME NEW k \in ObsIds, W(k)
        PROVE  s[s[k].prev].next # None \/ s[s[k].prev].invalid
    <3>1. R(k) /\ s[k].prev = r[k].prev /\ r[k].prev \in ObsIds \ {n}
      BY <1>6, <2>4, <2>5, <2>7
    <3>2. CASE r[k].prev = p
      BY <1>6, <2>2, <2>3, <3>1, <3>2
    <3>3. CASE r[k].prev # p
      BY <1>7, <2>2, <3>1, <3>3
    <3> QED
      BY <3>2, <3>3
  <2> QED
    BY <2>6, <2>7 DEF SpentOnce, Stands, s, w
<1>11. CASE Restoring(r, s)
  <2>1. PICK n \in ObsIds : r[n].trace # None /\ Restores(r, s, n)
    BY <1>11 DEF Restoring
  <2> DEFINE u == Voided(r[n])  p == r[n].prev  v == NextSet(r[p], None)
  <2>2. /\ R(n) /\ s[n] = u /\ r[n].next = None
        /\ \A k \in ObsIds \ {n} : s[k] = IF k = p THEN NextSet(r[k], None) ELSE r[k]
    BY <2>1 DEF Restores, Voided, NextSet
  <2>3. /\ u.invalid /\ u.prev = r[n].prev /\ p \in ObsIds
        /\ v.trace = r[p].trace /\ v.prev = r[p].prev /\ v.invalid = r[p].invalid
    BY <1>6, <2>2 DEF Voided, NextSet, ObsRow
  <2>4. \A k \in ObsIds \ {n} : s[k] = IF k = p THEN v ELSE r[k]
    BY <2>2
  <2> HIDE DEF u, v, r, s, p
  <2>5. \A k \in ObsIds : W(k) => k # n /\ R(k) /\ s[k].prev = r[k].prev
    BY <2>2, <2>3, <2>4
  <2>6. \A k, q \in ObsIds : W(k) /\ W(q) /\ s[k].prev = s[q].prev => k = q
    BY <1>7, <2>5
  <2>7. ASSUME NEW k \in ObsIds, W(k)
        PROVE  s[s[k].prev].next # None \/ s[s[k].prev].invalid
    <3>1. R(k) /\ s[k].prev = r[k].prev /\ r[k].prev \in ObsIds /\ k # n /\ r[k].prev # p
      BY <1>6, <1>7, <2>2, <2>5, <2>7 DEF p
    <3>2. CASE r[k].prev = n
      BY <2>2, <2>3, <3>1, <3>2
    <3>3. CASE r[k].prev # n
      BY <1>7, <2>4, <3>1, <3>3
    <3> QED
      BY <3>2, <3>3
  <2> QED
    BY <2>6, <2>7 DEF SpentOnce, Stands, s, w
<1> QED
  BY <1>3, <1>5, <1>8, <1>9, <1>10, <1>11 DEF w

-----------------------------------------------------------------------------
(* Each operation, by the kind of its request.                              *)
LEMMA CreationsMean ==
  ASSUME NEW rq \in Creations, NEW d, NEW now
  PROVE  /\ rq.op = "create" /\ Result(rq, d, now) = Created(rq, d, now)
         /\ Completes(rq, d, now) => CanCreate(rq, now)
<1>1. rq.op = "create"
  BY DEF Creations
<1> QED
  BY <1>1 DEF Passes, Completes, Result

LEMMA FundingsMean ==
  ASSUME NEW rq \in Fundings, NEW d, NEW now
  PROVE  /\ rq.op = "fund" /\ Result(rq, d, now) = FundedExpense(rq, d, now)
         /\ Completes(rq, d, now) => CanFundExpense(rq, now)
<1>1. rq.op = "fund"
  BY DEF Fundings
<1> QED
  BY <1>1 DEF Passes, Completes, Result

LEMMA TransfersMean ==
  ASSUME NEW rq \in Transfers, NEW d, NEW now
  PROVE  /\ rq.op = "transfer" /\ Result(rq, d, now) = Transferred(rq, d, now)
         /\ Completes(rq, d, now) => CanTransfer(rq, now)
<1>1. rq.op = "transfer"
  BY DEF Transfers
<1> QED
  BY <1>1 DEF Passes, Completes, Result

LEMMA UpdatesMean ==
  ASSUME NEW rq \in Updates, NEW d, NEW now
  PROVE  /\ rq.op = "update" /\ Result(rq, d, now) = Updated(rq, d)
         /\ Passes(rq, d) => CanUpdate(rq, d)
<1>1. rq.op = "update"
  BY DEF Updates
<1> QED
  BY <1>1 DEF Passes, Completes, Result

LEMMA DeletionsMean ==
  ASSUME NEW rq \in Deletions, NEW d, NEW now
  PROVE  /\ rq.op = "delete" /\ Result(rq, d, now) = Deleted(rq, d)
         /\ Passes(rq, d) => CanDelete(rq, d)
<1>1. rq.op = "delete"
  BY DEF Deletions
<1> QED
  BY <1>1 DEF Passes, Completes, Result

LEMMA PaymentsMean ==
  ASSUME NEW rq \in Payments, NEW d, NEW now
  PROVE  /\ rq.op = "pay" /\ Result(rq, d, now) = Paid(rq, d, now)
         /\ Passes(rq, d) => CanPay(rq, d)
         /\ Completes(rq, d, now) => CanSettle(rq, d, now)
<1>1. rq.op = "pay"
  BY DEF Payments
<1> QED
  BY <1>1 DEF Passes, Completes, Result

LEMMA ReversalsMean ==
  ASSUME NEW rq \in Reversals, NEW d, NEW now
  PROVE  /\ rq.op = "unpay" /\ Result(rq, d, now) = Unpayed(rq, d)
         /\ Passes(rq, d) => CanUnpay(rq, d)
<1>1. rq.op = "unpay"
  BY DEF Reversals
<1> QED
  BY <1>1 DEF Passes, Completes, Result

LEMMA CancellationsMean ==
  ASSUME NEW rq \in Cancellations, NEW d, NEW now
  PROVE  /\ rq.op = "cancel" /\ Result(rq, d, now) = Cancelled(rq, d)
         /\ Passes(rq, d) => CanCancel(rq, d)
<1>1. rq.op = "cancel"
  BY DEF Cancellations
<1> QED
  BY <1>1 DEF Passes, Completes, Result

LEMMA ConfirmationsMean ==
  ASSUME NEW rq \in Confirmations, NEW d, NEW now
  PROVE  /\ rq.op = "confirm" /\ Result(rq, d, now) = Confirmed(rq, d, now)
         /\ Completes(rq, d, now) => CanConfirm(rq, d, now)
<1>1. rq.op = "confirm"
  BY DEF Confirmations
<1> QED
  BY <1>1 DEF Passes, Completes, Result

LEMMA SameKinds ==
  ASSUME NEW read, NEW now, NEW e \in Tables, e.tx = read.tx
  PROVE  KindMoves(read, e, now)
  BY DEF KindMoves
LEMMA SameObligations == ASSUME NEW read, NEW e, e.ob = read.ob PROVE ObMoves(read, e)
  BY DEF ObMoves

(* Rows a request on the rows read can take away are rows of those tables.  *)
LEMMA RemovalMoves ==
  ASSUME NEW read, NEW now, NEW e, NEW S, Removes(read.tx, e.tx, S),
         \A x \in S \cap TxIds : read.tx[x].kind # "unused"
  PROVE  KindMoves(read, e, now)
<1>1. Gone.kind # "unused"
  BY DEF Gone, NoTx
<1> QED
  BY <1>1 DEF Removes, KindMoves

LEMMA CreationMoves ==
  ASSUME NEW read, LedgerSound(read), NEW now, LedgerSound(now), Since(read, now),
         NEW rq \in Creations, Completes(rq, read, now)
  PROVE  Moves(rq, read, Result(rq, read, now), now)
<1> DEFINE e == Result(rq, read, now)
<1>1. read \in Tables
  BY DEF LedgerSound
<1>2. e = Created(rq, read, now) /\ CanCreate(rq, now)
  BY CreationsMean
<1> HIDE DEF e
<1>3. e \in Tables /\ e.ob = read.ob /\ e.obs = read.obs /\ Adds(read.tx, e.tx, now, NextTx(now))
  BY <1>1, <1>2, CreatedShape
<1>4. KindMoves(read, e, now)
  BY <1>3 DEF KindMoves, Adds
<1>5. ObMoves(read, e)
  BY <1>3, SameObligations
<1> QED
  BY <1>3, <1>4, <1>5 DEF Moves, ObsMoves, e

LEMMA FundingMoves ==
  ASSUME NEW read, LedgerSound(read), NEW now, LedgerSound(now), Since(read, now),
         NEW rq \in Fundings, Completes(rq, read, now)
  PROVE  Moves(rq, read, Result(rq, read, now), now)
<1> DEFINE e == Result(rq, read, now)
<1>1. read \in Tables /\ rq.amount \in Nat
  BY NatBounds DEF LedgerSound, Fundings
<1>2. e = FundedExpense(rq, read, now) /\ CanFundExpense(rq, now)
  BY FundingsMean
<1> HIDE DEF e
<1>3. /\ e \in Tables /\ e.ob = read.ob /\ FirstTx(now) \in TxIds
      /\ Adds(read.tx, e.tx, now, NextTwo(now))
      /\ Spends(read.obs, e.obs, now, now, Latest(now), FreshObs(now), rq.amount, FirstTx(now))
  BY <1>1, <1>2, FundedShape
<1>4. KindMoves(read, e, now)
  BY <1>3 DEF KindMoves, Adds
<1>5. ObMoves(read, e)
  BY <1>3, SameObligations
<1>6. Spending(read.obs, e.obs, BalanceFrom(rq, read, now), now)
  <2>1. FreshObs(now) \in ObsIds /\ BalanceFrom(rq, read, now) = now
    BY <1>3, FundingsMean DEF Spends, BalanceFrom
  <2> QED
    BY <1>1, <1>3, <2>1 DEF Spending
<1> QED
  BY <1>3, <1>4, <1>5, <1>6 DEF Moves, ObsMoves, e

LEMMA TransferMoves ==
  ASSUME NEW read, LedgerSound(read), NEW now, LedgerSound(now), Since(read, now),
         NEW rq \in Transfers, Completes(rq, read, now)
  PROVE  Moves(rq, read, Result(rq, read, now), now)
<1> DEFINE e == Result(rq, read, now)
<1>1. read \in Tables
  BY DEF LedgerSound
<1>2. e = Transferred(rq, read, now) /\ CanTransfer(rq, now)
  BY TransfersMean
<1> HIDE DEF e
<1>3. e \in Tables /\ e.ob = read.ob /\ e.obs = read.obs /\ Adds(read.tx, e.tx, now, NextTwo(now))
  BY <1>1, <1>2, TransferredShape
<1>4. KindMoves(read, e, now)
  BY <1>3 DEF KindMoves, Adds
<1>5. ObMoves(read, e)
  BY <1>3, SameObligations
<1> QED
  BY <1>3, <1>4, <1>5 DEF Moves, ObsMoves, e

LEMMA UpdateMoves ==
  ASSUME NEW read, LedgerSound(read), NEW now, NEW rq \in Updates, Passes(rq, read)
  PROVE  Moves(rq, read, Result(rq, read, now), now)
<1> DEFINE e == Result(rq, read, now)
<1>1. read \in Tables
  BY DEF LedgerSound
<1>2. e = Updated(rq, read) /\ CanUpdate(rq, read)
  BY UpdatesMean
<1> HIDE DEF e
<1>3. /\ e \in Tables /\ e.ob = read.ob /\ e.obs = read.obs /\ rq.x \in RowIds(read)
      /\ e.tx[rq.x] = [read.tx[rq.x] EXCEPT !.counts = rq.counts]
      /\ \A y \in TxIds \ {rq.x} : e.tx[y] = read.tx[y]
  BY <1>1, <1>2, UpdatedShape
<1>4. \A x \in TxIds : e.tx[x].kind = read.tx[x].kind
  <2>1. e.tx[rq.x].kind = read.tx[rq.x].kind
    BY <1>1, <1>3, TablesOf DEF TxRow, RowIds
  <2> QED
    BY <1>3, <2>1
<1>5. KindMoves(read, e, now)
  BY <1>4 DEF KindMoves
<1>6. ObMoves(read, e)
  BY <1>3, SameObligations
<1> QED
  BY <1>3, <1>5, <1>6 DEF Moves, ObsMoves, e

LEMMA DeletionMoves ==
  ASSUME NEW read, LedgerSound(read), NEW now, NEW rq \in Deletions, Passes(rq, read)
  PROVE  Moves(rq, read, Result(rq, read, now), now)
<1> DEFINE e == Result(rq, read, now)  S == GroupOf(read, rq.x)  t == TraceOf(read, rq.x)
           back == Standing(read, t)
<1>1. read \in Tables
  BY DEF LedgerSound
<1>2. e = Deleted(rq, read) /\ CanDelete(rq, read) /\ rq.op = "delete"
  BY DeletionsMean
<1>3. rq.x \in RowIds(read) /\ rq.x \in TxIds /\ t \in TxIds
  <2>1. rq.x \in RowIds(read) /\ rq.x \in TxIds
    BY <1>2 DEF CanDelete, RowIds
  <2>2. read.tx[rq.x].group \in TxIds \cup {None}
    BY <1>1, <2>1, TablesOf DEF TxRow
  <2> QED
    BY <2>1, <2>2 DEF TraceOf
<1>4. \A x \in S : read.tx[x].kind # "unused"
  BY <1>3 DEF GroupOf, RowIds
<1> HIDE DEF e, S, t
<1>5. /\ e \in Tables /\ e.ob = read.ob /\ Removes(read.tx, e.tx, S)
      /\ back = {} => e.obs = read.obs
      /\ back # {} => \E n \in back : Restores(read.obs, e.obs, n)
  BY <1>1, <1>2, DeletedShape DEF S, t
<1>6. KindMoves(read, e, now)
  BY <1>4, <1>5, RemovalMoves
<1>7. ObMoves(read, e)
  BY <1>5, SameObligations
<1>8. ObsMoves(rq, read, e, now)
  <2>1. \A n \in back : n \in ObsIds /\ read.obs[n].trace # None
    BY <1>3, IdsAreNat DEF Standing
  <2> HIDE DEF back
  <2> QED
    BY <1>2, <1>5, <2>1 DEF ObsMoves, Restoring
<1> QED
  BY <1>5, <1>6, <1>7, <1>8 DEF Moves, e

LEMMA PaymentMoves ==
  ASSUME NEW read, LedgerSound(read), NEW now, LedgerSound(now), Since(read, now),
         NEW rq \in Payments, Passes(rq, read), Completes(rq, read, now)
  PROVE  Moves(rq, read, Result(rq, read, now), now)
<1> DEFINE e == Result(rq, read, now)  o == rq.o
           x == PaidWith(rq, now)  f == FundedWith(rq, now)  due == AmountDue[o]
           s == Seen(rq, read, now)
<1>1. read \in Tables /\ now \in Tables
  BY DEF LedgerSound
<1>2. e = Paid(rq, read, now) /\ CanPay(rq, read) /\ CanSettle(rq, read, now)
  BY PaymentsMean
<1>3. rq.x # None => /\ rq.x \in TxIds /\ read.tx[rq.x].kind # "unused"
                     /\ now.tx[rq.x].kind # "unused"
  BY <1>2 DEF CanPay, RowIds, Since
<1> HIDE DEF e, x, f, due, o, s
<1>4. /\ e \in Tables /\ Adds(read.tx, e.tx, now, NewlyBooked(rq, now))
      /\ o \in Obligations /\ e.ob[o] = PaidRow(rq, now)
      /\ \A p \in Obligations \ {o} : e.ob[p] = read.ob[p]
      /\ x \in TxIds
      /\ rq.x = None => /\ now.tx[x].kind = "unused" /\ e.tx[x].kind = "expense"
                        /\ e.tx[x].amount = due /\ e.tx[x].group = None
                        /\ e.tx[x].counts
      /\ IF rq.fund
         THEN /\ f \in TxIds /\ f # x /\ now.tx[f].kind = "unused"
              /\ e.tx[f].kind = "transfer" /\ e.tx[f].group = None
              /\ e.tx[f].amount = due
              /\ Spends(read.obs, e.obs, s, now, Latest(s), FreshObs(now), due, f)
         ELSE e.obs = read.obs
  BY <1>2, <1>3, PaidShape DEF x, f, due, o, s
<1>5. KindMoves(read, e, now)
  BY <1>4 DEF KindMoves, Adds
<1>6. e.tx[x].kind # "unused"
  <2>1. CASE rq.x = None
    BY <1>4, <2>1
  <2>2. CASE rq.x # None
    <3>1. x = rq.x /\ x \notin NewlyBooked(rq, now)
      <4>1. x = rq.x
        BY <2>2 DEF x, PaidWith
      <4>2. now.tx[x].kind # "unused"
        BY <1>3, <2>2, <4>1
      <4> QED
        BY <1>4, <4>1, <4>2 DEF Adds
    <3>2. e.tx[x] = read.tx[x]
      BY <1>4, <3>1 DEF Adds
    <3> QED
      BY <1>3, <2>2, <3>1, <3>2
  <2> QED
    BY <2>1, <2>2
<1>7. rq.fund => /\ FreshObs(now) \in ObsIds /\ due \in Nat
                 /\ e.obs[FreshObs(now)].trace # None
  BY <1>4, IdsAreNat DEF Spends
<1>8. /\ e.ob[o].paidTx = x
      /\ e.ob[o].fundTx = IF rq.fund THEN f ELSE None
      /\ e.ob[o].fundObs = IF rq.fund THEN FreshObs(now) ELSE None
  BY <1>4 DEF PaidRow, x, f
<1>9. ObMoves(read, e)
  <2> SUFFICES ASSUME NEW p \in Obligations
               PROVE  /\ e.ob[p].paidTx \in {read.ob[p].paidTx, None} \/ e.tx[e.ob[p].paidTx].kind # "unused"
                      /\ e.ob[p].fundTx \in {read.ob[p].fundTx, None} \/ e.tx[e.ob[p].fundTx].kind # "unused"
                      /\ e.ob[p].fundObs \in {read.ob[p].fundObs, None} \/ e.obs[e.ob[p].fundObs].trace # None
    BY DEF ObMoves
  <2>1. CASE p = o
    BY <1>4, <1>6, <1>7, <1>8, <2>1
  <2>2. CASE p # o
    BY <1>4, <2>2
  <2> QED
    BY <2>1, <2>2
<1>10. ObsMoves(rq, read, e, now)
  <2>1. rq.fund => BalanceFrom(rq, read, now) = s
    BY PaymentsMean DEF BalanceFrom, s
  <2> QED
    BY <1>4, <1>7, <2>1 DEF ObsMoves, Spending
<1> QED
  BY <1>4, <1>5, <1>9, <1>10 DEF Moves, e

LEMMA ReversalMoves ==
  ASSUME NEW read, LedgerSound(read), NEW now, NEW rq \in Reversals, Passes(rq, read)
  PROVE  Moves(rq, read, Result(rq, read, now), now)
<1> DEFINE e == Result(rq, read, now)  o == rq.o  ob == read.ob[o]
           S == (IF ob.created THEN {ob.paidTx} ELSE {}) \cup (IF ob.privilege THEN {ob.fundTx} ELSE {})
<1>1. read \in Tables
  BY DEF LedgerSound
<1>2. e = Unpayed(rq, read) /\ CanUnpay(rq, read) /\ rq.op = "unpay" /\ o \in Obligations
  BY ReversalsMean DEF Reversals
<1> HIDE DEF e
<1>3. /\ e \in Tables /\ Removes(read.tx, e.tx, S)
      /\ e.ob[o] = Unpaid /\ \A p \in Obligations \ {o} : e.ob[p] = read.ob[p]
      /\ IF ob.privilege /\ ob.fundObs # None THEN Restores(read.obs, e.obs, ob.fundObs)
         ELSE e.obs = read.obs
  BY <1>1, <1>2, UnpayedShape
<1>4. \A x \in S \cap TxIds : read.tx[x].kind # "unused"
  BY <1>2, IdsAreNat DEF LedgerSound
<1> HIDE DEF S, o
<1>5. KindMoves(read, e, now)
  BY <1>3, <1>4, RemovalMoves
<1>6. e.ob[o].paidTx = None /\ e.ob[o].fundTx = None /\ e.ob[o].fundObs = None
  BY <1>3 DEF Unpaid
<1>7. ObMoves(read, e)
  BY <1>3, <1>6 DEF ObMoves
<1>8. ob.fundObs # None => ob.fundObs \in ObsIds /\ read.obs[ob.fundObs].trace # None
  BY <1>1, <1>2, TablesOf DEF LedgerSound, ObRow
<1>9. ObsMoves(rq, read, e, now)
  <2> HIDE DEF ob
  <2> QED
    BY <1>2, <1>3, <1>8 DEF ObsMoves, Restoring
<1> QED
  BY <1>3, <1>5, <1>7, <1>9 DEF Moves, e

LEMMA CancellationMoves ==
  ASSUME NEW read, LedgerSound(read), NEW now, NEW rq \in Cancellations
  PROVE  Moves(rq, read, Result(rq, read, now), now)
<1> DEFINE e == Result(rq, read, now)  o == rq.o
<1>1. read \in Tables
  BY DEF LedgerSound
<1>2. e = Cancelled(rq, read)
  BY CancellationsMean
<1> HIDE DEF e
<1>3. /\ e \in Tables /\ e.tx = read.tx /\ e.obs = read.obs /\ o \in Obligations
      /\ e.ob[o] = [read.ob[o] EXCEPT !.status = "cancelled"]
      /\ \A p \in Obligations \ {o} : e.ob[p] = read.ob[p]
  BY <1>1, <1>2, CancelledShape
<1>4. KindMoves(read, e, now)
  BY <1>3, SameKinds
<1>5. /\ e.ob[o].paidTx = read.ob[o].paidTx /\ e.ob[o].fundTx = read.ob[o].fundTx
      /\ e.ob[o].fundObs = read.ob[o].fundObs
  BY <1>1, <1>3, TablesOf DEF ObRow
<1>6. ObMoves(read, e)
  BY <1>3, <1>5 DEF ObMoves
<1> QED
  BY <1>3, <1>4, <1>6 DEF Moves, ObsMoves, e

LEMMA ConfirmationMoves ==
  ASSUME NEW read, LedgerSound(read), NEW now, LedgerSound(now), Since(read, now),
         NEW rq \in Confirmations, Completes(rq, read, now)
  PROVE  Moves(rq, read, Result(rq, read, now), now)
<1> DEFINE e == Result(rq, read, now)
<1>1. read \in Tables /\ rq.prev \in ObsIds \cup {None}
  BY DEF LedgerSound, Confirmations
<1>2. e = Confirmed(rq, read, now) /\ CanConfirm(rq, read, now)
  BY ConfirmationsMean
<1> HIDE DEF e
<1>3. /\ e \in Tables /\ e.tx = read.tx /\ e.ob = read.ob
      /\ Confirms(read.obs, e.obs, now, rq.prev, FreshObs(now))
  BY <1>1, <1>2, ConfirmedEffect
<1>4. KindMoves(read, e, now)
  BY <1>3, SameKinds
<1>5. ObMoves(read, e)
  BY <1>3, SameObligations
<1>6. Confirming(read.obs, e.obs, now)
  BY <1>1, <1>3 DEF Confirming, Confirms
<1> QED
  BY <1>3, <1>4, <1>5, <1>6 DEF Moves, ObsMoves, e

LEMMA RequestMoves ==
  ASSUME NEW read, LedgerSound(read), NEW now, LedgerSound(now), Since(read, now),
         NEW rq \in Requests, Passes(rq, read), Completes(rq, read, now)
  PROVE  Moves(rq, read, Result(rq, read, now), now)
<1>1. \/ rq \in Creations \/ rq \in Fundings \/ rq \in Transfers \/ rq \in Updates
      \/ rq \in Deletions \/ rq \in Payments \/ rq \in Reversals \/ rq \in Cancellations
      \/ rq \in Confirmations
  BY DEF Requests
<1> QED
  BY <1>1, CreationMoves, FundingMoves, TransferMoves, UpdateMoves, DeletionMoves, PaymentMoves,
     ReversalMoves, CancellationMoves, ConfirmationMoves

-----------------------------------------------------------------------------
(* When no request overlapped another, every commit starts from the tables  *)
(* it read.  The rows that stand for the redemption of transaction or group *)
(* t, and what holds of undisturbed tables.                                 *)
RedemptionOf(d, t) ==
    {f \in RowIds(d) : d.tx[f].kind = "transfer" /\ (f = t \/ d.tx[f].group = t)}
Groups(d) ==
    \A x \in TxIds : d.tx[x].group # None =>
        /\ x \in RowIds(d) /\ d.tx[x].group \in RowIds(d)
        /\ d.tx[d.tx[x].group].group = d.tx[x].group
Traces(d) ==
    /\ \A n \in ObsIds : d.obs[n].trace # None =>
         /\ d.tx[d.obs[n].trace].kind # "unused"
         /\ d.tx[d.obs[n].trace].group \in {None, d.obs[n].trace}
    /\ \A m, n \in ObsIds : d.obs[m].trace # None /\ d.obs[m].trace = d.obs[n].trace => m = n
ExplainedAt(d, n) ==
    d.obs[n].trace # None =>
        /\ ~d.obs[n].invalid =>
             /\ \E f \in RedemptionOf(d, d.obs[n].trace) :
                    d.tx[f].amount + d.obs[n].amount = d.obs[d.obs[n].prev].amount
             /\ d.obs[d.obs[n].prev].next = n
             /\ ~d.obs[d.obs[n].prev].invalid
        /\ d.obs[n].invalid /\ d.obs[n].next = None =>
             RedemptionOf(d, d.obs[n].trace) = {} /\ d.obs[d.obs[n].prev].next # n
Explained(d) == \A n \in ObsIds : ExplainedAt(d, n)
FundedAt(d, o) ==
    /\ d.ob[o].fundTx # None =>
         /\ d.tx[d.ob[o].fundTx].kind = "transfer" /\ d.tx[d.ob[o].fundTx].group = None
         /\ d.ob[o].fundObs # None /\ d.obs[d.ob[o].fundObs].trace = d.ob[o].fundTx
    /\ d.ob[o].privilege => d.ob[o].fundObs # None
    /\ d.ob[o].fundObs # None /\ ~d.obs[d.ob[o].fundObs].invalid => d.ob[o].fundTx # None
    /\ d.ob[o].created /\ d.ob[o].paidTx # None =>
         d.tx[d.ob[o].paidTx].kind = "expense" /\ d.tx[d.ob[o].paidTx].group = None
Funded(d) == \A o \in Obligations : FundedAt(d, o)
PaidOnce(d) ==
    \A o, p \in Obligations : d.ob[o].paidTx = d.ob[p].paidTx /\ d.ob[o].paidTx # None => o = p
Undisturbed(d) == Groups(d) /\ Traces(d) /\ Explained(d) /\ Funded(d) /\ PaidOnce(d)
Settles(d) ==
    \A o \in Obligations : d.ob[o].status = "paid" =>
        d.ob[o].paidTx # None /\ Eligible(d, d.ob[o].paidTx, o)

(* Of the rows there were, each is gone or as it was; new rows are grouped  *)
(* with new rows.                                                           *)
KeptRow(d, w, x) ==
    /\ w.tx[x].kind = d.tx[x].kind /\ w.tx[x].group = d.tx[x].group
    /\ w.tx[x].amount = d.tx[x].amount
Carried(d, w) ==
    /\ \A x \in TxIds : d.tx[x].kind # "unused" => w.tx[x] = Gone \/ KeptRow(d, w, x)
    /\ \A x \in TxIds : d.tx[x].kind = "unused" /\ w.tx[x].group # None =>
         d.tx[w.tx[x].group].kind = "unused"
(* A redemption that stands has kept its rows.                              *)
StandingKept(d, w) ==
    \A n \in ObsIds : d.obs[n].trace # None /\ ~w.obs[n].invalid =>
        \A f \in RedemptionOf(d, d.obs[n].trace) : w.tx[f] # Gone
(* An obligation nobody acted on, but for references to rows that are gone. *)
Left(w, x) == IF x # None /\ w.tx[x].kind = "gone" THEN None ELSE x
CarriedOb(d, w, o) ==
    /\ w.ob[o].created = d.ob[o].created /\ w.ob[o].privilege = d.ob[o].privilege
    /\ w.ob[o].fundObs = d.ob[o].fundObs
    /\ w.ob[o].paidTx = Left(w, d.ob[o].paidTx) /\ w.ob[o].fundTx = Left(w, d.ob[o].fundTx)

LEMMA GoneIsGone == Gone.kind = "gone" /\ Gone.group = None
  BY DEF Gone, NoTx

LEMMA RedemptionsCarried ==
  ASSUME NEW d \in Tables, NEW w \in Tables, Carried(d, w), NEW t \in TxIds,
         d.tx[t].kind # "unused"
  PROVE  /\ RedemptionOf(w, t) \subseteq RedemptionOf(d, t)
         /\ \A f \in RedemptionOf(d, t) : w.tx[f] # Gone =>
              f \in RedemptionOf(w, t) /\ w.tx[f].amount = d.tx[f].amount
<1>1. ASSUME NEW f \in RedemptionOf(w, t) PROVE f \in RedemptionOf(d, t)
  <2>1. /\ f \in TxIds /\ w.tx[f].kind = "transfer" /\ (f = t \/ w.tx[f].group = t)
        /\ w.tx[f] # Gone
    BY GoneIsGone DEF RedemptionOf, RowIds
  <2>2. t # None
    BY IdsAreNat
  <2>3. d.tx[f].kind # "unused"
    BY <2>1, <2>2 DEF Carried
  <2>4. KeptRow(d, w, f)
    BY <2>1, <2>3 DEF Carried
  <2> QED
    BY <2>1, <2>4 DEF KeptRow, RedemptionOf, RowIds
<1>2. ASSUME NEW f \in RedemptionOf(d, t), w.tx[f] # Gone
      PROVE  f \in RedemptionOf(w, t) /\ w.tx[f].amount = d.tx[f].amount
  <2>1. f \in TxIds /\ d.tx[f].kind = "transfer" /\ (f = t \/ d.tx[f].group = t)
    BY DEF RedemptionOf, RowIds
  <2>2. KeptRow(d, w, f)
    BY <1>2, <2>1 DEF Carried
  <2> QED
    BY <2>1, <2>2 DEF KeptRow, RedemptionOf, RowIds
<1> QED
  BY <1>1, <1>2

(* Rows added, rows removed with what is grouped with them, or none.        *)
LEMMA Growth ==
  ASSUME NEW d, LedgerSound(d), Groups(d), NEW e \in Tables, NEW C \in SUBSET TxIds,
         Adds(d.tx, e.tx, d, C),
         \A x \in C : e.tx[x].group # None =>
             e.tx[x].group \in C /\ e.tx[e.tx[x].group].group = e.tx[x].group
  PROVE  LET w == Settled(e) IN
         /\ Carried(d, w) /\ Groups(w) /\ StandingKept(d, w)
         /\ \A x \in C : /\ w.tx[x].kind = e.tx[x].kind /\ w.tx[x].amount = e.tx[x].amount
                         /\ w.tx[x].group = e.tx[x].group /\ w.tx[x].counts = e.tx[x].counts
         /\ \A x \in TxIds \ C : d.tx[x].kind \in {"expense", "transfer"} =>
              KeptRow(d, w, x) /\ w.tx[x].counts = d.tx[x].counts
<1> DEFINE w == Settled(e)
<1>1. /\ w \in Tables
      /\ \A x \in TxIds :
           /\ w.tx[x].kind = e.tx[x].kind
           /\ e.tx[x].kind = "gone" => w.tx[x] = Gone
           /\ e.tx[x].kind # "gone" =>
                /\ w.tx[x].amount = e.tx[x].amount /\ w.tx[x].counts = e.tx[x].counts
                /\ w.tx[x].group = e.tx[x].group
  BY SettledIs
<1>2. /\ \A x \in C : d.tx[x].kind = "unused" /\ e.tx[x].kind \in {"expense", "transfer"}
      /\ \A x \in TxIds \ C : e.tx[x] = d.tx[x]
  BY DEF Adds
<1> HIDE DEF w
<1>3. \A x \in C : /\ w.tx[x].kind = e.tx[x].kind /\ w.tx[x].amount = e.tx[x].amount
                   /\ w.tx[x].group = e.tx[x].group /\ w.tx[x].counts = e.tx[x].counts
  BY <1>1, <1>2
<1>4. \A x \in TxIds \ C : d.tx[x].kind \in {"expense", "transfer"} =>
        KeptRow(d, w, x) /\ w.tx[x].counts = d.tx[x].counts
  BY <1>1, <1>2 DEF KeptRow
<1>5. Carried(d, w)
  <2>1. \A x \in TxIds : d.tx[x].kind # "unused" => w.tx[x] = Gone \/ KeptRow(d, w, x)
    BY <1>1, <1>2 DEF KeptRow
  <2>2. \A x \in TxIds : d.tx[x].kind = "unused" /\ w.tx[x].group # None =>
          d.tx[w.tx[x].group].kind = "unused"
    <3> SUFFICES ASSUME NEW x \in TxIds, d.tx[x].kind = "unused", w.tx[x].group # None
                 PROVE  d.tx[w.tx[x].group].kind = "unused"
      OBVIOUS
    <3>1. x \in C
      <4> SUFFICES ASSUME x \notin C PROVE FALSE
        OBVIOUS
      <4>1. e.tx[x] = d.tx[x] /\ w.tx[x].group = d.tx[x].group
        BY <1>1, <1>2
      <4> QED
        BY <4>1 DEF Groups, RowIds
    <3> QED
      BY <1>2, <1>3, <3>1
  <2> QED
    BY <2>1, <2>2 DEF Carried
<1>6. Groups(w)
  <2> SUFFICES ASSUME NEW x \in TxIds, w.tx[x].group # None
               PROVE  /\ x \in RowIds(w) /\ w.tx[x].group \in RowIds(w)
                      /\ w.tx[w.tx[x].group].group = w.tx[x].group
    BY DEF Groups
  <2>1. CASE x \in C
    BY <1>2, <1>3, <2>1 DEF RowIds
  <2>2. CASE x \notin C
    <3>1. w.tx[x].group = d.tx[x].group /\ d.tx[x].group # None
      BY <1>1, <1>2, <2>2, GoneIsGone
    <3>2. /\ d.tx[x].kind \in {"expense", "transfer"} /\ d.tx[x].group \in TxIds
          /\ d.tx[d.tx[x].group].kind \in {"expense", "transfer"}
          /\ d.tx[d.tx[x].group].group = d.tx[x].group
      BY <3>1 DEF Groups, RowIds
    <3>3. d.tx[x].group \notin C
      BY <1>2, <3>2
    <3>4. KeptRow(d, w, x) /\ KeptRow(d, w, d.tx[x].group)
      BY <1>4, <2>2, <3>2, <3>3
    <3> QED
      BY <3>1, <3>2, <3>4 DEF KeptRow, RowIds
  <2> QED
    BY <2>1, <2>2
<1>7. StandingKept(d, w)
  <2> SUFFICES ASSUME NEW t, NEW f \in RedemptionOf(d, t) PROVE w.tx[f] # Gone
    BY DEF StandingKept
  <2>1. f \in TxIds \ C /\ d.tx[f].kind = "transfer"
    BY <1>2 DEF RedemptionOf, RowIds
  <2>2. w.tx[f].kind = "transfer"
    BY <1>4, <2>1 DEF KeptRow
  <2> QED
    BY <2>2, GoneIsGone
<1> QED
  BY <1>3, <1>4, <1>5, <1>6, <1>7 DEF w

LEMMA Removal ==
  ASSUME NEW d, LedgerSound(d), Groups(d), NEW e \in Tables, NEW S,
         Removes(d.tx, e.tx, S), \A x \in S \cap TxIds : d.tx[x].kind # "unused",
         \A x \in TxIds \ S : d.tx[x].group \notin S \/ d.tx[x].group = None
  PROVE  LET w == Settled(e) IN
         /\ Carried(d, w) /\ Groups(w)
         /\ \A x \in S \cap TxIds : w.tx[x] = Gone
         /\ \A x \in TxIds \ S : d.tx[x].kind \in {"expense", "transfer"} =>
              KeptRow(d, w, x) /\ w.tx[x].counts = d.tx[x].counts
<1> DEFINE w == Settled(e)
<1>1. /\ w \in Tables
      /\ \A x \in TxIds :
           /\ w.tx[x].kind = e.tx[x].kind
           /\ e.tx[x].kind = "gone" => w.tx[x] = Gone
           /\ e.tx[x].kind # "gone" =>
                /\ w.tx[x].amount = e.tx[x].amount /\ w.tx[x].counts = e.tx[x].counts
                /\ w.tx[x].group = e.tx[x].group
  BY SettledIs
<1>2. \A x \in TxIds : e.tx[x] = IF x \in S THEN Gone ELSE d.tx[x]
  BY DEF Removes
<1> HIDE DEF w
<1>3. \A x \in S \cap TxIds : w.tx[x] = Gone
  BY <1>1, <1>2, GoneIsGone
<1>4. \A x \in TxIds \ S : d.tx[x].kind \in {"expense", "transfer"} =>
        KeptRow(d, w, x) /\ w.tx[x].counts = d.tx[x].counts
  BY <1>1, <1>2 DEF KeptRow
<1>5. Carried(d, w)
  <2>1. \A x \in TxIds : d.tx[x].kind # "unused" => w.tx[x] = Gone \/ KeptRow(d, w, x)
    BY <1>1, <1>2, GoneIsGone DEF KeptRow
  <2>2. \A x \in TxIds : d.tx[x].kind = "unused" => w.tx[x].group = None
    <3> SUFFICES ASSUME NEW x \in TxIds, d.tx[x].kind = "unused" PROVE w.tx[x].group = None
      OBVIOUS
    <3>1. x \notin S /\ d.tx[x].group = None
      BY DEF Groups, RowIds
    <3> QED
      BY <1>1, <1>2, <3>1
  <2> QED
    BY <2>1, <2>2 DEF Carried
<1>6. Groups(w)
  <2> SUFFICES ASSUME NEW x \in TxIds, w.tx[x].group # None
               PROVE  /\ x \in RowIds(w) /\ w.tx[x].group \in RowIds(w)
                      /\ w.tx[w.tx[x].group].group = w.tx[x].group
    BY DEF Groups
  <2>1. x \notin S
    BY <1>3, GoneIsGone
  <2>2. w.tx[x].group = d.tx[x].group /\ d.tx[x].group # None
    BY <1>1, <1>2, <2>1, GoneIsGone
  <2>3. /\ d.tx[x].kind \in {"expense", "transfer"} /\ d.tx[x].group \in TxIds
        /\ d.tx[d.tx[x].group].kind \in {"expense", "transfer"}
        /\ d.tx[d.tx[x].group].group = d.tx[x].group
    BY <2>2 DEF Groups, RowIds
  <2>4. KeptRow(d, w, x) /\ KeptRow(d, w, d.tx[x].group)
    BY <1>4, <2>1, <2>2, <2>3
  <2> QED
    BY <2>2, <2>3, <2>4 DEF KeptRow, RowIds
<1> QED
  BY <1>3, <1>4, <1>5, <1>6 DEF w

LEMMA NoRowMoves ==
  ASSUME NEW d, LedgerSound(d), Groups(d), NEW e \in Tables,
         \A x \in TxIds : e.tx[x].kind = d.tx[x].kind /\ e.tx[x].amount = d.tx[x].amount
                          /\ e.tx[x].group = d.tx[x].group
  PROVE  LET w == Settled(e) IN
         /\ Carried(d, w) /\ Groups(w) /\ StandingKept(d, w)
         /\ \A x \in TxIds : d.tx[x].kind \in {"expense", "transfer"} =>
              KeptRow(d, w, x) /\ w.tx[x].counts = e.tx[x].counts
<1> DEFINE w == Settled(e)
<1>1. /\ w \in Tables
      /\ \A x \in TxIds :
           /\ w.tx[x].kind = e.tx[x].kind
           /\ e.tx[x].kind = "gone" => w.tx[x] = Gone
           /\ e.tx[x].kind # "gone" =>
                /\ w.tx[x].amount = e.tx[x].amount /\ w.tx[x].counts = e.tx[x].counts
                /\ w.tx[x].group = e.tx[x].group
  BY SettledIs
<1> HIDE DEF w
<1>2. \A x \in TxIds : d.tx[x].kind # "gone" =>
        KeptRow(d, w, x) /\ w.tx[x].counts = e.tx[x].counts
  BY <1>1 DEF KeptRow
<1>3. \A x \in TxIds : d.tx[x].group # None => d.tx[x].kind \in {"expense", "transfer"}
  BY DEF Groups, RowIds
<1>4. Carried(d, w)
  <2>1. \A x \in TxIds : d.tx[x].kind # "unused" => w.tx[x] = Gone \/ KeptRow(d, w, x)
    BY <1>1, <1>2
  <2>2. \A x \in TxIds : d.tx[x].kind = "unused" => w.tx[x].group = None
    BY <1>2, <1>3 DEF KeptRow
  <2> QED
    BY <2>1, <2>2 DEF Carried
<1>5. Groups(w)
  <2> SUFFICES ASSUME NEW x \in TxIds, w.tx[x].group # None
               PROVE  /\ x \in RowIds(w) /\ w.tx[x].group \in RowIds(w)
                      /\ w.tx[w.tx[x].group].group = w.tx[x].group
    BY DEF Groups
  <2>1. w.tx[x].group = d.tx[x].group /\ d.tx[x].group # None
    BY <1>1, GoneIsGone
  <2>2. /\ d.tx[x].kind \in {"expense", "transfer"} /\ d.tx[x].group \in TxIds
        /\ d.tx[d.tx[x].group].kind \in {"expense", "transfer"}
        /\ d.tx[d.tx[x].group].group = d.tx[x].group
    BY <2>1 DEF Groups, RowIds
  <2>3. KeptRow(d, w, x) /\ KeptRow(d, w, d.tx[x].group)
    BY <1>2, <2>1, <2>2
  <2> QED
    BY <2>1, <2>2, <2>3 DEF KeptRow, RowIds
<1>6. StandingKept(d, w)
  <2> SUFFICES ASSUME NEW t, NEW f \in RedemptionOf(d, t) PROVE w.tx[f] # Gone
    BY DEF StandingKept
  <2>1. f \in TxIds /\ d.tx[f].kind = "transfer"
    BY DEF RedemptionOf, RowIds
  <2>2. w.tx[f].kind = "transfer"
    BY <1>2, <2>1 DEF KeptRow
  <2> QED
    BY <2>2, GoneIsGone
<1> QED
  BY <1>2, <1>4, <1>5, <1>6 DEF w

(* A new observation names a new transaction.                               *)
NewTraces(d, w) ==
    /\ \A n \in ObsIds : ~d.obs[n].used /\ w.obs[n].trace # None =>
         /\ d.tx[w.obs[n].trace].kind = "unused" /\ w.tx[w.obs[n].trace].kind # "unused"
         /\ w.tx[w.obs[n].trace].group \in {None, w.obs[n].trace}
    /\ \A m, n \in ObsIds :
         /\ ~d.obs[m].used /\ w.obs[m].trace # None /\ ~d.obs[n].used /\ w.obs[n].trace # None
         => m = n

LEMMA TracesCarried ==
  ASSUME NEW d, LedgerSound(d), Traces(d), NEW w, LedgerSound(w), Carried(d, w), Since(d, w),
         NewTraces(d, w)
  PROVE  Traces(w)
<1>1. /\ d.obs \in [ObsIds -> ObsRow] /\ w.obs \in [ObsIds -> ObsRow]
      /\ d.tx \in [TxIds -> TxRow] /\ w.tx \in [TxIds -> TxRow]
  BY TablesOf DEF LedgerSound
<1>2. \A n \in ObsIds : w.obs[n].trace \in TxIds \cup {None}
  BY <1>1 DEF ObsRow
<1>3. \A n \in ObsIds : d.obs[n].used =>
        w.obs[n].trace = d.obs[n].trace /\ (d.obs[n].trace # None => d.tx[d.obs[n].trace].kind # "unused")
  BY DEF Since, Traces
<1>4. ASSUME NEW n \in ObsIds, w.obs[n].trace # None
      PROVE  /\ w.tx[w.obs[n].trace].kind # "unused"
             /\ w.tx[w.obs[n].trace].group \in {None, w.obs[n].trace}
  <2>1. CASE d.obs[n].used
    <3>1. /\ w.obs[n].trace = d.obs[n].trace /\ d.obs[n].trace \in TxIds
          /\ d.tx[d.obs[n].trace].kind # "unused"
          /\ d.tx[d.obs[n].trace].group \in {None, d.obs[n].trace}
      BY <1>2, <1>3, <1>4, <2>1 DEF Traces
    <3>2. w.tx[d.obs[n].trace].group \in {None, d.obs[n].trace}
      BY <3>1, GoneIsGone DEF Carried, KeptRow
    <3> QED
      BY <3>1, <3>2 DEF Since
  <2>2. CASE ~d.obs[n].used
    BY <1>4, <2>2 DEF NewTraces
  <2> QED
    BY <2>1, <2>2
<1>5. ASSUME NEW m \in ObsIds, NEW n \in ObsIds, w.obs[m].trace # None,
             w.obs[m].trace = w.obs[n].trace
      PROVE  m = n
  <2>1. CASE d.obs[m].used /\ d.obs[n].used
    BY <1>3, <1>5, <2>1 DEF Traces
  <2>2. CASE ~d.obs[m].used /\ ~d.obs[n].used
    BY <1>5, <2>2 DEF NewTraces
  <2>3. CASE d.obs[m].used /\ ~d.obs[n].used
    BY <1>3, <1>5, <2>3 DEF NewTraces
  <2>4. CASE ~d.obs[m].used /\ d.obs[n].used
    BY <1>3, <1>5, <2>4 DEF NewTraces
  <2> QED
    BY <2>1, <2>2, <2>3, <2>4
<1> QED
  BY <1>4, <1>5 DEF Traces

(* What explains a balance still does.                                      *)
Explains(d, w, n) ==
    LET t == d.obs[n].trace IN
    /\ RedemptionOf(w, t) \subseteq RedemptionOf(d, t)
    /\ ~w.obs[n].invalid =>
         \A f \in RedemptionOf(d, t) : f \in RedemptionOf(w, t) /\ w.tx[f].amount = d.tx[f].amount

LEMMA ExplainsKept ==
  ASSUME NEW d \in Tables, Traces(d), NEW w \in Tables, Carried(d, w), StandingKept(d, w),
         NEW n \in ObsIds, d.obs[n].trace # None
  PROVE  Explains(d, w, n)
<1> DEFINE t == d.obs[n].trace
<1>1. t \in TxIds /\ d.tx[t].kind # "unused"
  BY TablesOf DEF ObsRow, Traces
<1>2. ~w.obs[n].invalid => \A f \in RedemptionOf(d, t) : w.tx[f] # Gone
  BY DEF StandingKept
<1> HIDE DEF t
<1>3. /\ RedemptionOf(w, t) \subseteq RedemptionOf(d, t)
      /\ \A f \in RedemptionOf(d, t) : w.tx[f] # Gone =>
           f \in RedemptionOf(w, t) /\ w.tx[f].amount = d.tx[f].amount
  BY <1>1, RedemptionsCarried
<1>4. ~w.obs[n].invalid =>
         \A f \in RedemptionOf(d, t) : f \in RedemptionOf(w, t) /\ w.tx[f].amount = d.tx[f].amount
  BY <1>2, <1>3
<1> QED
  BY <1>3, <1>4 DEF Explains, t

(* An observation whose columns, and the link of the one before it, stay;   *)
(* while it stands, it may be linked from or not.                           *)
LEMMA ExplainedStays ==
  ASSUME NEW d, NEW w, NEW n \in ObsIds, ExplainedAt(d, n),
         d.obs[n].trace # None => Explains(d, w, n),
         w.obs[n].trace = d.obs[n].trace, w.obs[n].prev = d.obs[n].prev,
         w.obs[n].amount = d.obs[n].amount,
         d.obs[n].invalid => w.obs[n].next = d.obs[n].next,
         w.obs[n].invalid = d.obs[n].invalid,
         LET p == d.obs[n].prev IN
           /\ d.obs[p].next = n => /\ w.obs[p].next = n /\ w.obs[p].invalid = d.obs[p].invalid
                                   /\ w.obs[p].amount = d.obs[p].amount
           /\ d.obs[p].next # n => w.obs[p].next # n
  PROVE  ExplainedAt(w, n)
<1> SUFFICES ASSUME d.obs[n].trace # None PROVE ExplainedAt(w, n)
  BY DEF ExplainedAt
<1> DEFINE t == d.obs[n].trace  p == d.obs[n].prev
<1>1. /\ d.obs[p].next = n => /\ w.obs[p].next = n /\ w.obs[p].invalid = d.obs[p].invalid
                              /\ w.obs[p].amount = d.obs[p].amount
      /\ d.obs[p].next # n => w.obs[p].next # n
  OBVIOUS
<1>2. /\ RedemptionOf(w, t) \subseteq RedemptionOf(d, t)
      /\ ~d.obs[n].invalid =>
         \A f \in RedemptionOf(d, t) : f \in RedemptionOf(w, t) /\ w.tx[f].amount = d.tx[f].amount
  BY DEF Explains
<1>3. /\ ~d.obs[n].invalid =>
           /\ \E f \in RedemptionOf(d, t) : d.tx[f].amount + d.obs[n].amount = d.obs[p].amount
           /\ d.obs[p].next = n /\ ~d.obs[p].invalid
      /\ d.obs[n].invalid /\ d.obs[n].next = None =>
           RedemptionOf(d, t) = {} /\ d.obs[p].next # n
  BY DEF ExplainedAt
<1>4. w.obs[n].trace = t /\ w.obs[n].prev = p
  OBVIOUS
<1> HIDE DEF t, p
<1>5. ~w.obs[n].invalid =>
         \E f \in RedemptionOf(w, t) : w.tx[f].amount + w.obs[n].amount = w.obs[p].amount
  <2> SUFFICES ASSUME ~w.obs[n].invalid
               PROVE  \E f \in RedemptionOf(w, t) : w.tx[f].amount + w.obs[n].amount = w.obs[p].amount
    OBVIOUS
  <2>1. PICK f \in RedemptionOf(d, t) : d.tx[f].amount + d.obs[n].amount = d.obs[p].amount
    BY <1>3
  <2>2. f \in RedemptionOf(w, t) /\ w.tx[f].amount = d.tx[f].amount
    BY <1>2, <2>1
  <2>3. w.tx[f].amount + w.obs[n].amount = w.obs[p].amount
    BY <1>1, <1>3, <2>1, <2>2
  <2> QED
    BY <2>2, <2>3
<1>6. ~w.obs[n].invalid => w.obs[p].next = n /\ ~w.obs[p].invalid
  BY <1>1, <1>3
<1>7. w.obs[n].invalid /\ w.obs[n].next = None => RedemptionOf(w, t) = {} /\ w.obs[p].next # n
  BY <1>1, <1>2, <1>3
<1> QED
  BY <1>4, <1>5, <1>6, <1>7 DEF ExplainedAt

LEMMA ExplainedKept ==
  ASSUME NEW d, LedgerSound(d), Traces(d), Explained(d), NEW w \in Tables, Carried(d, w),
         StandingKept(d, w), w.obs = d.obs
  PROVE  Explained(w)
<1> SUFFICES ASSUME NEW n \in ObsIds PROVE ExplainedAt(w, n)
  BY DEF Explained
<1>1. d.obs[n].trace # None => Explains(d, w, n)
  BY ExplainsKept DEF LedgerSound
<1> QED
  BY <1>1, ExplainedStays DEF Explained

LEMMA ExplainedSpends ==
  ASSUME NEW d, LedgerSound(d), Traces(d), Explained(d), NEW w \in Tables, Carried(d, w),
         StandingKept(d, w),
         NEW c \in ObsIds, NEW n \in ObsIds, NEW a \in Nat, NEW t \in TxIds,
         Spends(d.obs, w.obs, d, d, c, n, a, t),
         NEW f \in RedemptionOf(w, t), w.tx[f].amount = a
  PROVE  Explained(w)
<1> DEFINE r == d.obs  s == w.obs  u == NextSet(r[c], n)
<1>1. /\ r \in [ObsIds -> ObsRow] /\ None \notin ObsIds
      /\ \A k \in ObsIds : ~r[k].used => r[k].next = None /\ ~r[k].invalid /\ r[k].trace = None
      /\ \A k \in ObsIds : r[k].trace # None => r[k].prev # None
      /\ \A k \in ObsIds : r[k].prev \in ObsIds \cup {None}
  BY TablesOf, IdsAreNat DEF LedgerSound, NoObs, ObsRow
<1>2. /\ c # n /\ ~r[n].used /\ r[c].used /\ ~r[c].invalid /\ r[c].next = None
      /\ r[c].amount >= a /\ s[n].amount = r[c].amount - a
      /\ s[c] = u /\ s[n].next = None /\ s[n].prev = c /\ ~s[n].invalid /\ s[n].trace = t
      /\ \A k \in ObsIds \ {c, n} : s[k] = r[k]
  BY DEF Spends, Active, NextSet
<1>3. /\ u.trace = r[c].trace /\ u.prev = r[c].prev /\ u.amount = r[c].amount
      /\ u.invalid = r[c].invalid /\ u.next = n /\ r[c].amount \in Nat
  BY <1>1 DEF NextSet, ObsRow
<1> SUFFICES ASSUME NEW k \in ObsIds PROVE ExplainedAt(w, k)
  BY DEF Explained
<1>4. r[k].trace # None => Explains(d, w, k)
  BY ExplainsKept DEF LedgerSound
<1>5. ExplainedAt(d, k)
  BY DEF Explained
<1>6. CASE k = n
  <2>1. s[c].next = n /\ ~s[c].invalid /\ w.tx[f].amount + s[n].amount = s[c].amount
    <3> HIDE DEF r, s, u
    <3> QED
      BY <1>2, <1>3
  <2>2. f \in RedemptionOf(w, s[n].trace) /\ s[n].prev = c /\ ~s[n].invalid
    BY <1>2
  <2> QED
    BY <1>6, <2>1, <2>2 DEF ExplainedAt
<1>7. CASE k # n
  <2>1. /\ s[k].trace = r[k].trace /\ s[k].prev = r[k].prev /\ s[k].amount = r[k].amount
        /\ s[k].invalid = r[k].invalid
        /\ r[k].invalid => s[k].next = r[k].next
    <3> HIDE DEF r, s, u
    <3> QED
      BY <1>2, <1>3, <1>7
  <2>3. CASE r[k].trace = None
    BY <2>1, <2>3 DEF ExplainedAt
  <2>2. CASE r[k].trace # None
    <3> DEFINE p == r[k].prev
    <3>1. p \in ObsIds
      BY <1>1, <2>2
    <3>2. /\ r[p].next = k => /\ s[p].next = k /\ s[p].invalid = r[p].invalid
                              /\ s[p].amount = r[p].amount
          /\ r[p].next # k => s[p].next # k
      <4>1. CASE p = c
        <5> HIDE DEF r, s, u, p
        <5> QED
          BY <1>1, <1>2, <1>3, <1>7, <4>1
      <4>2. CASE p = n
        <5>1. r[p].next = None /\ s[p].next = None
          BY <1>1, <1>2, <4>2
        <5>2. k # None
          BY <1>1
        <5> HIDE DEF r, s, u, p
        <5> QED
          BY <5>1, <5>2
      <4>3. CASE p \notin {c, n}
        BY <1>2, <3>1, <4>3
      <4> QED
        BY <4>1, <4>2, <4>3
    <3> QED
      BY <1>4, <1>5, <2>1, <2>2, <3>2, ExplainedStays
  <2> QED
    BY <2>2, <2>3
<1> QED
  BY <1>6, <1>7

LEMMA ExplainedConfirms ==
  ASSUME NEW d, LedgerSound(d), Traces(d), Explained(d), NEW w \in Tables, Carried(d, w),
         StandingKept(d, w), NEW p \in ObsIds \cup {None}, NEW n \in ObsIds,
         Confirms(d.obs, w.obs, d, p, n), p # None => d.obs[p].next = None
  PROVE  Explained(w)
<1> DEFINE r == d.obs  s == w.obs  u == ReplacedBy(r[p], n)
<1>1. /\ r \in [ObsIds -> ObsRow] /\ None \notin ObsIds
      /\ \A k \in ObsIds : ~r[k].used => r[k].next = None /\ ~r[k].invalid /\ r[k].trace = None
      /\ \A k \in ObsIds : r[k].trace # None => r[k].prev # None
      /\ \A k \in ObsIds : r[k].prev \in ObsIds \cup {None}
  BY TablesOf, IdsAreNat DEF LedgerSound, NoObs, ObsRow
<1>2. /\ ~r[n].used /\ s[n].next = None /\ s[n].trace = None
      /\ p # None => p \in ObsIds /\ p # n /\ r[p].used /\ r[p].next = None /\ s[p] = u
      /\ \A k \in ObsIds \ {p, n} : s[k] = r[k]
  BY DEF Confirms, ReplacedBy
<1>3. p # None => u.invalid /\ u.next = n
  BY <1>1, <1>2 DEF ReplacedBy, ObsRow
<1> SUFFICES ASSUME NEW k \in ObsIds PROVE ExplainedAt(w, k)
  BY DEF Explained
<1>4. r[k].trace # None => Explains(d, w, k)
  BY ExplainsKept DEF LedgerSound
<1>5. ExplainedAt(d, k)
  BY DEF Explained
<1>6. CASE k = n
  BY <1>2, <1>6 DEF ExplainedAt
<1>7. CASE k = p
  BY <1>1, <1>2, <1>3, <1>7 DEF ExplainedAt
<1>8. CASE k \notin {p, n}
  <2>1. s[k] = r[k]
    BY <1>2, <1>8
  <2>2. CASE r[k].trace = None
    BY <2>1, <2>2 DEF ExplainedAt
  <2>3. CASE r[k].trace # None
    <3> DEFINE q == r[k].prev
    <3>1. q \in ObsIds
      BY <1>1, <2>3
    <3>2. /\ r[q].next = k => /\ s[q].next = k /\ s[q].invalid = r[q].invalid
                              /\ s[q].amount = r[q].amount
          /\ r[q].next # k => s[q].next # k
      <4> HIDE DEF r, s, u, q
      <4>1. CASE q = p
        BY <1>1, <1>2, <1>3, <1>8, <4>1, <3>1
      <4>2. CASE q = n
        BY <1>1, <1>2, <4>2
      <4>3. CASE q \notin {p, n}
        BY <1>2, <3>1, <4>3
      <4> QED
        BY <4>1, <4>2, <4>3
    <3> QED
      BY <1>4, <1>5, <2>1, <2>3, <3>2, ExplainedStays
  <2> QED
    BY <2>2, <2>3
<1> QED
  BY <1>6, <1>7, <1>8

LEMMA ExplainedRestores ==
  ASSUME NEW d, LedgerSound(d), Traces(d), Explained(d), NEW w \in Tables, Carried(d, w),
         StandingKept(d, w), NEW n \in ObsIds, d.obs[n].trace # None,
         Restores(d.obs, w.obs, n), RedemptionOf(w, d.obs[n].trace) = {}
  PROVE  Explained(w)
<1> DEFINE r == d.obs  s == w.obs  u == Voided(r[n])  p == r[n].prev  v == NextSet(r[p], None)
<1>1. /\ r \in [ObsIds -> ObsRow] /\ None \notin ObsIds
      /\ \A k \in ObsIds : r[k].trace # None => r[k].prev # None
      /\ \A k \in ObsIds : r[k].prev \in ObsIds \cup {None}
  BY TablesOf, IdsAreNat DEF LedgerSound, ObsRow
<1>2. /\ ~r[n].invalid /\ r[n].next = None /\ s[n] = u
      /\ \A k \in ObsIds \ {n} : s[k] = IF k = p THEN NextSet(r[k], None) ELSE r[k]
  BY DEF Restores, Voided, NextSet
<1>3. p \in ObsIds /\ p # n /\ r[p].next = n /\ ~r[p].invalid
  BY <1>1, <1>2 DEF Explained, ExplainedAt
<1>4. /\ u.invalid /\ u.prev = p /\ u.trace = r[n].trace
      /\ v.trace = r[p].trace /\ v.prev = r[p].prev /\ v.amount = r[p].amount
      /\ v.invalid = r[p].invalid /\ v.next = None
  BY <1>1, <1>3 DEF Voided, NextSet, ObsRow
<1>5. s[p] = v /\ \A k \in ObsIds \ {n, p} : s[k] = r[k]
  BY <1>2, <1>3
<1> SUFFICES ASSUME NEW k \in ObsIds PROVE ExplainedAt(w, k)
  BY DEF Explained
<1>6. r[k].trace # None => Explains(d, w, k)
  BY ExplainsKept DEF LedgerSound
<1>7. ExplainedAt(d, k)
  BY DEF Explained
<1>8. CASE k = n
  <2>1. s[n].invalid /\ s[n].trace = r[n].trace /\ s[n].prev = p /\ s[p].next # n
    <3> HIDE DEF r, s, u, v, p
    <3> QED
      BY <1>1, <1>2, <1>4, <1>5
  <2> QED
    BY <1>8, <2>1 DEF ExplainedAt
<1>9. CASE k # n
  <2>1. /\ s[k].trace = r[k].trace /\ s[k].prev = r[k].prev /\ s[k].amount = r[k].amount
        /\ s[k].invalid = r[k].invalid
        /\ r[k].invalid => s[k].next = r[k].next
    <3> HIDE DEF r, s, u, v, p
    <3> QED
      BY <1>3, <1>4, <1>5, <1>9
  <2>2. CASE r[k].trace = None
    BY <2>1, <2>2 DEF ExplainedAt
  <2>3. CASE r[k].trace # None
    <3> DEFINE q == r[k].prev
    <3>1. q \in ObsIds
      BY <1>1, <2>3
    <3>2. /\ r[q].next = k => /\ s[q].next = k /\ s[q].invalid = r[q].invalid
                              /\ s[q].amount = r[q].amount
          /\ r[q].next # k => s[q].next # k
      <4> HIDE DEF r, s, u, v, p, q
      <4>1. CASE q = p
        BY <1>1, <1>3, <1>4, <1>5, <1>9, <4>1
      <4>2. CASE q = n
        <5>1. s[q].next # k /\ r[q].next # k
          <6>1. u.next = None
            BY <1>1, <1>2 DEF u, Voided, ObsRow
          <6> QED
            BY <1>1, <1>2, <4>2, <6>1
        <5> QED
          BY <5>1
      <4>3. CASE q \notin {p, n}
        BY <1>5, <3>1, <4>3
      <4> QED
        BY <4>1, <4>2, <4>3
    <3> QED
      BY <1>6, <1>7, <2>1, <2>3, <3>2, ExplainedStays
  <2> QED
    BY <2>2, <2>3
<1> QED
  BY <1>8, <1>9

LEMMA CarriedObOf ==
  ASSUME NEW d \in Tables, NEW e \in Tables, NEW o \in Obligations,
         e.ob[o].created = d.ob[o].created, e.ob[o].privilege = d.ob[o].privilege,
         e.ob[o].fundObs = d.ob[o].fundObs, e.ob[o].paidTx = d.ob[o].paidTx,
         e.ob[o].fundTx = d.ob[o].fundTx
  PROVE  CarriedOb(d, Settled(e), o) /\ Settled(e).ob[o].status = e.ob[o].status
<1> DEFINE w == Settled(e)
<1>1. /\ \A x \in TxIds : w.tx[x].kind = e.tx[x].kind
      /\ w.ob[o].status = e.ob[o].status /\ w.ob[o].created = e.ob[o].created
      /\ w.ob[o].privilege = e.ob[o].privilege /\ w.ob[o].fundObs = e.ob[o].fundObs
      /\ w.ob[o].paidTx = IF e.ob[o].paidTx # None /\ e.tx[e.ob[o].paidTx].kind = "gone"
                          THEN None ELSE e.ob[o].paidTx
      /\ w.ob[o].fundTx = IF e.ob[o].fundTx # None /\ e.tx[e.ob[o].fundTx].kind = "gone"
                          THEN None ELSE e.ob[o].fundTx
  BY SettledIs
<1>2. d.ob[o].paidTx \in TxIds \cup {None} /\ d.ob[o].fundTx \in TxIds \cup {None}
  BY TablesOf DEF ObRow
<1> HIDE DEF w
<1>3. CarriedOb(d, w, o)
  BY <1>1, <1>2 DEF CarriedOb, Left
<1> QED
  BY <1>1, <1>3 DEF w

LEMMA FundedCarried ==
  ASSUME NEW d, LedgerSound(d), Traces(d), NEW w, LedgerSound(w), Carried(d, w),
         StandingKept(d, w), Since(d, w),
         NEW o \in Obligations, FundedAt(d, o), CarriedOb(d, w, o)
  PROVE  FundedAt(w, o)
<1> DEFINE f == d.ob[o].fundTx  g == d.ob[o].fundObs  x == d.ob[o].paidTx
<1>1. /\ f \in TxIds \cup {None} /\ g \in ObsIds \cup {None} /\ x \in TxIds \cup {None}
      /\ None \notin TxIds /\ None \notin ObsIds
  BY TablesOf, IdsAreNat DEF LedgerSound, ObRow
<1>2. /\ f # None => /\ d.tx[f].kind = "transfer" /\ d.tx[f].group = None
                     /\ g # None /\ d.obs[g].trace = f
      /\ d.ob[o].privilege => g # None
      /\ g # None /\ ~d.obs[g].invalid => f # None
      /\ d.ob[o].created /\ x # None => d.tx[x].kind = "expense" /\ d.tx[x].group = None
  BY DEF FundedAt
<1>3. /\ w.ob[o].created = d.ob[o].created /\ w.ob[o].privilege = d.ob[o].privilege
      /\ w.ob[o].fundObs = g /\ w.ob[o].paidTx = Left(w, x) /\ w.ob[o].fundTx = Left(w, f)
  BY DEF CarriedOb
<1> HIDE DEF f, g, x
<1>4. f # None /\ w.tx[f].kind # "gone" => w.tx[f].kind = "transfer" /\ w.tx[f].group = None
  BY <1>1, <1>2, GoneIsGone DEF Carried, KeptRow
<1>5. x # None /\ w.tx[x].kind # "gone" /\ d.ob[o].created =>
        w.tx[x].kind = "expense" /\ w.tx[x].group = None
  BY <1>1, <1>2, GoneIsGone DEF Carried, KeptRow
<1>6. f # None => w.obs[g].trace = f
  <2> SUFFICES ASSUME f # None PROVE w.obs[g].trace = f
    OBVIOUS
  <2>1. g \in ObsIds /\ d.obs[g].trace = f
    BY <1>1, <1>2
  <2>2. d.obs[g].used
    BY <2>1 DEF LedgerSound, NoObs
  <2> QED
    BY <2>1, <2>2 DEF Since
<1>7. g # None /\ ~w.obs[g].invalid => f # None /\ w.tx[f].kind # "gone"
  <2> SUFFICES ASSUME g # None, ~w.obs[g].invalid PROVE f # None /\ w.tx[f].kind # "gone"
    OBVIOUS
  <2>1. g \in ObsIds /\ ~d.obs[g].invalid
    BY <1>1 DEF Since
  <2>2. f # None /\ f \in TxIds /\ d.obs[g].trace = f /\ d.tx[f].kind = "transfer"
    BY <1>1, <1>2, <2>1
  <2>3. f \in RedemptionOf(d, d.obs[g].trace)
    BY <2>2 DEF RedemptionOf, RowIds
  <2>4. w.tx[f] # Gone
    BY <2>1, <2>2, <2>3 DEF StandingKept
  <2>5. KeptRow(d, w, f)
    BY <2>2, <2>4 DEF Carried
  <2> QED
    BY <2>2, <2>5 DEF KeptRow
<1> QED
  BY <1>2, <1>3, <1>4, <1>5, <1>6, <1>7 DEF FundedAt, Left

(* Nobody acted on an obligation, or somebody on one.                       *)
LEMMA NoneActed ==
  ASSUME NEW d, LedgerSound(d), Traces(d), Funded(d), PaidOnce(d), NEW w, LedgerSound(w),
         Carried(d, w), StandingKept(d, w), Since(d, w),
         \A o \in Obligations : CarriedOb(d, w, o)
  PROVE  Funded(w) /\ PaidOnce(w)
<1>1. Funded(w)
  BY FundedCarried DEF Funded
<1>2. \A o \in Obligations : w.ob[o].paidTx \in {d.ob[o].paidTx, None}
  BY DEF CarriedOb, Left
<1>3. PaidOnce(w)
  BY <1>2 DEF PaidOnce
<1> QED
  BY <1>1, <1>3

LEMMA OneActed ==
  ASSUME NEW d, LedgerSound(d), Traces(d), Funded(d), PaidOnce(d), NEW w, LedgerSound(w),
         Carried(d, w), StandingKept(d, w), Since(d, w),
         NEW a \in Obligations, \A o \in Obligations \ {a} : CarriedOb(d, w, o),
         FundedAt(w, a),
         w.ob[a].paidTx # None =>
             \A o \in Obligations \ {a} : d.ob[o].paidTx # w.ob[a].paidTx
  PROVE  Funded(w) /\ PaidOnce(w)
<1>1. \A o \in Obligations \ {a} : FundedAt(w, o)
  BY FundedCarried DEF Funded
<1>2. Funded(w)
  BY <1>1 DEF Funded
<1>3. \A o \in Obligations \ {a} : w.ob[o].paidTx \in {d.ob[o].paidTx, None}
  BY DEF CarriedOb, Left
<1>4. PaidOnce(w)
  BY <1>3 DEF PaidOnce
<1> QED
  BY <1>2, <1>4

(* A paid obligation whose transaction is kept, and counts if it did.       *)
SettlesAt(d, o) ==
    d.ob[o].status = "paid" => d.ob[o].paidTx # None /\ Eligible(d, d.ob[o].paidTx, o)
KeptCounting(d, w, x) == w.tx[x] # Gone /\ (d.tx[x].counts => w.tx[x].counts)

LEMMA SettlesCarried ==
  ASSUME NEW d \in Tables, NEW w \in Tables, Carried(d, w), NEW o \in Obligations,
         SettlesAt(d, o), CarriedOb(d, w, o), w.ob[o].status = "paid" => d.ob[o].status = "paid",
         d.ob[o].status = "paid" => KeptCounting(d, w, d.ob[o].paidTx)
  PROVE  SettlesAt(w, o)
<1> DEFINE x == d.ob[o].paidTx
<1> SUFFICES ASSUME w.ob[o].status = "paid"
             PROVE  w.ob[o].paidTx # None /\ Eligible(w, w.ob[o].paidTx, o)
  BY DEF SettlesAt
<1>1. /\ d.ob[o].status = "paid" /\ w.ob[o].paidTx = Left(w, x)
      /\ x \in TxIds \cup {None}
  BY TablesOf DEF CarriedOb, ObRow
<1>2. /\ x # None /\ x \in TxIds /\ d.tx[x].kind = "expense" /\ d.tx[x].counts
      /\ d.tx[x].amount = AmountDue[o]
  BY <1>1 DEF SettlesAt, Eligible
<1>3. w.tx[x] # Gone /\ w.tx[x].counts
  BY <1>1, <1>2 DEF KeptCounting
<1> HIDE DEF x
<1>4. KeptRow(d, w, x)
  BY <1>2, <1>3 DEF Carried
<1>5. w.tx[x].kind = "expense" /\ w.tx[x].amount = AmountDue[o]
  BY <1>2, <1>4 DEF KeptRow
<1> QED
  BY <1>1, <1>2, <1>3, <1>5 DEF Left, Eligible

(* The commit of a request that overlapped no other.                        *)
LEMMA OwnCommit ==
  ASSUME NEW d, LedgerSound(d), NEW rq, NEW e, Moves(rq, d, e, d)
  PROVE  /\ Commit(d, e, d) = Settled(e) /\ e \in Tables
         /\ LedgerSound(Settled(e)) /\ Since(d, Settled(e)) /\ Settled(e).obs = e.obs
<1>1. d \in Tables /\ e \in Tables
  BY DEF LedgerSound, Moves
<1>2. Merged(d, e, d) = e
  BY <1>1, SelfMerge
<1>3. Commit(d, e, d) = Settled(e)
  BY <1>2 DEF Commit
<1>4. Since(d, d)
  BY SinceItself
<1>5. LedgerSound(Commit(d, e, d)) /\ Since(d, Commit(d, e, d))
  BY <1>4, CommitSound
<1> QED
  BY <1>1, <1>3, <1>5, SettledIs

LEMMA NoNewTraces ==
  ASSUME NEW d, LedgerSound(d), NEW w,
         \A n \in ObsIds : ~d.obs[n].used => w.obs[n].trace = None
  PROVE  NewTraces(d, w)
  BY DEF NewTraces

LEMMA SettlesKept ==
  ASSUME NEW d \in Tables, NEW w \in Tables, Carried(d, w), Settles(d),
         \A o \in Obligations : CarriedOb(d, w, o) /\ (w.ob[o].status = "paid" => d.ob[o].status = "paid"),
         \A x \in TxIds : Paying(d, x) /\ d.tx[x].kind = "expense" => KeptCounting(d, w, x)
  PROVE  Settles(w)
<1> SUFFICES ASSUME NEW o \in Obligations PROVE SettlesAt(w, o)
  BY DEF Settles, SettlesAt
<1>1. SettlesAt(d, o)
  BY DEF Settles, SettlesAt
<1>2. d.ob[o].status = "paid" => KeptCounting(d, w, d.ob[o].paidTx)
  <2> SUFFICES ASSUME d.ob[o].status = "paid" PROVE KeptCounting(d, w, d.ob[o].paidTx)
    OBVIOUS
  <2>1. d.ob[o].paidTx \in TxIds /\ d.tx[d.ob[o].paidTx].kind = "expense"
    BY <1>1, TablesOf DEF SettlesAt, Eligible, ObRow
  <2>2. Paying(d, d.ob[o].paidTx)
    BY DEF Paying, PaidBy
  <2> QED
    BY <2>1, <2>2
<1> QED
  BY <1>1, <1>2, SettlesCarried

LEMMA AllKept ==
  ASSUME NEW d, LedgerSound(d), Undisturbed(d), NEW w, LedgerSound(w), Since(d, w),
         Carried(d, w), StandingKept(d, w), Groups(w), NewTraces(d, w), Explained(w),
         \A o \in Obligations : CarriedOb(d, w, o)
  PROVE  Undisturbed(w)
<1>1. Traces(d) /\ Funded(d) /\ PaidOnce(d)
  BY DEF Undisturbed
<1>2. Traces(w)
  BY <1>1, TracesCarried
<1>3. Funded(w) /\ PaidOnce(w)
  BY <1>1, NoneActed
<1> QED
  BY <1>2, <1>3 DEF Undisturbed

LEMMA SpendsNewTraces ==
  ASSUME NEW d, LedgerSound(d), NEW w, NEW c \in ObsIds, NEW n \in ObsIds, NEW a \in Nat,
         NEW t \in TxIds, Spends(d.obs, w.obs, d, d, c, n, a, t),
         d.tx[t].kind = "unused", w.tx[t].kind # "unused", w.tx[t].group \in {None, t}
  PROVE  NewTraces(d, w)
<1>1. w.obs[n].trace = t
  BY DEF Spends
<1>2. \A k \in ObsIds \ {n} : ~d.obs[k].used => w.obs[k].trace = None
  <2> SUFFICES ASSUME NEW k \in ObsIds \ {n}, ~d.obs[k].used PROVE w.obs[k].trace = None
    OBVIOUS
  <2>1. k # c /\ d.obs[k].trace = None
    BY DEF Spends, Active, LedgerSound, NoObs
  <2> QED
    BY <2>1 DEF Spends
<1> QED
  BY <1>1, <1>2 DEF NewTraces

LEMMA RestoredTraces ==
  ASSUME NEW r \in [ObsIds -> ObsRow], NEW w, NEW n \in ObsIds, Restores(r, w, n)
  PROVE  \A k \in ObsIds : w[k].trace = r[k].trace
<1> SUFFICES ASSUME NEW k \in ObsIds PROVE w[k].trace = r[k].trace
  OBVIOUS
<1>1. w[k] = Voided(r[k]) \/ w[k] = NextSet(r[k], None) \/ w[k] = r[k]
  BY DEF Restores, Voided, NextSet
<1>2. r[k] \in ObsRow
  OBVIOUS
<1> QED
  BY <1>1, <1>2 DEF Voided, NextSet, ObsRow

LEMMA CreationUndisturbed ==
  ASSUME NEW d, LedgerSound(d), Undisturbed(d), NEW rq \in Creations, Completes(rq, d, d)
  PROVE  LET w == Settled(Result(rq, d, d)) IN Undisturbed(w) /\ (Settles(d) => Settles(w))
<1> DEFINE e == Result(rq, d, d)  w == Settled(e)  C == NextTx(d)
<1>1. d \in Tables /\ Since(d, d) /\ Groups(d) /\ Traces(d) /\ Explained(d)
  BY SinceItself DEF LedgerSound, Undisturbed
<1>2. e = Created(rq, d, d) /\ CanCreate(rq, d)
  BY CreationsMean
<1>3. Moves(rq, d, e, d)
  BY <1>1, CreationMoves
<1> HIDE DEF e
<1>4. e \in Tables /\ LedgerSound(w) /\ Since(d, w) /\ w.obs = e.obs
  BY <1>3, OwnCommit
<1>5. /\ e.ob = d.ob /\ e.obs = d.obs /\ Adds(d.tx, e.tx, d, C)
      /\ C \subseteq TxIds /\ \A x \in C : e.tx[x].group = None
  <2>1. /\ e.ob = d.ob /\ e.obs = d.obs /\ Adds(d.tx, e.tx, d, C)
        /\ e.tx[FirstTx(d)].group = None
    BY <1>1, <1>2, CreatedShape
  <2> QED
    BY <2>1 DEF Adds, NextTx
<1> HIDE DEF C
<1>6. /\ Carried(d, w) /\ Groups(w) /\ StandingKept(d, w)
      /\ \A x \in TxIds \ C : d.tx[x].kind \in {"expense", "transfer"} =>
              KeptRow(d, w, x) /\ w.tx[x].counts = d.tx[x].counts
  BY <1>1, <1>4, <1>5, Growth
<1>7. NewTraces(d, w)
  <2>1. \A n \in ObsIds : ~d.obs[n].used => w.obs[n].trace = None
    BY <1>4, <1>5, SMTT(30) DEF LedgerSound, NoObs
  <2> QED
    BY <2>1, NoNewTraces
<1>8. w \in Tables
  BY <1>4 DEF LedgerSound
<1>9. \A o \in Obligations : CarriedOb(d, w, o) /\ w.ob[o].status = d.ob[o].status
  BY <1>1, <1>4, <1>5, CarriedObOf
<1> HIDE DEF w
<1>10. Explained(w)
  BY <1>1, <1>4, <1>5, <1>6, <1>8, ExplainedKept
<1>11. Undisturbed(w)
  BY <1>4, <1>6, <1>7, <1>9, <1>10, AllKept
<1>12. \A x \in TxIds : Paying(d, x) /\ d.tx[x].kind = "expense" => KeptCounting(d, w, x)
  BY <1>5, <1>6, GoneIsGone DEF Adds, KeptRow, KeptCounting
<1>13. Settles(d) => Settles(w)
  BY <1>1, <1>6, <1>8, <1>9, <1>12, SettlesKept
<1> QED
  BY <1>11, <1>13 DEF e, w

LEMMA TransferUndisturbed ==
  ASSUME NEW d, LedgerSound(d), Undisturbed(d), NEW rq \in Transfers, Completes(rq, d, d)
  PROVE  LET w == Settled(Result(rq, d, d)) IN Undisturbed(w) /\ (Settles(d) => Settles(w))
<1> DEFINE e == Result(rq, d, d)  w == Settled(e)  C == NextTwo(d)
<1>1. d \in Tables /\ Since(d, d) /\ Groups(d) /\ Traces(d) /\ Explained(d)
  BY SinceItself DEF LedgerSound, Undisturbed
<1>2. e = Transferred(rq, d, d) /\ CanTransfer(rq, d)
  BY TransfersMean
<1>3. Moves(rq, d, e, d)
  BY <1>1, TransferMoves
<1> HIDE DEF e
<1>4. e \in Tables /\ LedgerSound(w) /\ Since(d, w) /\ w.obs = e.obs
  BY <1>3, OwnCommit
<1>5. /\ e.ob = d.ob /\ e.obs = d.obs /\ Adds(d.tx, e.tx, d, C)
      /\ C \subseteq TxIds
      /\ \A x \in C : e.tx[x].group \in C /\ e.tx[e.tx[x].group].group = e.tx[x].group
  <2>1. /\ e.ob = d.ob /\ e.obs = d.obs /\ Adds(d.tx, e.tx, d, C)
        /\ e.tx[FirstTx(d)].group = FirstTx(d) /\ e.tx[SecondTx(d)].group = FirstTx(d)
    BY <1>1, <1>2, TransferredShape
  <2> QED
    BY <2>1 DEF Adds, NextTwo
<1> HIDE DEF C
<1>6. /\ Carried(d, w) /\ Groups(w) /\ StandingKept(d, w)
      /\ \A x \in TxIds \ C : d.tx[x].kind \in {"expense", "transfer"} =>
              KeptRow(d, w, x) /\ w.tx[x].counts = d.tx[x].counts
  BY <1>1, <1>4, <1>5, Growth
<1>7. NewTraces(d, w)
  <2>1. \A n \in ObsIds : ~d.obs[n].used => w.obs[n].trace = None
    BY <1>4, <1>5, SMTT(30) DEF LedgerSound, NoObs
  <2> QED
    BY <2>1, NoNewTraces
<1>8. w \in Tables
  BY <1>4 DEF LedgerSound
<1>9. \A o \in Obligations : CarriedOb(d, w, o) /\ w.ob[o].status = d.ob[o].status
  BY <1>1, <1>4, <1>5, CarriedObOf
<1> HIDE DEF w
<1>10. Explained(w)
  BY <1>1, <1>4, <1>5, <1>6, <1>8, ExplainedKept
<1>11. Undisturbed(w)
  BY <1>4, <1>6, <1>7, <1>9, <1>10, AllKept
<1>12. \A x \in TxIds : Paying(d, x) /\ d.tx[x].kind = "expense" => KeptCounting(d, w, x)
  BY <1>5, <1>6, GoneIsGone DEF Adds, KeptRow, KeptCounting
<1>13. Settles(d) => Settles(w)
  BY <1>1, <1>6, <1>8, <1>9, <1>12, SettlesKept
<1> QED
  BY <1>11, <1>13 DEF e, w

LEMMA FundingUndisturbed ==
  ASSUME NEW d, LedgerSound(d), Undisturbed(d), NEW rq \in Fundings, Completes(rq, d, d)
  PROVE  LET w == Settled(Result(rq, d, d)) IN Undisturbed(w) /\ (Settles(d) => Settles(w))
<1> DEFINE e == Result(rq, d, d)  w == Settled(e)  C == NextTwo(d)
           x == FirstTx(d)  f == SecondTx(d)  c == Latest(d)  n == FreshObs(d)
<1>1. d \in Tables /\ Since(d, d) /\ Groups(d) /\ Traces(d) /\ Explained(d) /\ rq.amount \in Nat
  BY SinceItself, NatBounds DEF LedgerSound, Undisturbed, Fundings
<1>2. e = FundedExpense(rq, d, d) /\ CanFundExpense(rq, d)
  BY FundingsMean
<1>3. Moves(rq, d, e, d)
  BY <1>1, FundingMoves
<1> HIDE DEF e
<1>4. e \in Tables /\ LedgerSound(w) /\ Since(d, w) /\ w.obs = e.obs
  BY <1>3, OwnCommit
<1>5. /\ e.ob = d.ob /\ x \in TxIds /\ f \in TxIds /\ x # f /\ Adds(d.tx, e.tx, d, C)
      /\ e.tx[x].kind = "expense" /\ e.tx[x].group = x
      /\ e.tx[f].kind = "transfer" /\ e.tx[f].group = x /\ e.tx[f].amount = rq.amount
      /\ Spends(d.obs, e.obs, d, d, c, n, rq.amount, x)
  BY <1>1, <1>2, FundedShape
<1>6. /\ x \in C /\ f \in C /\ C \subseteq TxIds /\ d.tx[x].kind = "unused"
      /\ \A y \in C : e.tx[y].group \in C /\ e.tx[e.tx[y].group].group = e.tx[y].group
  BY <1>5 DEF NextTwo, Adds
<1> HIDE DEF C
<1>7. /\ Carried(d, w) /\ Groups(w) /\ StandingKept(d, w)
      /\ \A y \in C : /\ w.tx[y].kind = e.tx[y].kind /\ w.tx[y].amount = e.tx[y].amount
                      /\ w.tx[y].group = e.tx[y].group /\ w.tx[y].counts = e.tx[y].counts
      /\ \A y \in TxIds \ C : d.tx[y].kind \in {"expense", "transfer"} =>
              KeptRow(d, w, y) /\ w.tx[y].counts = d.tx[y].counts
  BY <1>1, <1>4, <1>5, <1>6, Growth
<1>8. w \in Tables
  BY <1>4 DEF LedgerSound
<1>9. \A o \in Obligations : CarriedOb(d, w, o) /\ w.ob[o].status = d.ob[o].status
  BY <1>1, <1>4, <1>5, CarriedObOf
<1> HIDE DEF w, x, f, c, n
<1>10. c \in ObsIds /\ n \in ObsIds /\ Spends(d.obs, w.obs, d, d, c, n, rq.amount, x)
  BY <1>4, <1>5 DEF Spends, Active
<1>11. NewTraces(d, w)
  <2>1. w.tx[x].kind # "unused" /\ w.tx[x].group \in {None, x}
    BY <1>5, <1>6, <1>7
  <2> QED
    BY <1>1, <1>5, <1>6, <1>10, <2>1, SpendsNewTraces
<1>12. Explained(w)
  <2>1. f \in RedemptionOf(w, x) /\ w.tx[f].amount = rq.amount
    BY <1>5, <1>6, <1>7 DEF RedemptionOf, RowIds
  <2> QED
    BY <1>1, <1>5, <1>7, <1>8, <1>10, <2>1, ExplainedSpends
<1>13. Undisturbed(w)
  BY <1>4, <1>7, <1>9, <1>11, <1>12, AllKept
<1>14. \A y \in TxIds : Paying(d, y) /\ d.tx[y].kind = "expense" => KeptCounting(d, w, y)
  BY <1>5, <1>7, GoneIsGone DEF Adds, KeptRow, KeptCounting
<1>15. Settles(d) => Settles(w)
  BY <1>1, <1>7, <1>8, <1>9, <1>14, SettlesKept
<1> QED
  BY <1>13, <1>15 DEF e, w

LEMMA UpdateUndisturbed ==
  ASSUME NEW d, LedgerSound(d), Undisturbed(d), NEW rq \in Updates, Passes(rq, d)
  PROVE  LET w == Settled(Result(rq, d, d)) IN Undisturbed(w) /\ (Settles(d) => Settles(w))
<1> DEFINE e == Result(rq, d, d)  w == Settled(e)  x == rq.x
<1>1. d \in Tables /\ Since(d, d) /\ Groups(d) /\ Traces(d) /\ Explained(d)
  BY SinceItself DEF LedgerSound, Undisturbed
<1>2. e = Updated(rq, d) /\ CanUpdate(rq, d)
  BY UpdatesMean
<1>3. Moves(rq, d, e, d)
  BY <1>1, UpdateMoves
<1> HIDE DEF e
<1>4. e \in Tables /\ LedgerSound(w) /\ Since(d, w) /\ w.obs = e.obs
  BY <1>3, OwnCommit
<1>5. /\ e.ob = d.ob /\ e.obs = d.obs /\ x \in RowIds(d) /\ x \in TxIds
      /\ e.tx[x] = [d.tx[x] EXCEPT !.counts = rq.counts]
      /\ \A y \in TxIds \ {x} : e.tx[y] = d.tx[y]
  BY <1>1, <1>2, UpdatedShape DEF RowIds
<1>6. /\ e.tx[x].kind = d.tx[x].kind /\ e.tx[x].amount = d.tx[x].amount
      /\ e.tx[x].group = d.tx[x].group /\ e.tx[x].counts = rq.counts
  BY <1>1, <1>5, TablesOf DEF TxRow
<1>7. \A y \in TxIds : /\ e.tx[y].kind = d.tx[y].kind /\ e.tx[y].amount = d.tx[y].amount
                       /\ e.tx[y].group = d.tx[y].group
  BY <1>5, <1>6
<1>8. /\ Carried(d, w) /\ Groups(w) /\ StandingKept(d, w)
      /\ \A y \in TxIds : d.tx[y].kind \in {"expense", "transfer"} =>
              KeptRow(d, w, y) /\ w.tx[y].counts = e.tx[y].counts
  BY <1>1, <1>4, <1>7, NoRowMoves
<1>9. NewTraces(d, w)
  <2>1. \A n \in ObsIds : ~d.obs[n].used => w.obs[n].trace = None
    BY <1>4, <1>5, SMTT(30) DEF LedgerSound, NoObs
  <2> QED
    BY <2>1, NoNewTraces
<1>10. w \in Tables
  BY <1>4 DEF LedgerSound
<1>11. \A o \in Obligations : CarriedOb(d, w, o) /\ w.ob[o].status = d.ob[o].status
  BY <1>1, <1>4, <1>5, CarriedObOf
<1> HIDE DEF w
<1>12. Explained(w)
  BY <1>1, <1>4, <1>5, <1>8, <1>10, ExplainedKept
<1>13. Undisturbed(w)
  BY <1>4, <1>8, <1>9, <1>11, <1>12, AllKept
<1>14. \A y \in TxIds : Paying(d, y) /\ d.tx[y].kind = "expense" => KeptCounting(d, w, y)
  <2> SUFFICES ASSUME NEW y \in TxIds, Paying(d, y), d.tx[y].kind = "expense"
               PROVE  KeptCounting(d, w, y)
    OBVIOUS
  <2>1. w.tx[y].kind = "expense" /\ w.tx[y].counts = e.tx[y].counts
    BY <1>8 DEF KeptRow
  <2>2. y = x => rq.counts
    BY <1>2 DEF CanUpdate
  <2>3. d.tx[y].counts => e.tx[y].counts
    BY <1>5, <1>6, <2>2
  <2> QED
    BY <2>1, <2>3, GoneIsGone DEF KeptCounting
<1>15. Settles(d) => Settles(w)
  BY <1>1, <1>8, <1>10, <1>11, <1>14, SettlesKept
<1> QED
  BY <1>13, <1>15 DEF e, w

LEMMA CancellationUndisturbed ==
  ASSUME NEW d, LedgerSound(d), Undisturbed(d), NEW rq \in Cancellations, Passes(rq, d)
  PROVE  LET w == Settled(Result(rq, d, d)) IN Undisturbed(w) /\ (Settles(d) => Settles(w))
<1> DEFINE e == Result(rq, d, d)  w == Settled(e)  a == rq.o
<1>1. d \in Tables /\ Since(d, d) /\ Groups(d) /\ Traces(d) /\ Explained(d)
  BY SinceItself DEF LedgerSound, Undisturbed
<1>2. e = Cancelled(rq, d) /\ CanCancel(rq, d)
  BY CancellationsMean
<1>3. Moves(rq, d, e, d)
  BY <1>1, CancellationMoves
<1> HIDE DEF e
<1>4. e \in Tables /\ LedgerSound(w) /\ Since(d, w) /\ w.obs = e.obs
  BY <1>3, OwnCommit
<1>5. /\ e.tx = d.tx /\ e.obs = d.obs /\ a \in Obligations
      /\ e.ob[a] = [d.ob[a] EXCEPT !.status = "cancelled"]
      /\ \A p \in Obligations \ {a} : e.ob[p] = d.ob[p]
  BY <1>1, <1>2, CancelledShape
<1>6. /\ Carried(d, w) /\ Groups(w) /\ StandingKept(d, w)
      /\ \A y \in TxIds : d.tx[y].kind \in {"expense", "transfer"} =>
              KeptRow(d, w, y) /\ w.tx[y].counts = e.tx[y].counts
  BY <1>1, <1>4, <1>5, NoRowMoves
<1>7. NewTraces(d, w)
  <2>1. \A n \in ObsIds : ~d.obs[n].used => w.obs[n].trace = None
    BY <1>4, <1>5, SMTT(30) DEF LedgerSound, NoObs
  <2> QED
    BY <2>1, NoNewTraces
<1>8. w \in Tables
  BY <1>4 DEF LedgerSound
<1>9. ASSUME NEW o \in Obligations
      PROVE  /\ e.ob[o].created = d.ob[o].created /\ e.ob[o].privilege = d.ob[o].privilege
             /\ e.ob[o].fundObs = d.ob[o].fundObs /\ e.ob[o].paidTx = d.ob[o].paidTx
             /\ e.ob[o].fundTx = d.ob[o].fundTx
             /\ e.ob[o].status = "paid" => d.ob[o].status = "paid"
  <2>1. CASE o = a
    BY <1>1, <1>5, <2>1, TablesOf DEF ObRow
  <2>2. CASE o # a
    BY <1>5, <2>2
  <2> QED
    BY <2>1, <2>2
<1>10. \A o \in Obligations :
         CarriedOb(d, w, o) /\ (w.ob[o].status = "paid" => d.ob[o].status = "paid")
  BY <1>1, <1>4, <1>9, CarriedObOf
<1> HIDE DEF w
<1>11. Explained(w)
  BY <1>1, <1>4, <1>5, <1>6, <1>8, ExplainedKept
<1>12. Undisturbed(w)
  BY <1>4, <1>6, <1>7, <1>10, <1>11, AllKept
<1>13. \A y \in TxIds : Paying(d, y) /\ d.tx[y].kind = "expense" => KeptCounting(d, w, y)
  BY <1>5, <1>6, GoneIsGone DEF KeptRow, KeptCounting
<1>14. Settles(d) => Settles(w)
  BY <1>1, <1>6, <1>8, <1>10, <1>13, SettlesKept
<1> QED
  BY <1>12, <1>14 DEF e, w

LEMMA ConfirmationUndisturbed ==
  ASSUME NEW d, LedgerSound(d), Undisturbed(d), NEW rq \in Confirmations, Completes(rq, d, d)
  PROVE  LET w == Settled(Result(rq, d, d)) IN Undisturbed(w) /\ (Settles(d) => Settles(w))
<1> DEFINE e == Result(rq, d, d)  w == Settled(e)  p == rq.prev  n == FreshObs(d)
<1>1. /\ d \in Tables /\ Since(d, d) /\ Groups(d) /\ Traces(d) /\ Explained(d)
      /\ p \in ObsIds \cup {None}
  BY SinceItself DEF LedgerSound, Undisturbed, Confirmations
<1>2. e = Confirmed(rq, d, d) /\ CanConfirm(rq, d, d)
  BY ConfirmationsMean
<1>3. Moves(rq, d, e, d)
  BY <1>1, ConfirmationMoves
<1> HIDE DEF e
<1>4. e \in Tables /\ LedgerSound(w) /\ Since(d, w) /\ w.obs = e.obs
  BY <1>3, OwnCommit
<1>5. /\ e.tx = d.tx /\ e.ob = d.ob
      /\ Confirms(d.obs, e.obs, d, p, n)
  BY <1>1, <1>2, ConfirmedEffect
<1>6. p # None => d.obs[p].used /\ d.obs[p].next = None
  BY <1>2 DEF CanConfirm
<1>7. /\ Carried(d, w) /\ Groups(w) /\ StandingKept(d, w)
      /\ \A y \in TxIds : d.tx[y].kind \in {"expense", "transfer"} =>
              KeptRow(d, w, y) /\ w.tx[y].counts = e.tx[y].counts
  BY <1>1, <1>4, <1>5, NoRowMoves
<1> HIDE DEF n, p
<1>8. NewTraces(d, w)
  <2> SUFFICES ASSUME NEW k \in ObsIds, ~d.obs[k].used PROVE w.obs[k].trace = None
    BY NoNewTraces
  <2>1. CASE k = n
    BY <1>4, <1>5, <2>1 DEF Confirms
  <2>2. CASE k # n
    BY <1>4, <1>5, <1>6, <2>2, IdsAreNat, SMTT(30) DEF Confirms, LedgerSound, NoObs
  <2> QED
    BY <2>1, <2>2
<1>9. w \in Tables
  BY <1>4 DEF LedgerSound
<1>10. \A o \in Obligations : CarriedOb(d, w, o) /\ w.ob[o].status = d.ob[o].status
  BY <1>1, <1>4, <1>5, CarriedObOf
<1> HIDE DEF w
<1>11. n \in ObsIds /\ Confirms(d.obs, w.obs, d, p, n)
  BY <1>4, <1>5 DEF Confirms
<1>12. Explained(w)
  BY <1>1, <1>6, <1>7, <1>9, <1>11, ExplainedConfirms
<1>13. Undisturbed(w)
  BY <1>4, <1>7, <1>8, <1>10, <1>12, AllKept
<1>14. \A y \in TxIds : Paying(d, y) /\ d.tx[y].kind = "expense" => KeptCounting(d, w, y)
  BY <1>5, <1>7, GoneIsGone DEF KeptRow, KeptCounting
<1>15. Settles(d) => Settles(w)
  BY <1>1, <1>7, <1>9, <1>10, <1>14, SettlesKept
<1> QED
  BY <1>13, <1>15 DEF e, w

(* A group goes as a whole, and with it the redemption it is the trace of.  *)
LEMMA GroupClosed ==
  ASSUME NEW d \in Tables, Groups(d), NEW x \in RowIds(d)
  PROVE  LET S == GroupOf(d, x)  t == TraceOf(d, x) IN
         /\ S \subseteq RowIds(d) /\ x \in S /\ t \in S
         /\ \A y \in TxIds : d.tx[y].group # None /\ d.tx[y].group \in S => y \in S
         /\ \A u \in TxIds : d.tx[u].group \in {None, u} =>
              \A f \in RedemptionOf(d, u) : f \in S <=> u = t
<1> DEFINE S == GroupOf(d, x)  t == TraceOf(d, x)  g == d.tx[x].group
<1>1. x \in TxIds /\ g \in TxIds \cup {None} /\ None \notin TxIds
  BY TablesOf, IdsAreNat DEF RowIds, TxRow
<1>2. /\ g = None => S = {x} /\ t = x
      /\ g # None => /\ t = g /\ g \in RowIds(d) /\ d.tx[g].group = g
                     /\ S = {y \in RowIds(d) : d.tx[y].group = g}
  BY <1>1 DEF GroupOf, TraceOf, Groups
<1> HIDE DEF S, t, g
<1>3. S \subseteq RowIds(d) /\ x \in S /\ t \in S
  BY <1>2 DEF g
<1>4. \A y \in TxIds : d.tx[y].group # None /\ d.tx[y].group \in S => y \in S
  <2> SUFFICES ASSUME NEW y \in TxIds, d.tx[y].group # None, d.tx[y].group \in S
               PROVE  y \in S
    OBVIOUS
  <2>1. /\ y \in RowIds(d) /\ d.tx[d.tx[y].group].group = d.tx[y].group
    BY DEF Groups
  <2>2. CASE g = None
    BY <1>2, <2>1, <2>2 DEF g
  <2>3. CASE g # None
    BY <1>2, <2>1, <2>3
  <2> QED
    BY <2>2, <2>3
<1>5. ASSUME NEW u \in TxIds, d.tx[u].group \in {None, u}, NEW f \in RedemptionOf(d, u)
      PROVE  f \in S <=> u = t
  <2>1. f \in RowIds(d) /\ f \in TxIds /\ (f = u \/ d.tx[f].group = u)
    BY DEF RedemptionOf, RowIds
  <2>2. ASSUME f \in S PROVE u = t
    <3>1. CASE g = None
      BY <1>1, <1>2, <2>1, <2>2, <3>1 DEF g
    <3>2. CASE g # None
      BY <1>1, <1>2, <1>5, <2>1, <2>2, <3>2
    <3> QED
      BY <3>1, <3>2
  <2>3. ASSUME u = t PROVE f \in S
    BY <1>1, <1>3, <1>4, <2>1, <2>3
  <2> QED
    BY <2>2, <2>3
<1> QED
  BY <1>3, <1>4, <1>5 DEF S, t

LEMMA DeletionUndisturbed ==
  ASSUME NEW d, LedgerSound(d), Undisturbed(d), NEW rq \in Deletions, Passes(rq, d)
  PROVE  LET w == Settled(Result(rq, d, d)) IN
         Undisturbed(w) /\ (Settles(d) /\ ~TakesPayment(rq, d) => Settles(w))
<1> DEFINE e == Result(rq, d, d)  w == Settled(e)  x == rq.x
           S == GroupOf(d, x)  t == TraceOf(d, x)  back == Standing(d, t)
<1>1. d \in Tables /\ Since(d, d) /\ Groups(d) /\ Traces(d) /\ Explained(d)
  BY SinceItself DEF LedgerSound, Undisturbed
<1>2. e = Deleted(rq, d) /\ CanDelete(rq, d) /\ rq.op = "delete"
  BY DeletionsMean
<1>3. Moves(rq, d, e, d)
  BY <1>1, DeletionMoves
<1> HIDE DEF e
<1>4. e \in Tables /\ LedgerSound(w) /\ Since(d, w) /\ w.obs = e.obs
  BY <1>3, OwnCommit
<1>5. /\ e.ob = d.ob /\ Removes(d.tx, e.tx, S)
      /\ back = {} => e.obs = d.obs
      /\ back # {} => \E n \in back : Restores(d.obs, e.obs, n)
  BY <1>1, <1>2, DeletedShape
<1>6. x \in RowIds(d)
  BY <1>2 DEF CanDelete
<1>7. /\ S \subseteq RowIds(d) /\ x \in S /\ t \in S
      /\ \A y \in TxIds : d.tx[y].group # None /\ d.tx[y].group \in S => y \in S
      /\ \A u \in TxIds : d.tx[u].group \in {None, u} =>
              \A f \in RedemptionOf(d, u) : f \in S <=> u = t
  <2> HIDE DEF x
  <2> QED
    BY <1>1, <1>6, GroupClosed
<1>8. \A n \in back : n \in ObsIds /\ d.obs[n].trace = t /\ ~d.obs[n].invalid
  BY DEF Standing
<1>9. \A n \in ObsIds : d.obs[n].trace = t /\ ~d.obs[n].invalid => n \in back
  BY DEF Standing
<1>10. ~TakesPayment(rq, d) => \A y \in S : ~Paying(d, y)
  BY <1>2 DEF TakesPayment
<1>11. \A n \in ObsIds : d.obs[n].trace \in TxIds \cup {None}
  BY <1>1, TablesOf DEF ObsRow
<1> HIDE DEF S, t, back, x
<1>12. /\ Carried(d, w) /\ Groups(w)
       /\ \A y \in S \cap TxIds : w.tx[y] = Gone
       /\ \A y \in TxIds \ S : d.tx[y].kind \in {"expense", "transfer"} =>
              KeptRow(d, w, y) /\ w.tx[y].counts = d.tx[y].counts
  <2>1. \A y \in S \cap TxIds : d.tx[y].kind # "unused"
    BY <1>7 DEF RowIds
  <2>2. \A y \in TxIds \ S : d.tx[y].group \notin S \/ d.tx[y].group = None
    BY <1>7
  <2> QED
    BY <1>1, <1>4, <1>5, <2>1, <2>2, Removal
<1>13. w \in Tables
  BY <1>4 DEF LedgerSound
<1>14. \A o \in Obligations : CarriedOb(d, w, o) /\ w.ob[o].status = d.ob[o].status
  BY <1>1, <1>4, <1>5, CarriedObOf
<1> HIDE DEF w
<1>15. StandingKept(d, w)
  <2> SUFFICES ASSUME NEW n \in ObsIds, d.obs[n].trace # None, ~w.obs[n].invalid,
                      NEW f \in RedemptionOf(d, d.obs[n].trace), w.tx[f] = Gone
               PROVE  FALSE
    BY DEF StandingKept
  <2> DEFINE u == d.obs[n].trace
  <2>1. f \in TxIds /\ d.tx[f].kind = "transfer" /\ w.tx[f].kind = "gone"
    BY GoneIsGone DEF RedemptionOf, RowIds
  <2>2. f \in S
    BY <1>12, <2>1 DEF KeptRow
  <2>3. u \in TxIds /\ d.tx[u].group \in {None, u}
    BY <1>1, <1>11 DEF Traces
  <2> HIDE DEF u
  <2>4. f \in RedemptionOf(d, u)
    BY DEF u
  <2>5. u = t
    BY <1>7, <2>2, <2>3, <2>4
  <2>6. ~d.obs[n].invalid
    BY <1>4 DEF Since
  <2>7. n \in back
    BY <1>9, <2>5, <2>6 DEF u
  <2>8. PICK m \in back : Restores(d.obs, e.obs, m)
    BY <1>5, <2>7
  <2>9. m \in ObsIds /\ d.obs[m].trace = d.obs[n].trace
    BY <1>8, <2>7, <2>8
  <2>10. m = n
    BY <1>1, <2>9 DEF Traces
  <2>11. e.obs[n] = Voided(d.obs[n])
    BY <2>8, <2>10 DEF Restores, Voided
  <2>12. d.obs[n] \in ObsRow
    BY <1>1, TablesOf
  <2>13. e.obs[n].invalid
    BY <2>11, <2>12 DEF Voided, ObsRow
  <2> QED
    BY <1>4, <2>13
<1>16. NewTraces(d, w)
  <2> SUFFICES ASSUME NEW k \in ObsIds, ~d.obs[k].used PROVE w.obs[k].trace = None
    BY NoNewTraces
  <2>1. d.obs[k].trace = None
    BY DEF LedgerSound, NoObs
  <2>2. w.obs[k].trace = d.obs[k].trace
    <3>1. CASE back = {}
      BY <1>4, <1>5, <3>1
    <3>2. CASE back # {}
      <4>1. PICK n \in back : Restores(d.obs, e.obs, n)
        BY <1>5, <3>2
      <4>2. d.obs \in [ObsIds -> ObsRow] /\ n \in ObsIds
        BY <1>1, <1>8, <4>1, TablesOf
      <4>3. \A j \in ObsIds : e.obs[j].trace = d.obs[j].trace
        BY <4>1, <4>2, RestoredTraces
      <4> QED
        BY <1>4, <4>3
    <3> QED
      BY <3>1, <3>2
  <2> QED
    BY <2>1, <2>2
<1>17. Explained(w)
  <2>1. CASE back = {}
    <3>1. w.obs = d.obs
      BY <1>4, <1>5, <2>1
    <3> QED
      BY <1>1, <1>12, <1>13, <1>15, <3>1, ExplainedKept
  <2>2. CASE back # {}
    <3>1. PICK n \in back : Restores(d.obs, e.obs, n)
      BY <1>5, <2>2
    <3>2. n \in ObsIds /\ d.obs[n].trace = t /\ Restores(d.obs, w.obs, n)
      BY <1>4, <1>8, <3>1
    <3>3. t \in TxIds /\ d.tx[t].kind # "unused" /\ t # None
      BY <1>7, IdsAreNat DEF RowIds
    <3>4. d.tx[t].group \in {None, t}
      BY <1>1, <3>2, <3>3 DEF Traces
    <3>5. RedemptionOf(w, t) = {}
      <4> SUFFICES ASSUME NEW f \in RedemptionOf(w, t) PROVE FALSE
        OBVIOUS
      <4>1. f \in RedemptionOf(d, t)
        BY <1>1, <1>12, <1>13, <3>3, RedemptionsCarried
      <4>2. f \in S /\ f \in TxIds
        BY <1>7, <3>3, <3>4, <4>1 DEF RedemptionOf, RowIds
      <4>3. w.tx[f] = Gone
        BY <1>12, <4>2
      <4> QED
        BY <4>3, GoneIsGone DEF RedemptionOf, RowIds
    <3>6. d.obs[n].trace # None /\ RedemptionOf(w, d.obs[n].trace) = {}
      BY <3>2, <3>3, <3>5
    <3> QED
      BY <1>1, <1>12, <1>13, <1>15, <3>2, <3>6, ExplainedRestores
  <2> QED
    BY <2>1, <2>2
<1>18. Undisturbed(w)
  BY <1>4, <1>12, <1>14, <1>15, <1>16, <1>17, AllKept
<1>19. ASSUME ~TakesPayment(rq, d), Settles(d) PROVE Settles(w)
  <2>1. \A y \in TxIds : Paying(d, y) /\ d.tx[y].kind = "expense" => KeptCounting(d, w, y)
    BY <1>10, <1>12, <1>19, GoneIsGone DEF KeptRow, KeptCounting
  <2> QED
    BY <1>1, <1>12, <1>13, <1>14, <1>19, <2>1, SettlesKept
<1> QED
  BY <1>18, <1>19 DEF e, w

LEMMA ReversalUndisturbed ==
  ASSUME NEW d, LedgerSound(d), Undisturbed(d), NEW rq \in Reversals, Passes(rq, d)
  PROVE  LET w == Settled(Result(rq, d, d)) IN Undisturbed(w) /\ (Settles(d) => Settles(w))
<1> DEFINE e == Result(rq, d, d)  w == Settled(e)  a == rq.o  ob == d.ob[a]
           S == (IF ob.created THEN {ob.paidTx} ELSE {})
                  \cup (IF ob.privilege THEN {ob.fundTx} ELSE {})
           f == ob.fundTx  g == ob.fundObs  x == ob.paidTx
<1>1. /\ d \in Tables /\ Since(d, d) /\ Groups(d) /\ Traces(d) /\ Explained(d)
      /\ Funded(d) /\ PaidOnce(d)
  BY SinceItself DEF LedgerSound, Undisturbed
<1>2. e = Unpayed(rq, d) /\ CanUnpay(rq, d)
  BY ReversalsMean
<1>3. Moves(rq, d, e, d)
  BY <1>1, ReversalMoves
<1> HIDE DEF e
<1>4. e \in Tables /\ LedgerSound(w) /\ Since(d, w) /\ w.obs = e.obs
  BY <1>3, OwnCommit
<1>5. /\ Removes(d.tx, e.tx, S) /\ a \in Obligations
      /\ e.ob[a] = Unpaid /\ \A p \in Obligations \ {a} : e.ob[p] = d.ob[p]
      /\ IF ob.privilege /\ g # None THEN Restores(d.obs, e.obs, g) ELSE e.obs = d.obs
  BY <1>1, <1>2, UnpayedShape
<1>6. ob \in ObRow /\ None \notin TxIds /\ None \notin ObsIds
  BY <1>1, <1>5, TablesOf, IdsAreNat
<1>7. ob.privilege /\ g # None => ~d.obs[g].invalid
  BY <1>2 DEF CanUnpay, CanRestore
<1>8. FundedAt(d, a)
  BY <1>1, <1>5 DEF Funded
<1>9. /\ f \in TxIds \cup {None} /\ g \in ObsIds \cup {None} /\ x \in TxIds \cup {None}
      /\ ob.created \in BOOLEAN /\ ob.privilege \in BOOLEAN
  BY <1>6 DEF ObRow
<1>10. /\ f # None => /\ d.tx[f].kind = "transfer" /\ d.tx[f].group = None
                      /\ g # None /\ d.obs[g].trace = f
       /\ ob.privilege => g # None /\ ~d.obs[g].invalid /\ f # None
       /\ ob.created /\ x # None => d.tx[x].kind = "expense" /\ d.tx[x].group = None
  BY <1>7, <1>8 DEF FundedAt
<1>11. \A y \in S : (ob.created /\ y = x) \/ (ob.privilege /\ y = f)
  BY <1>9
<1>12. (ob.created => x \in S) /\ (ob.privilege => f \in S)
  OBVIOUS
<1>13. ob.status = "paid"
  BY <1>2 DEF CanUnpay
<1> HIDE DEF S
<1>14. /\ Carried(d, w) /\ Groups(w)
       /\ \A y \in S \cap TxIds : w.tx[y] = Gone
       /\ \A y \in TxIds \ S : d.tx[y].kind \in {"expense", "transfer"} =>
              KeptRow(d, w, y) /\ w.tx[y].counts = d.tx[y].counts
  <2>1. \A y \in S \cap TxIds : d.tx[y].kind # "unused" /\ d.tx[y].group = None
    BY <1>6, <1>10, <1>11
  <2>2. ASSUME NEW y \in TxIds \ S, d.tx[y].group \in S, d.tx[y].group # None PROVE FALSE
    <3>1. d.tx[y].group \in TxIds /\ d.tx[d.tx[y].group].group = d.tx[y].group
      BY <2>2 DEF Groups, RowIds, Undisturbed
    <3> QED
      BY <2>1, <2>2, <3>1
  <2>3. \A y \in TxIds \ S : d.tx[y].group \notin S \/ d.tx[y].group = None
    BY <2>2
  <2>4. \A y \in S \cap TxIds : d.tx[y].kind # "unused"
    BY <2>1
  <2> QED
    BY <1>1, <1>4, <1>5, <2>3, <2>4, Removal
<1>15. w \in Tables
  BY <1>4 DEF LedgerSound
<1>16. \A o \in Obligations \ {a} : CarriedOb(d, w, o) /\ w.ob[o].status = d.ob[o].status
  BY <1>1, <1>4, <1>5, CarriedObOf
<1>17. /\ w.ob[a].status = "pending" /\ w.ob[a].paidTx = None /\ w.ob[a].fundTx = None
       /\ w.ob[a].fundObs = None /\ ~w.ob[a].created /\ ~w.ob[a].privilege
  <2>1. /\ w.ob[a].status = e.ob[a].status /\ w.ob[a].created = e.ob[a].created
        /\ w.ob[a].privilege = e.ob[a].privilege /\ w.ob[a].fundObs = e.ob[a].fundObs
        /\ w.ob[a].paidTx \in {None, e.ob[a].paidTx} /\ w.ob[a].fundTx \in {None, e.ob[a].fundTx}
    BY <1>4, <1>5, SettledIs
  <2> QED
    BY <1>5, <2>1 DEF Unpaid
<1> HIDE DEF w, a
<1>18. StandingKept(d, w)
  <2> SUFFICES ASSUME NEW n \in ObsIds, d.obs[n].trace # None, ~w.obs[n].invalid,
                      NEW y \in RedemptionOf(d, d.obs[n].trace), w.tx[y] = Gone
               PROVE  FALSE
    BY DEF StandingKept
  <2>1. /\ y \in TxIds /\ d.tx[y].kind = "transfer" /\ w.tx[y].kind = "gone"
        /\ y = d.obs[n].trace \/ d.tx[y].group = d.obs[n].trace
    BY GoneIsGone DEF RedemptionOf, RowIds
  <2>2. y \in S
    BY <1>14, <2>1 DEF KeptRow
  <2>3. ob.privilege /\ y = f
    BY <1>6, <1>10, <1>11, <2>1, <2>2
  <2>4. g \in ObsIds /\ d.obs[g].trace = d.obs[n].trace
    BY <1>9, <1>10, <2>1, <2>3
  <2>5. g = n
    BY <1>1, <2>1, <2>4 DEF Traces
  <2>6. e.obs[n] = Voided(d.obs[n])
    BY <1>5, <1>10, <2>3, <2>5 DEF Restores, Voided
  <2>7. d.obs[n] \in ObsRow
    BY <1>1, TablesOf
  <2>8. e.obs[n].invalid
    BY <2>6, <2>7 DEF Voided, ObsRow
  <2> QED
    BY <1>4, <2>8
<1>19. NewTraces(d, w)
  <2> SUFFICES ASSUME NEW k \in ObsIds, ~d.obs[k].used PROVE w.obs[k].trace = None
    BY NoNewTraces
  <2>1. d.obs[k].trace = None
    BY DEF LedgerSound, NoObs
  <2>2. w.obs[k].trace = d.obs[k].trace
    <3>1. CASE ~(ob.privilege /\ g # None)
      BY <1>4, <1>5, <3>1
    <3>2. CASE ob.privilege /\ g # None
      <4>1. g \in ObsIds /\ Restores(d.obs, e.obs, g) /\ d.obs \in [ObsIds -> ObsRow]
        BY <1>1, <1>5, <1>9, <3>2, TablesOf
      <4> HIDE DEF g
      <4>2. \A j \in ObsIds : e.obs[j].trace = d.obs[j].trace
        BY <4>1, RestoredTraces
      <4> QED
        BY <1>4, <4>2
    <3> QED
      BY <3>1, <3>2
  <2> QED
    BY <2>1, <2>2
<1>20. Explained(w)
  <2>1. CASE ~(ob.privilege /\ g # None)
    <3>1. w.obs = d.obs
      BY <1>4, <1>5, <2>1
    <3> QED
      BY <1>1, <1>14, <1>15, <1>18, <3>1, ExplainedKept
  <2>2. CASE ob.privilege /\ g # None
    <3>1. /\ g \in ObsIds /\ Restores(d.obs, w.obs, g) /\ d.obs[g].trace = f
          /\ f \in TxIds /\ f # None /\ d.tx[f].kind = "transfer" /\ d.tx[f].group = None
          /\ f \in S
      BY <1>4, <1>5, <1>9, <1>10, <1>12, <2>2
    <3> HIDE DEF g, f
    <3>2. RedemptionOf(w, f) = {}
      <4> SUFFICES ASSUME NEW y \in RedemptionOf(w, f) PROVE FALSE
        OBVIOUS
      <4>1. y \in RedemptionOf(d, f)
        BY <1>1, <1>14, <1>15, <3>1, RedemptionsCarried
      <4>2. y = f
        BY <1>1, <3>1, <4>1 DEF RedemptionOf, Groups, RowIds
      <4>3. w.tx[y] = Gone
        BY <1>14, <3>1, <4>2
      <4> QED
        BY <4>3, GoneIsGone DEF RedemptionOf, RowIds
    <3>3. d.obs[g].trace # None /\ RedemptionOf(w, d.obs[g].trace) = {}
      BY <3>1, <3>2
    <3> QED
      BY <1>1, <1>14, <1>15, <1>18, <3>1, <3>3, ExplainedRestores
  <2> QED
    BY <2>1, <2>2
<1>21. Undisturbed(w)
  <2>1. Traces(w)
    BY <1>1, <1>4, <1>14, <1>19, TracesCarried
  <2>2. FundedAt(w, a)
    BY <1>17 DEF FundedAt
  <2>3. Funded(w) /\ PaidOnce(w)
    BY <1>1, <1>4, <1>5, <1>14, <1>16, <1>17, <1>18, <2>2, OneActed
  <2> QED
    BY <1>14, <1>20, <2>1, <2>3 DEF Undisturbed
<1>22. ASSUME Settles(d) PROVE Settles(w)
  <2> SUFFICES ASSUME NEW o \in Obligations PROVE SettlesAt(w, o)
    BY DEF Settles, SettlesAt
  <2>1. CASE o = a
    BY <1>17, <2>1 DEF SettlesAt
  <2>2. CASE o # a
    <3> DEFINE y == d.ob[o].paidTx
    <3>1. SettlesAt(d, o)
      BY <1>22 DEF Settles, SettlesAt
    <3>2. d.ob[o].status = "paid" => KeptCounting(d, w, y)
      <4> SUFFICES ASSUME d.ob[o].status = "paid" PROVE KeptCounting(d, w, y)
        OBVIOUS
      <4>1. y # None /\ y \in TxIds /\ d.tx[y].kind = "expense"
        BY <1>1, <3>1, TablesOf DEF SettlesAt, Eligible, ObRow
      <4>2. y # x
        BY <1>1, <1>5, <2>2, <4>1 DEF PaidOnce
      <4>3. y \notin S
        BY <1>6, <1>9, <1>10, <1>11, <4>1, <4>2
      <4> QED
        BY <1>14, <4>1, <4>3, GoneIsGone DEF KeptRow, KeptCounting
    <3>3. CarriedOb(d, w, o) /\ w.ob[o].status = d.ob[o].status
      BY <1>16, <2>2
    <3> QED
      BY <1>1, <1>14, <1>15, <3>1, <3>2, <3>3, SettlesCarried
  <2> QED
    BY <2>1, <2>2
<1> QED
  BY <1>21, <1>22 DEF e, w

LEMMA PaymentUndisturbed ==
  ASSUME NEW d, LedgerSound(d), Undisturbed(d), NEW rq \in Payments, Passes(rq, d),
         Completes(rq, d, d)
  PROVE  LET w == Settled(Result(rq, d, d)) IN Undisturbed(w) /\ (Settles(d) => Settles(w))
<1> DEFINE e == Result(rq, d, d)  w == Settled(e)  a == rq.o  C == NewlyBooked(rq, d)
           x == PaidWith(rq, d)  f == FundedWith(rq, d)  c == Latest(d)  n == FreshObs(d)
           due == AmountDue[a]  fund == rq.fund  new == rq.x = None
<1>1. /\ d \in Tables /\ Since(d, d) /\ Groups(d) /\ Traces(d) /\ Explained(d)
      /\ Funded(d) /\ PaidOnce(d)
  BY SinceItself DEF LedgerSound, Undisturbed
<1>2. e = Paid(rq, d, d) /\ CanPay(rq, d) /\ CanSettle(rq, d, d)
  BY PaymentsMean
<1>3. Moves(rq, d, e, d)
  BY <1>1, PaymentMoves
<1> HIDE DEF e
<1>4. e \in Tables /\ LedgerSound(w) /\ Since(d, w) /\ w.obs = e.obs
  BY <1>3, OwnCommit
<1>5. ~new => /\ rq.x \in RowIds(d) /\ Eligible(d, rq.x, a) /\ ~Taken(d, rq.x, a)
              /\ rq.x \in TxIds /\ d.tx[rq.x].kind # "unused"
  BY <1>2 DEF CanPay, RowIds
<1>6. /\ Adds(d.tx, e.tx, d, C)
      /\ a \in Obligations /\ e.ob[a] = PaidRow(rq, d)
      /\ \A p \in Obligations \ {a} : e.ob[p] = d.ob[p]
      /\ x \in TxIds
      /\ new => /\ d.tx[x].kind = "unused" /\ e.tx[x].kind = "expense"
                /\ e.tx[x].amount = due /\ e.tx[x].group = None /\ e.tx[x].counts
      /\ IF fund
         THEN /\ f \in TxIds /\ f # x /\ d.tx[f].kind = "unused"
              /\ e.tx[f].kind = "transfer" /\ e.tx[f].group = None /\ e.tx[f].amount = due
              /\ Spends(d.obs, e.obs, d, d, c, n, due, f)
         ELSE e.obs = d.obs
  <2>1. Seen(rq, d, d) = d
    BY DEF Seen
  <2> QED
    BY <1>1, <1>2, <1>5, <2>1, PaidShape
<1>7. /\ new => x \in C
      /\ fund => f \in C
      /\ \A y \in C : (new /\ y = x) \/ (fund /\ y = f)
      /\ ~new => x = rq.x
  BY DEF NewlyBooked, PaidWith, FundedWith, NextTwo, NextTx
<1>8. due \in Nat /\ fund \in BOOLEAN /\ None \notin TxIds /\ None \notin ObsIds
  BY <1>6, DueType, NatBounds, IdsAreNat DEF Payments
<1>9. /\ e.ob[a].status = "paid" /\ e.ob[a].paidTx = x /\ e.ob[a].created = new
      /\ e.ob[a].privilege = fund
      /\ e.ob[a].fundTx = (IF fund THEN f ELSE None)
      /\ e.ob[a].fundObs = (IF fund THEN n ELSE None)
  BY <1>6 DEF PaidRow
<1> HIDE DEF C, x, f, c, n, due, fund, new, a
<1>10. C \subseteq TxIds /\ \A y \in C : d.tx[y].kind = "unused" /\ e.tx[y].group = None
  BY <1>6, <1>7 DEF Adds
<1>11. /\ Carried(d, w) /\ Groups(w) /\ StandingKept(d, w)
       /\ \A y \in C : /\ w.tx[y].kind = e.tx[y].kind /\ w.tx[y].amount = e.tx[y].amount
                       /\ w.tx[y].group = e.tx[y].group /\ w.tx[y].counts = e.tx[y].counts
       /\ \A y \in TxIds \ C : d.tx[y].kind \in {"expense", "transfer"} =>
              KeptRow(d, w, y) /\ w.tx[y].counts = d.tx[y].counts
  BY <1>1, <1>4, <1>6, <1>10, Growth, SMTT(30)
<1>12. w \in Tables
  BY <1>4 DEF LedgerSound
<1>13. \A o \in Obligations \ {a} : CarriedOb(d, w, o) /\ w.ob[o].status = d.ob[o].status
  BY <1>1, <1>4, <1>6, CarriedObOf
<1>14. ~new => /\ x \notin C /\ Eligible(d, x, a)
               /\ \A o \in Obligations \ {a} : d.ob[o].paidTx # x
  BY <1>5, <1>7, <1>10 DEF Taken, PaidBy
<1>15. w.tx[x].kind = "expense" /\ w.tx[x].amount = due /\ w.tx[x].counts
  <2>1. CASE new
    BY <1>6, <1>7, <1>11, <2>1
  <2>2. CASE ~new
    BY <1>6, <1>11, <1>14, <2>2 DEF Eligible, KeptRow, due
  <2> QED
    BY <2>1, <2>2
<1>16. fund => w.tx[f].kind = "transfer" /\ w.tx[f].group = None /\ w.tx[f].amount = due
  BY <1>6, <1>7, <1>11
<1>17. /\ w.ob[a].status = "paid" /\ w.ob[a].paidTx = x /\ w.ob[a].created = new
       /\ w.ob[a].privilege = fund
       /\ w.ob[a].fundTx = (IF fund THEN f ELSE None)
       /\ w.ob[a].fundObs = (IF fund THEN n ELSE None)
  <2>1. /\ w.ob[a].status = e.ob[a].status /\ w.ob[a].created = e.ob[a].created
        /\ w.ob[a].privilege = e.ob[a].privilege /\ w.ob[a].fundObs = e.ob[a].fundObs
        /\ w.ob[a].paidTx = (IF e.ob[a].paidTx # None /\ e.tx[e.ob[a].paidTx].kind = "gone"
                             THEN None ELSE e.ob[a].paidTx)
        /\ w.ob[a].fundTx = (IF e.ob[a].fundTx # None /\ e.tx[e.ob[a].fundTx].kind = "gone"
                             THEN None ELSE e.ob[a].fundTx)
        /\ \A y \in TxIds : w.tx[y].kind = e.tx[y].kind
    BY <1>4, <1>6, SettledIs
  <2>2. e.tx[x].kind = "expense" /\ (fund => e.tx[f].kind = "transfer")
    BY <1>6, <1>15, <2>1
  <2> HIDE DEF w
  <2>3. w.ob[a].paidTx = x
    BY <1>9, <2>1, <2>2
  <2>4. w.ob[a].fundTx = (IF fund THEN f ELSE None)
    BY <1>9, <2>1, <2>2
  <2> QED
    BY <1>9, <2>1, <2>3, <2>4
<1> HIDE DEF w
<1>18. fund => /\ c \in ObsIds /\ n \in ObsIds /\ f \in TxIds
               /\ Spends(d.obs, w.obs, d, d, c, n, due, f) /\ w.obs[n].trace = f
  BY <1>4, <1>6 DEF Spends, Active
<1>19. NewTraces(d, w)
  <2>1. CASE fund
    <3>1. d.tx[f].kind = "unused" /\ w.tx[f].kind # "unused" /\ w.tx[f].group \in {None, f}
      BY <1>6, <1>16, <2>1
    <3> QED
      BY <1>8, <1>18, <2>1, <3>1, SpendsNewTraces
  <2>2. CASE ~fund
    <3>1. \A k \in ObsIds : ~d.obs[k].used => w.obs[k].trace = None
      BY <1>4, <1>6, <2>2, SMTT(30) DEF LedgerSound, NoObs
    <3> QED
      BY <3>1, NoNewTraces
  <2> QED
    BY <2>1, <2>2
<1>20. Explained(w)
  <2>1. CASE fund
    <3>1. f \in RedemptionOf(w, f) /\ w.tx[f].amount = due
      BY <1>16, <1>18, <2>1 DEF RedemptionOf, RowIds
    <3> QED
      BY <1>1, <1>8, <1>11, <1>12, <1>18, <2>1, <3>1, ExplainedSpends
  <2>2. CASE ~fund
    <3>1. w.obs = d.obs
      BY <1>4, <1>6, <2>2
    <3> QED
      BY <1>1, <1>11, <1>12, <3>1, ExplainedKept
  <2> QED
    BY <2>1, <2>2
<1>21. FundedAt(w, a)
  <2>1. w.ob[a].created => w.tx[x].kind = "expense" /\ w.tx[x].group = None
    BY <1>6, <1>7, <1>11, <1>15, <1>17
  <2>2. w.ob[a].fundTx # None => /\ fund /\ w.ob[a].fundTx = f /\ w.ob[a].fundObs = n
    BY <1>17
  <2>3. w.ob[a].fundTx # None =>
          /\ w.tx[w.ob[a].fundTx].kind = "transfer" /\ w.tx[w.ob[a].fundTx].group = None
          /\ w.ob[a].fundObs # None /\ w.obs[w.ob[a].fundObs].trace = w.ob[a].fundTx
    BY <1>8, <1>16, <1>18, <2>2
  <2>4. /\ w.ob[a].privilege => w.ob[a].fundObs # None
        /\ w.ob[a].fundObs # None => w.ob[a].fundTx # None
    BY <1>8, <1>17, <1>18
  <2> QED
    BY <1>17, <2>1, <2>3, <2>4 DEF FundedAt
<1>22. \A o \in Obligations \ {a} : d.ob[o].paidTx # x
  <2>1. CASE new
    BY <1>6, <1>8, <2>1 DEF LedgerSound
  <2>2. CASE ~new
    BY <1>14, <2>2
  <2> QED
    BY <2>1, <2>2
<1>23. Undisturbed(w)
  <2>1. Traces(w)
    BY <1>1, <1>4, <1>11, <1>19, TracesCarried
  <2>2. Funded(w) /\ PaidOnce(w)
    BY <1>1, <1>4, <1>6, <1>11, <1>13, <1>17, <1>21, <1>22, OneActed
  <2> QED
    BY <1>11, <1>20, <2>1, <2>2 DEF Undisturbed
<1>24. ASSUME Settles(d) PROVE Settles(w)
  <2> SUFFICES ASSUME NEW o \in Obligations PROVE SettlesAt(w, o)
    BY DEF Settles, SettlesAt
  <2>1. CASE o = a
    BY <1>6, <1>8, <1>15, <1>17, <2>1 DEF SettlesAt, Eligible, due
  <2>2. CASE o # a
    <3> DEFINE y == d.ob[o].paidTx
    <3>1. SettlesAt(d, o)
      BY <1>24 DEF Settles, SettlesAt
    <3>2. d.ob[o].status = "paid" => KeptCounting(d, w, y)
      <4> SUFFICES ASSUME d.ob[o].status = "paid" PROVE KeptCounting(d, w, y)
        OBVIOUS
      <4>1. y # None /\ y \in TxIds /\ d.tx[y].kind = "expense"
        BY <1>1, <3>1, TablesOf DEF SettlesAt, Eligible, ObRow
      <4>2. y \notin C
        BY <1>10, <4>1
      <4> QED
        BY <1>11, <4>1, <4>2, GoneIsGone DEF KeptRow, KeptCounting
    <3>3. CarriedOb(d, w, o) /\ w.ob[o].status = d.ob[o].status
      BY <1>13, <2>2
    <3> QED
      BY <1>1, <1>11, <1>12, <3>1, <3>2, <3>3, SettlesCarried
  <2> QED
    BY <2>1, <2>2
<1> QED
  BY <1>23, <1>24 DEF e, w

LEMMA RequestUndisturbed ==
  ASSUME NEW d, LedgerSound(d), Undisturbed(d), NEW rq \in Requests, Passes(rq, d),
         Completes(rq, d, d)
  PROVE  LET w == Settled(Result(rq, d, d)) IN
         Undisturbed(w) /\ (Settles(d) /\ ~TakesPayment(rq, d) => Settles(w))
<1> DEFINE w == Settled(Result(rq, d, d))
           Kept == Undisturbed(w) /\ (Settles(d) /\ ~TakesPayment(rq, d) => Settles(w))
<1>1. CASE rq \in Creations
  BY <1>1, CreationUndisturbed
<1>2. CASE rq \in Fundings
  BY <1>2, FundingUndisturbed
<1>3. CASE rq \in Transfers
  BY <1>3, TransferUndisturbed
<1>4. CASE rq \in Updates
  BY <1>4, UpdateUndisturbed
<1>5. CASE rq \in Deletions
  BY <1>5, DeletionUndisturbed
<1>6. CASE rq \in Payments
  BY <1>6, PaymentUndisturbed
<1>7. CASE rq \in Reversals
  BY <1>7, ReversalUndisturbed
<1>8. CASE rq \in Cancellations
  BY <1>8, CancellationUndisturbed
<1>9. CASE rq \in Confirmations
  BY <1>9, ConfirmationUndisturbed
<1> QED
  BY <1>1, <1>2, <1>3, <1>4, <1>5, <1>6, <1>7, <1>8, <1>9 DEF Requests

-----------------------------------------------------------------------------
(* The tables are sound whatever overlaps; a balance is spent once unless a *)
(* redemption was given back by a request that read older rows, or a        *)
(* payment spent a balance that had changed since it was read; and what     *)
(* each row says of the others holds while no request overlapped another.   *)
(* A request under way has read tables that were sound, and checked them.   *)
LedgerInv ==
    /\ LedgerSound(db)
    /\ request # NoRequest =>
         /\ request.op = "slow" /\ request.asked \in Requests
         /\ LedgerSound(request.read) /\ Since(request.read, db)
         /\ Passes(request.asked, request.read)
    /\ odd \cap {"return", "spent"} = {} => SpentOnce(db)
    /\ "overlap" \notin odd => Undisturbed(db)
    /\ odd = {} => Settles(db)
    /\ odd \subseteq {"overlap", "return", "spent", "group"}
    /\ steps \in 0 .. MaxSteps

LEMMA LedgerStart == LgInit => LedgerInv
<1> SUFFICES ASSUME LgInit PROVE LedgerInv
  OBVIOUS
<1>1. /\ db.tx = [x \in TxIds |-> NoTx] /\ db.ob = [o \in Obligations |-> Unpaid]
      /\ db.obs = [n \in ObsIds |-> NoObs]
      /\ db = [tx |-> db.tx, ob |-> db.ob, obs |-> db.obs]
  BY DEF LgInit
<1>2. NoTx \in TxRow /\ Unpaid \in ObRow /\ NoObs \in ObsRow
  BY DEF NoTx, Unpaid, NoObs, TxRow, ObRow, ObsRow, Kinds
<1>3. db \in Tables
  BY <1>1, <1>2, TablesAre
<1>4. \A x \in TxIds : db.tx[x].kind = "unused" /\ db.tx[x].group = None
  BY <1>1 DEF NoTx
<1>5. \A n \in ObsIds : /\ db.obs[n] = NoObs /\ ~db.obs[n].used /\ db.obs[n].next = None
                        /\ db.obs[n].trace = None
  BY <1>1 DEF NoObs
<1>6. \A o \in Obligations : /\ db.ob[o].status = "pending" /\ db.ob[o].paidTx = None
                             /\ db.ob[o].fundTx = None /\ db.ob[o].fundObs = None
                             /\ ~db.ob[o].created /\ ~db.ob[o].privilege
  BY <1>1 DEF Unpaid
<1>7. LedgerSound(db)
  BY <1>3, <1>4, <1>5, <1>6 DEF LedgerSound
<1>8. SpentOnce(db)
  BY <1>5 DEF SpentOnce, Stands
<1>9. Undisturbed(db)
  BY <1>4, <1>5, <1>6 DEF Undisturbed, Groups, Traces, Explained, ExplainedAt, Funded, FundedAt,
     PaidOnce
<1>10. Settles(db)
  BY <1>6 DEF Settles
<1> QED
  BY <1>7, <1>8, <1>9, <1>10, RowBounds DEF LedgerInv, LgInit

(* A request that commits, on rows it may have read before others changed   *)
(* them.                                                                    *)
LEMMA CommitKeeps ==
  ASSUME LedgerInv, NEW rq \in Requests, NEW read, LedgerSound(read), Since(read, db),
         Passes(rq, read), Completes(rq, read, db),
         db' = Commit(read, Result(rq, read, db), db), odd' = odd \cup Happened(rq, read)
  PROVE  /\ LedgerSound(db') /\ Since(db, db')
         /\ odd' \cap {"return", "spent"} = {} => SpentOnce(db')
         /\ "overlap" \notin odd' => Undisturbed(db')
         /\ odd' = {} => Settles(db')
         /\ odd' \subseteq {"overlap", "return", "spent", "group"}
<1> DEFINE e == Result(rq, read, db)
<1>1. LedgerSound(db)
  BY DEF LedgerInv
<1>2. Moves(rq, read, e, db)
  BY <1>1, RequestMoves
<1>3. db' = Commit(read, e, db)
  OBVIOUS
<1> HIDE DEF e
<1>4. LedgerSound(db') /\ Since(db, db')
  BY <1>1, <1>2, <1>3, CommitSound
<1>5. /\ read # db => "overlap" \in odd'
      /\ read # db /\ rq.op \in {"delete", "unpay"} => "return" \in odd'
      /\ SpendsOutdated(rq, read, db) => "spent" \in odd'
      /\ TakesPayment(rq, db) => "group" \in odd'
      /\ odd \subseteq odd'
  BY DEF Happened
<1>6. ASSUME odd' \cap {"return", "spent"} = {} PROVE SpentOnce(db')
  <2>1. /\ SpentOnce(db) /\ (rq.op \in {"delete", "unpay"} => read = db)
        /\ ~SpendsOutdated(rq, read, db)
    BY <1>5, <1>6 DEF LedgerInv
  <2> QED
    BY <1>1, <1>2, <1>3, <2>1, CommitSpends
<1>7. ASSUME "overlap" \notin odd'
      PROVE  /\ Undisturbed(db) /\ db' = Settled(Result(rq, db, db))
             /\ Passes(rq, db) /\ Completes(rq, db, db)
  <2>1. read = db /\ Undisturbed(db)
    BY <1>5, <1>7 DEF LedgerInv
  <2>2. Moves(rq, db, e, db)
    BY <1>2, <2>1
  <2>3. Commit(db, e, db) = Settled(e)
    BY <1>1, <2>2, OwnCommit
  <2>4. db' = Settled(e)
    BY <1>3, <2>1, <2>3
  <2> QED
    BY <2>1, <2>4 DEF e
<1>8. ASSUME "overlap" \notin odd' PROVE Undisturbed(db')
  <2>1. Undisturbed(Settled(Result(rq, db, db)))
    BY <1>1, <1>7, <1>8, RequestUndisturbed
  <2> QED
    BY <1>7, <1>8, <2>1
<1>9. ASSUME odd' = {} PROVE Settles(db')
  <2>1. "overlap" \notin odd' /\ odd = {} /\ ~TakesPayment(rq, db)
    BY <1>5, <1>9
  <2>2. Settles(db)
    BY <2>1 DEF LedgerInv
  <2>3. Settles(Settled(Result(rq, db, db)))
    BY <1>1, <1>7, <2>1, <2>2, RequestUndisturbed
  <2> QED
    BY <1>7, <2>1, <2>3
<1>10. odd' \subseteq {"overlap", "return", "spent", "group"}
  BY DEF LedgerInv, Happened
<1> QED
  BY <1>4, <1>6, <1>8, <1>9, <1>10

LEMMA Ticks == ASSUME LedgerInv, Tick PROVE steps' \in 0 .. MaxSteps
  BY RowBounds DEF LedgerInv, Tick

LEMMA ServeKeeps == ASSUME LedgerInv, NEW rq \in Requests, Serve(rq) PROVE LedgerInv'
<1>1. LedgerSound(db) /\ Since(db, db) /\ Passes(rq, db) /\ Completes(rq, db, db)
  BY SinceItself DEF LedgerInv, Serve
<1>2. Moves(rq, db, Result(rq, db, db), db)
  BY <1>1, RequestMoves
<1>3. db' = Commit(db, Result(rq, db, db), db) /\ odd' = odd \cup Happened(rq, db)
  BY <1>1, <1>2, OwnCommit DEF Serve
<1>4. /\ LedgerSound(db') /\ Since(db, db')
      /\ odd' \cap {"return", "spent"} = {} => SpentOnce(db')
      /\ "overlap" \notin odd' => Undisturbed(db')
      /\ odd' = {} => Settles(db')
      /\ odd' \subseteq {"overlap", "return", "spent", "group"}
  BY <1>1, <1>3, CommitKeeps
<1>5. request' = request /\ steps' \in 0 .. MaxSteps
  BY Ticks DEF Serve
<1>6. request # NoRequest => Since(request.read, db')
  BY <1>4, SinceBoth DEF LedgerInv
<1> QED
  BY <1>4, <1>5, <1>6 DEF LedgerInv

LEMMA BeginKeeps == ASSUME LedgerInv, NEW rq \in Requests, Begin(rq) PROVE LedgerInv'
<1>1. /\ db' = db /\ odd' = odd /\ Passes(rq, db)
      /\ request' = [op |-> "slow", asked |-> rq, read |-> db]
  BY DEF Begin
<1>2. request'.op = "slow" /\ request'.asked = rq /\ request'.read = db
  BY <1>1
<1>3. steps' \in 0 .. MaxSteps
  BY Ticks DEF Begin
<1>4. Since(db, db)
  BY SinceItself
<1>5. /\ request'.op = "slow" /\ request'.asked \in Requests
      /\ LedgerSound(request'.read) /\ Since(request'.read, db')
      /\ Passes(request'.asked, request'.read)
  BY <1>1, <1>2, <1>4 DEF LedgerInv
<1> QED
  BY <1>1, <1>3, <1>5 DEF LedgerInv

LEMMA EndKeeps == ASSUME LedgerInv, End PROVE LedgerInv'
<1> DEFINE rq == request.asked  read == request.read
<1>1. /\ rq \in Requests /\ LedgerSound(read) /\ Since(read, db) /\ Passes(rq, read)
      /\ Completes(rq, read, db) /\ odd' = odd \cup Happened(rq, read)
      /\ db' = Commit(read, Result(rq, read, db), db)
  BY DEF LedgerInv, End, Commit
<1> HIDE DEF rq, read
<1>2. /\ LedgerSound(db') /\ Since(db, db')
      /\ odd' \cap {"return", "spent"} = {} => SpentOnce(db')
      /\ "overlap" \notin odd' => Undisturbed(db')
      /\ odd' = {} => Settles(db')
      /\ odd' \subseteq {"overlap", "return", "spent", "group"}
  BY <1>1, CommitKeeps
<1>3. request' = NoRequest /\ steps' = steps
  BY DEF End
<1> QED
  BY <1>2, <1>3 DEF LedgerInv

LEMMA LedgerStep == LedgerInv /\ [LgNext]_lgVars => LedgerInv'
<1> SUFFICES ASSUME LedgerInv, [LgNext]_lgVars PROVE LedgerInv'
  OBVIOUS
<1>1. ASSUME Create \/ FundExpense \/ MakeTransfer \/ Update \/ Delete \/ Pay \/ Unpay \/ Cancel
             \/ Confirm
      PROVE  LedgerInv'
  <2>1. \E rq \in Requests : Serve(rq)
    BY <1>1 DEF Create, FundExpense, MakeTransfer, Update, Delete, Pay, Unpay, Cancel, Confirm,
       Requests
  <2> QED
    BY <2>1, ServeKeeps
<1>2. ASSUME BeginSlow PROVE LedgerInv'
  BY <1>2, BeginKeeps DEF BeginSlow
<1>3. ASSUME End PROVE LedgerInv'
  BY <1>3, EndKeeps
<1>4. ASSUME Fail PROVE LedgerInv'
  BY <1>4 DEF Fail, LedgerInv
<1>5. ASSUME UNCHANGED lgVars PROVE LedgerInv'
  BY <1>5 DEF lgVars, LedgerInv
<1> QED
  BY <1>1, <1>2, <1>3, <1>4, <1>5 DEF LgNext

LEMMA LedgerAlways == LgSpec => []LedgerInv
  BY LedgerStart, LedgerStep, PTL DEF LgSpec

(* The tables, the request under way and what it read are of their types,   *)
(* whatever requests overlap (api.py, transfers.py).                        *)
THEOREM LedgerTypes == LgSpec => []LgTypeOK
<1>1. LedgerInv => LgTypeOK
  BY DEF LedgerInv, LgTypeOK, LedgerSound
<1> QED
  BY <1>1, LedgerAlways, PTL

(* For any number of obligations, rows and requests: a balance is spent     *)
(* once however requests overlap, unless a payment was funded from one that *)
(* had changed since it was read or an overlapping request gave one back;   *)
(* while no request overlaps another a reduced balance has the redemption   *)
(* that explains it; and a paid obligation has its transaction unless a     *)
(* redemption was deleted from under it (the obligation and funding         *)
(* endpoints of api.py).                                                    *)
THEOREM ObligationsAlwaysSettle == LgSpec => []ObligationsSettle
<1>1. LedgerInv => PaidUnlessUndercut
  BY DEF LedgerInv, PaidUnlessUndercut, PaidHasItsTransaction, Settles
<1>2. LedgerInv => BalanceSpentOnce
  BY DEF LedgerInv, BalanceSpentOnce, EveryBalanceSpentOnce, SpentOnce, Stands
<1>3. LedgerInv => BalanceHasItsRedemption
  <2> SUFFICES ASSUME LedgerInv, "overlap" \notin odd, NEW n \in ObsIds, db.obs[n].trace # None
               PROVE  /\ ~db.obs[n].invalid =>
                           /\ \E f \in Redemption(n) :
                                db.tx[f].amount + db.obs[n].amount
                                  = db.obs[db.obs[n].prev].amount
                           /\ db.obs[db.obs[n].prev].next = n
                           /\ ~db.obs[db.obs[n].prev].invalid
                      /\ db.obs[n].invalid /\ db.obs[n].next = None =>
                           Redemption(n) = {} /\ db.obs[db.obs[n].prev].next # n
    BY DEF BalanceHasItsRedemption
  <2>1. ExplainedAt(db, n)
    BY DEF LedgerInv, Undisturbed, Explained
  <2>2. Redemption(n) = RedemptionOf(db, db.obs[n].trace)
    BY DEF Redemption, RedemptionOf
  <2> QED
    BY <2>1, <2>2 DEF ExplainedAt
<1>4. LedgerInv => ObligationsSettle
  BY <1>1, <1>2, <1>3 DEF ObligationsSettle
<1> QED
  BY <1>4, LedgerAlways, PTL

-----------------------------------------------------------------------------
(* The proposals.                                                          *)
Columns == {"status", "action", "expired", "undone", "target", "paidBy"}

(* A proposal's status and whether its action was undone go together.      *)
RowSound(row) ==
    /\ DOMAIN row = Columns
    /\ row.status \in {"none", "pending", "executed", "cancelled"}
    /\ row.undone \in BOOLEAN
    /\ row.undone => row.status = "executed"

Local(r) == r = Idle \/ /\ DOMAIN r = {"op", "p", "step", "found", "read"}
                        /\ r.op \in {"confirm", "cancel", "undo"} /\ r.p \in Proposals
                        /\ r.step \in {"found", "locked"}

AsTypes ==
    /\ DOMAIN proposal = Proposals /\ \A p \in Proposals : RowSound(proposal[p])
    /\ DOMAIN session = Sessions /\ \A s \in Sessions : Local(session[s])
    /\ touches \in [Proposals -> Nat]

Locked(s) == session[s].op # "none" /\ session[s].step = "locked"

(* What a session has locked is as the session found it: open for a        *)
(* confirmation or a cancellation, executed for an undo.                   *)
LockedIsOpen ==
    \A s \in Sessions : Locked(s) =>
        LET row == proposal[session[s].p] IN
        IF session[s].op = "undo" THEN row.status = "executed" /\ ~row.undone
        ELSE row.status = "pending"
OneHolder ==
    \A s, t \in Sessions :
        /\ Locked(s) /\ Locked(t) /\ session[s].p = session[t].p
        /\ LockedRow(session[s].op) = LockedRow(session[t].op)
        => s = t

AsInv == AsTypes /\ LockedIsOpen /\ OneHolder
LEMMA AsStart == AsInit => AsInv
<1> SUFFICES ASSUME AsInit PROVE AsInv
  OBVIOUS
<1>1. RowSound(Blank)
  BY DEF RowSound, Blank, Columns
<1>2. AsTypes
  BY <1>1 DEF AsInit, AsTypes, Local
<1>3. \A s \in Sessions : ~Locked(s)
  BY DEF AsInit, Locked, Idle
<1> QED
  BY <1>2, <1>3 DEF AsInv, LockedIsOpen, OneHolder

LEMMA HandsOff == ByHand => UNCHANGED asVars
  BY DEF ByHand

(* What a session has locked of a row no other session has locked.          *)
LEMMA LockAlone ==
  ASSUME AsInv, NEW s \in Sessions, NEW t \in Sessions, s # t, Locked(s), Locked(t),
         session[s].p = session[t].p
  PROVE  LockedRow(session[s].op) # LockedRow(session[t].op)
  BY DEF AsInv, OneHolder

(* A session ends: the others keep what they locked.                        *)
Ended(s) ==
    /\ DOMAIN session' = Sessions /\ session'[s] = Idle
    /\ \A t \in Sessions \ {s} : session'[t] = session[t]
Replaced(q, r) ==
    /\ DOMAIN proposal' = Proposals /\ proposal'[q] = r
    /\ \A p \in Proposals \ {q} : proposal'[p] = proposal[p]

LEMMA SessionEnds ==
  ASSUME AsInv, NEW s \in Sessions, Ended(s),
         NEW q \in Proposals,
         \A p \in Proposals : RowSound(proposal'[p]) /\ (p # q => proposal'[p] = proposal[p]),
         DOMAIN proposal' = Proposals, touches' \in [Proposals -> Nat],
         \A t \in Sessions \ {s} : Locked(t) /\ session[t].p = q =>
             IF session[t].op = "undo"
             THEN proposal'[q].status = "executed" /\ ~proposal'[q].undone
             ELSE proposal'[q].status = "pending"
  PROVE  AsInv'
<1>1. /\ DOMAIN session' = Sessions /\ session'[s] = Idle
      /\ \A t \in Sessions \ {s} : session'[t] = session[t]
  BY DEF Ended
<1>2. AsTypes'
  <2> \A t \in Sessions : Local(session'[t])
    BY <1>1 DEF AsInv, AsTypes, Local
  <2> QED
    BY <1>1 DEF AsTypes
<1>3. \A t \in Sessions : Locked(t)' => t # s /\ Locked(t)
  BY <1>1 DEF Locked, Idle
<1>4. OneHolder'
  <2> SUFFICES ASSUME NEW t \in Sessions, NEW u \in Sessions, Locked(t)', Locked(u)',
                      session'[t].p = session'[u].p,
                      LockedRow(session'[t].op) = LockedRow(session'[u].op)
               PROVE  t = u
    BY DEF OneHolder, LockedRow
  <2>1. /\ Locked(t) /\ Locked(u)
        /\ session'[t] = session[t] /\ session'[u] = session[u]
    BY <1>1, <1>3
  <2> QED
    BY <2>1 DEF AsInv, OneHolder
<1>5. LockedIsOpen'
  <2> SUFFICES ASSUME NEW t \in Sessions, Locked(t)'
               PROVE  IF session'[t].op = "undo"
                      THEN /\ proposal'[session'[t].p].status = "executed"
                           /\ ~proposal'[session'[t].p].undone
                      ELSE proposal'[session'[t].p].status = "pending"
    BY DEF LockedIsOpen
  <2>1. t \in Sessions \ {s} /\ Locked(t) /\ session'[t] = session[t]
    BY <1>1, <1>3
  <2>2. session[t].p \in Proposals
    BY <2>1 DEF AsInv, AsTypes, Local, Locked, Idle
  <2>3. CASE session[t].p = q
    BY <2>1, <2>3
  <2>4. CASE session[t].p # q
    BY <2>1, <2>2, <2>4 DEF AsInv, LockedIsOpen
  <2> QED
    BY <2>3, <2>4
<1> QED
  BY <1>2, <1>4, <1>5 DEF AsInv

(* A row changes that keeps its status and whether it was undone, or that   *)
(* no session can have locked.                                              *)
LEMMA RowChanges ==
  ASSUME AsInv, NEW q \in Proposals, NEW r, RowSound(r),
         Replaced(q, r), UNCHANGED <<session, touches>>,
         \/ r.status = proposal[q].status /\ r.undone = proposal[q].undone
         \/ proposal[q].status = "none"
  PROVE  AsInv'
<1>1. /\ DOMAIN proposal' = Proposals /\ proposal'[q] = r
      /\ \A p \in Proposals \ {q} : proposal'[p] = proposal[p]
  BY DEF Replaced
<1>2. AsTypes'
  BY <1>1 DEF AsInv, AsTypes
<1>3. OneHolder'
  BY DEF AsInv, OneHolder, Locked
<1>4. LockedIsOpen'
  <2> SUFFICES ASSUME NEW t \in Sessions, Locked(t)
               PROVE  IF session[t].op = "undo"
                      THEN /\ proposal'[session[t].p].status = "executed"
                           /\ ~proposal'[session[t].p].undone
                      ELSE proposal'[session[t].p].status = "pending"
    BY DEF LockedIsOpen, Locked
  <2>1. session[t].p \in Proposals
    BY DEF AsInv, AsTypes, Local, Locked, Idle
  <2>2. CASE session[t].p = q
    BY <1>1, <2>2 DEF AsInv, LockedIsOpen
  <2>3. CASE session[t].p # q
    BY <1>1, <2>1, <2>3 DEF AsInv, LockedIsOpen
  <2> QED
    BY <2>2, <2>3
<1> QED
  BY <1>2, <1>3, <1>4 DEF AsInv

(* A commit of what session s has locked of a row that it still may decide. *)
LEMMA Deciding ==
  ASSUME AsInv, NEW s \in Sessions, NEW op \in {"confirm", "cancel", "undo"}, Locks(s, op)
  PROVE  /\ session[s].p \in Proposals /\ Locked(s) /\ RowSound(proposal[session[s].p])
         /\ IF op = "undo"
            THEN /\ proposal[session[s].p].status = "executed"
                 /\ ~proposal[session[s].p].undone
            ELSE proposal[session[s].p].status = "pending"
         /\ \A t \in Sessions \ {s} : Locked(t) /\ session[t].p = session[s].p =>
                ~(session[t].op = "undo" <=> op = "undo")
<1>1. Locked(s) /\ session[s].op = op
  BY DEF Locks, Locked
<1>2. session[s].p \in Proposals
  BY <1>1 DEF AsInv, AsTypes, Local, Locked, Idle
<1>3. \A t \in Sessions \ {s} : Locked(t) /\ session[t].p = session[s].p =>
                ~(session[t].op = "undo" <=> op = "undo")
  <2> SUFFICES ASSUME NEW t \in Sessions \ {s}, Locked(t), session[t].p = session[s].p,
                      session[t].op = "undo" <=> op = "undo"
               PROVE  FALSE
    OBVIOUS
  <2>1. LockedRow(session[t].op) = LockedRow(session[s].op)
    BY <1>1 DEF LockedRow
  <2> QED
    BY <1>1, <2>1, LockAlone
<1> QED
  BY <1>1, <1>2, <1>3 DEF AsInv, AsTypes, LockedIsOpen

LEMMA Decided ==
  ASSUME AsInv, NEW s \in Sessions, NEW op \in {"confirm", "cancel", "undo"}, Locks(s, op),
         Ended(s), touches' \in [Proposals -> Nat],
         NEW r, RowSound(r), Replaced(session[s].p, r),
         IF op = "undo" THEN r.status = "executed" ELSE ~r.undone
  PROVE  AsInv'
<1>0. PICK q \in Proposals : q = session[s].p
  BY Deciding
<1>1. /\ q \in Proposals
      /\ IF op = "undo" THEN proposal[q].status = "executed" ELSE proposal[q].status = "pending"
      /\ \A t \in Sessions \ {s} : Locked(t) /\ session[t].p = q =>
                ~(session[t].op = "undo" <=> op = "undo")
  BY <1>0, Deciding
<1>2. \A t \in Sessions \ {s} : ~(Locked(t) /\ session[t].p = q)
  <2> SUFFICES ASSUME NEW t \in Sessions \ {s}, Locked(t), session[t].p = q PROVE FALSE
    OBVIOUS
  <2>1. IF session[t].op = "undo" THEN proposal[q].status = "executed"
        ELSE proposal[q].status = "pending"
    BY DEF AsInv, LockedIsOpen
  <2> QED
    BY <1>1, <2>1
<1>3. DOMAIN proposal' = Proposals
  BY <1>0 DEF Replaced
<1>5. \A p \in Proposals : RowSound(proposal'[p]) /\ (p # q => proposal'[p] = proposal[p])
  BY <1>0 DEF AsInv, AsTypes, Replaced
<1>4. \A t \in Sessions \ {s} : Locked(t) /\ session[t].p = q =>
          IF session[t].op = "undo"
          THEN proposal'[q].status = "executed" /\ ~proposal'[q].undone
          ELSE proposal'[q].status = "pending"
  BY <1>2
<1> QED
  BY <1>3, <1>4, <1>5, SessionEnds

LEMMA Locking ==
  ASSUME AsInv, NEW s \in Sessions, LockRow(s)
  PROVE  AsInv'
<1> DEFINE op == session[s].op
           q == session[s].p
           r == [session[s] EXCEPT !.step = "locked", !.found = Reread(s), !.read = db]
<1>1. UNCHANGED <<proposal, touches>> /\ op # "none" /\ ~Busy(q, op)
  BY DEF LockRow
<1>2. session' = [session EXCEPT ![s] = r]
  <2>1. session' = [session EXCEPT ![s].step = "locked", ![s].found = Reread(s),
                                   ![s].read = db]
    BY DEF LockRow
  <2>2. DOMAIN session = Sessions
    BY DEF AsInv, AsTypes
  <2> QED
    BY <2>1, <2>2
<1>3. /\ DOMAIN session[s] = {"op", "p", "step", "found", "read"}
      /\ op \in {"confirm", "cancel", "undo"} /\ q \in Proposals
  BY <1>1 DEF AsInv, AsTypes, Local, Idle
<1>4. Local(r) /\ r.op = op /\ r.p = q
  BY <1>3 DEF Local
<1>5. IF op = "undo" THEN proposal[q].status = "executed" /\ ~proposal[q].undone
      ELSE proposal[q].status = "pending"
  <2>1. StillOpen(op, proposal[q])
    BY DEF LockRow, Reread
  <2> HIDE DEF op, q
  <2>2. CASE op = "confirm"
    BY <2>1, <2>2 DEF StillOpen
  <2>3. CASE op = "cancel"
    BY <2>1, <2>3 DEF StillOpen
  <2>4. CASE op = "undo"
    BY <2>1, <2>4 DEF StillOpen
  <2> QED
    BY <1>3, <2>2, <2>3, <2>4
<1>6. \A t \in Sessions : Locked(t) /\ session[t].p = q => LockedRow(session[t].op) # LockedRow(op)
  <2> SUFFICES ASSUME NEW t \in Sessions, Locked(t), session[t].p = q,
                      LockedRow(session[t].op) = LockedRow(op)
               PROVE  FALSE
    OBVIOUS
  <2>1. session[t].op \in {"confirm", "cancel", "undo"} /\ Locks(t, session[t].op)
    BY DEF AsInv, AsTypes, Local, Locked, Locks, Idle
  <2> QED
    BY <1>1, <2>1 DEF Busy
<1> HIDE DEF r, op, q
<1>7. /\ DOMAIN session' = Sessions /\ session'[s] = r
      /\ \A t \in Sessions \ {s} : session'[t] = session[t]
  BY <1>2 DEF AsInv, AsTypes
<1>8. AsTypes'
  BY <1>1, <1>4, <1>7 DEF AsInv, AsTypes
<1>9. LockedIsOpen'
  <2> SUFFICES ASSUME NEW t \in Sessions, Locked(t)'
               PROVE  IF session'[t].op = "undo"
                      THEN /\ proposal'[session'[t].p].status = "executed"
                           /\ ~proposal'[session'[t].p].undone
                      ELSE proposal'[session'[t].p].status = "pending"
    BY DEF LockedIsOpen
  <2>1. CASE t = s
    BY <1>1, <1>4, <1>5, <1>7, <2>1
  <2>2. CASE t # s
    BY <1>1, <1>7, <2>2 DEF AsInv, LockedIsOpen, Locked
  <2> QED
    BY <2>1, <2>2
<1>10. OneHolder'
  <2> SUFFICES ASSUME NEW t \in Sessions, NEW u \in Sessions, Locked(t)', Locked(u)',
                      session'[t].p = session'[u].p,
                      LockedRow(session'[t].op) = LockedRow(session'[u].op), t # u
               PROVE  FALSE
    BY DEF OneHolder, LockedRow
  <2>1. CASE t # s /\ u # s
    BY <1>7, <2>1 DEF AsInv, OneHolder, Locked
  <2>2. CASE t = s
    <3> u # s /\ session'[u] = session[u] /\ Locked(u)
      BY <1>7, <2>2 DEF Locked
    <3> QED
      BY <1>4, <1>6, <1>7, <2>2
  <2>3. CASE u = s
    <3> t # s /\ session'[t] = session[t] /\ Locked(t)
      BY <1>7, <2>3 DEF Locked
    <3> QED
      BY <1>4, <1>6, <1>7, <2>3
  <2> QED
    BY <2>1, <2>2, <2>3
<1> QED
  BY <1>8, <1>9, <1>10 DEF AsInv

(* The row, the trail and the books of a decision.                          *)
LEMMA Cancelling ==
  ASSUME AsInv, NEW s \in Sessions, CancelCommit(s)
  PROVE  \E r : /\ RowSound(r) /\ Replaced(session[s].p, r) /\ ~r.undone /\ r.status = "cancelled"
                /\ Ended(s) /\ touches' = touches /\ Locks(s, "cancel")
<1>1. PICK q \in Proposals : q = session[s].p /\ RowSound(proposal[q])
  BY Deciding DEF CancelCommit
<1> DEFINE r == [proposal[q] EXCEPT !.status = "cancelled"]
<1>2. proposal[q].status = "pending"
  BY <1>1, Deciding DEF CancelCommit
<1>3. RowSound(r) /\ ~r.undone /\ r.status = "cancelled"
  BY <1>1, <1>2 DEF RowSound, Columns
<1>4. Replaced(q, r)
  BY <1>1 DEF CancelCommit, AsInv, AsTypes, Replaced
<1>5. Ended(s)
  BY DEF CancelCommit, AsInv, AsTypes, Ended
<1>6. touches' = touches /\ Locks(s, "cancel")
  BY DEF CancelCommit
<1> HIDE DEF r
<1> QED
  BY <1>1, <1>3, <1>4, <1>5, <1>6

Counted(q) == touches' = [touches EXCEPT ![q] = @ + 1]

LEMMA Executing ==
  ASSUME AsInv, NEW s \in Sessions, ExecuteCommit(s)
  PROVE  \E r : /\ RowSound(r) /\ Replaced(session[s].p, r) /\ ~r.undone /\ r.status = "executed"
                /\ Ended(s) /\ Counted(session[s].p) /\ Locks(s, "confirm")
<1>1. PICK q \in Proposals : q = session[s].p /\ RowSound(proposal[q])
  BY Deciding DEF ExecuteCommit
<1>2. PICK target, paidBy :
          proposal' = [proposal EXCEPT ![q].status = "executed", ![q].target = target,
                                       ![q].paidBy = paidBy]
  BY <1>1 DEF ExecuteCommit
<1> DEFINE r == [proposal[q] EXCEPT !.status = "executed", !.target = target, !.paidBy = paidBy]
<1>3. proposal[q].status = "pending"
  BY <1>1, Deciding DEF ExecuteCommit
<1>4. RowSound(r) /\ ~r.undone /\ r.status = "executed"
  BY <1>1, <1>3 DEF RowSound, Columns
<1>5. Replaced(q, r)
  BY <1>1, <1>2 DEF AsInv, AsTypes, Replaced
<1>6. Ended(s)
  BY DEF ExecuteCommit, AsInv, AsTypes, Ended
<1>7. Counted(q) /\ Locks(s, "confirm")
  BY <1>1 DEF ExecuteCommit, Counted
<1> HIDE DEF r
<1> QED
  BY <1>1, <1>4, <1>5, <1>6, <1>7

LEMMA Undoing ==
  ASSUME AsInv, NEW s \in Sessions, UndoCommit(s)
  PROVE  \E r : /\ RowSound(r) /\ Replaced(session[s].p, r) /\ r.undone /\ r.status = "executed"
                /\ Ended(s) /\ Counted(session[s].p) /\ Locks(s, "undo")
<1>1. PICK q \in Proposals : q = session[s].p /\ RowSound(proposal[q])
  BY Deciding DEF UndoCommit
<1> DEFINE r == [proposal[q] EXCEPT !.undone = TRUE]
<1>2. proposal[q].status = "executed"
  BY <1>1, Deciding DEF UndoCommit
<1>3. RowSound(r) /\ r.undone /\ r.status = "executed"
  BY <1>1, <1>2 DEF RowSound, Columns
<1>4. Replaced(q, r)
  BY <1>1 DEF UndoCommit, AsInv, AsTypes, Replaced
<1>5. Ended(s)
  BY DEF UndoCommit, AsInv, AsTypes, Ended
<1>6. Counted(q) /\ Locks(s, "undo")
  BY <1>1 DEF UndoCommit, Counted
<1> HIDE DEF r
<1> QED
  BY <1>1, <1>3, <1>4, <1>5, <1>6

LEMMA CountedType ==
  ASSUME touches \in [Proposals -> Nat], NEW q \in Proposals, Counted(q)
  PROVE  /\ touches' \in [Proposals -> Nat] /\ touches'[q] = touches[q] + 1
         /\ \A p \in Proposals \ {q} : touches'[p] = touches[p]
  BY DEF Counted

LEMMA DraftRow ==
  ASSUME AsInv, NEW p \in Proposals, NEW rq \in TypedActions, Draft(p, rq)
  PROVE  /\ proposal[p].status = "none" /\ RowSound(Stored(rq)) /\ Replaced(p, Stored(rq))
         /\ Stored(rq).status = "pending" /\ ~Stored(rq).undone
         /\ UNCHANGED <<session, touches>>
<1>1. RowSound(Stored(rq)) /\ Stored(rq).status = "pending" /\ ~Stored(rq).undone
  BY DEF RowSound, Stored, Blank, Columns
<1>2. Replaced(p, Stored(rq))
  BY DEF Draft, Replaced, AsInv, AsTypes
<1> QED
  BY <1>1, <1>2 DEF Draft

LEMMA ExpireRow ==
  ASSUME AsInv, NEW p \in Proposals, Expire(p)
  PROVE  \E r : /\ RowSound(r) /\ Replaced(p, r) /\ r.status = proposal[p].status
                /\ r.undone = proposal[p].undone /\ UNCHANGED <<session, touches>>
<1> DEFINE r == [proposal[p] EXCEPT !.expired = TRUE]
<1>1. RowSound(proposal[p])
  BY DEF AsInv, AsTypes
<1>2. RowSound(r) /\ r.status = proposal[p].status /\ r.undone = proposal[p].undone
  BY <1>1 DEF RowSound, Columns
<1>3. Replaced(p, r)
  BY DEF Expire, AsInv, AsTypes, Replaced
<1>4. UNCHANGED <<session, touches>>
  BY DEF Expire
<1> HIDE DEF r
<1> QED
  BY <1>2, <1>3, <1>4

LEMMA AsStep == AsInv /\ [AsNext]_allVars => AsInv'
<1> SUFFICES ASSUME AsInv, [AsNext]_allVars PROVE AsInv'
  OBVIOUS
<1>0. touches \in [Proposals -> Nat]
  BY DEF AsInv, AsTypes
<1>1. CASE UNCHANGED asVars
  BY <1>1 DEF asVars, AsInv, AsTypes, LockedIsOpen, OneHolder, Locked
<1>2. ASSUME NEW p \in Proposals, Expire(p) PROVE AsInv'
  BY <1>2, ExpireRow, RowChanges
<1>3. ASSUME NEW p \in Proposals, NEW rq \in TypedActions, Draft(p, rq) PROVE AsInv'
  <2>1. PICK r : r = Stored(rq)
    OBVIOUS
  <2> QED
    BY <1>3, <2>1, DraftRow, RowChanges
<1>4. ASSUME NEW s \in Sessions, LockRow(s) PROVE AsInv'
  BY <1>4, Locking
<1>5. ASSUME NEW s \in Sessions, Abandon(s) PROVE AsInv'
  <2>1. Ended(s) /\ UNCHANGED <<proposal, touches>>
    BY <1>5 DEF Abandon, AsInv, AsTypes, Ended
  <2>2. PICK q \in Proposals : q = session[s].p
    BY <1>5 DEF Abandon, AsInv, AsTypes, Local
  <2>3. \A p \in Proposals : RowSound(proposal'[p]) /\ (p # q => proposal'[p] = proposal[p])
    BY <2>1 DEF AsInv, AsTypes
  <2>4. DOMAIN proposal' = Proposals /\ touches' \in [Proposals -> Nat]
    BY <2>1 DEF AsInv, AsTypes
  <2>5. \A t \in Sessions \ {s} : Locked(t) /\ session[t].p = q =>
             IF session[t].op = "undo"
             THEN proposal'[q].status = "executed" /\ ~proposal'[q].undone
             ELSE proposal'[q].status = "pending"
    BY <2>1 DEF AsInv, LockedIsOpen
  <2> QED
    BY <2>1, <2>3, <2>4, <2>5, SessionEnds
<1>6. ASSUME NEW s \in Sessions, CancelCommit(s) PROVE AsInv'
  <2>1. PICK r : /\ RowSound(r) /\ Replaced(session[s].p, r) /\ ~r.undone
                 /\ Ended(s) /\ touches' = touches /\ Locks(s, "cancel")
    BY <1>6, Cancelling
  <2> QED
    BY <1>0, <2>1, Decided
<1>7. ASSUME NEW s \in Sessions, ExecuteCommit(s) PROVE AsInv'
  <2>1. PICK r : /\ RowSound(r) /\ Replaced(session[s].p, r) /\ ~r.undone
                 /\ Ended(s) /\ Counted(session[s].p) /\ Locks(s, "confirm")
    BY <1>7, Executing
  <2>2. touches' \in [Proposals -> Nat]
    BY <1>0, <2>1, CountedType, Deciding
  <2> QED
    BY <2>1, <2>2, Decided
<1>8. ASSUME NEW s \in Sessions, UndoCommit(s) PROVE AsInv'
  <2>1. PICK r : /\ RowSound(r) /\ Replaced(session[s].p, r) /\ r.status = "executed"
                 /\ Ended(s) /\ Counted(session[s].p) /\ Locks(s, "undo")
    BY <1>8, Undoing
  <2>2. touches' \in [Proposals -> Nat]
    BY <1>0, <2>1, CountedType, Deciding
  <2> QED
    BY <2>1, <2>2, Decided
<1>9. ASSUME NEW s \in Sessions, NEW p \in Proposals, NEW op \in {"confirm", "cancel", "undo"},
             Find(s, op, p)
      PROVE  AsInv'
  <2> DEFINE r == [op |-> op, p |-> p, step |-> "found", found |-> proposal[p], read |-> None]
  <2>1. session' = [session EXCEPT ![s] = r] /\ UNCHANGED <<proposal, touches>>
    BY <1>9 DEF Find
  <2>2. Local(r) /\ r.step = "found"
    BY DEF Local
  <2> HIDE DEF r
  <2>3. /\ DOMAIN session' = Sessions /\ session'[s] = r
        /\ \A t \in Sessions \ {s} : session'[t] = session[t]
    BY <2>1 DEF AsInv, AsTypes
  <2>4. \A t \in Sessions : Locked(t)' => Locked(t) /\ session'[t] = session[t]
    BY <2>2, <2>3 DEF Locked
  <2>5. AsTypes'
    BY <2>1, <2>2, <2>3 DEF AsInv, AsTypes
  <2>6. LockedIsOpen'
    BY <2>1, <2>4 DEF AsInv, LockedIsOpen
  <2>7. OneHolder'
    BY <2>4 DEF AsInv, OneHolder
  <2> QED
    BY <2>5, <2>6, <2>7 DEF AsInv
<1>10. CASE UNCHANGED allVars
  <2> UNCHANGED asVars
    BY <1>10 DEF allVars
  <2> QED
    BY <1>1
<1> QED
  BY <1>1, <1>2, <1>3, <1>4, <1>5, <1>6, <1>7, <1>8, <1>9, <1>10, HandsOff DEF AsNext

(* The refinement.  What became of a proposal is read off its row.          *)
Decisions == [p \in Proposals |-> Decision(p)]
Fate(row) ==
    IF row.undone THEN "undone"
    ELSE IF row.status \in {"executed", "cancelled"} THEN row.status ELSE "open"

LEMMA DecisionChanges ==
  ASSUME NEW q \in Proposals, NEW r, Replaced(q, r)
  PROVE  /\ Decisions' = [Decisions EXCEPT ![q] = Fate(r)]
         /\ Decisions[q] = Fate(proposal[q])
<1>1. \A p \in Proposals : Decision(p)' = IF p = q THEN Fate(r) ELSE Decision(p)
  BY DEF Replaced, Decision, Fate
<1>2. Decision(q) = Fate(proposal[q])
  BY DEF Decision, Fate
<1> HIDE DEF Decision, Fate
<1> QED
  BY <1>1, <1>2 DEF Decisions

LEMMA DecisionStays ==
  ASSUME AsInv, NEW q \in Proposals, NEW r, Replaced(q, r), Fate(r) = Fate(proposal[q])
  PROVE  Decisions' = Decisions
  BY DecisionChanges DEF Decisions

LEMMA DecisionSame ==
  ASSUME proposal' = proposal
  PROVE  Decisions' = Decisions
  BY DEF Decisions, Decision

LEMMA OneShotStart == AsInit => Promise!OdInit
<1> SUFFICES ASSUME AsInit PROVE Promise!OdInit
  OBVIOUS
<1>1. \A p \in Proposals : Decision(p) = "open"
  BY DEF AsInit, Decision, Blank
<1> QED
  BY <1>1 DEF AsInit, Promise!OdInit

LEMMA OneShotStep == AsInv /\ [AsNext]_allVars => [Promise!OdNext]_(Promise!odVars)
<1> SUFFICES ASSUME AsInv, [AsNext]_allVars,
                    ~(Decisions' = Decisions /\ touches' = touches)
             PROVE  Promise!OdNext
  BY DEF Promise!odVars, Decisions
<1>1. CASE UNCHANGED asVars
  BY <1>1, DecisionSame DEF asVars
<1>2. ASSUME NEW p \in Proposals, Expire(p) PROVE FALSE
  <2>1. PICK r : /\ Replaced(p, r) /\ r.status = proposal[p].status
                 /\ r.undone = proposal[p].undone /\ touches' = touches
    BY <1>2, ExpireRow
  <2>2. Fate(r) = Fate(proposal[p])
    BY <2>1 DEF Fate
  <2> QED
    BY <2>1, <2>2, DecisionStays
<1>3. ASSUME NEW p \in Proposals, NEW rq \in TypedActions, Draft(p, rq) PROVE FALSE
  <2>1. PICK r : r = Stored(rq)
    OBVIOUS
  <2>2. /\ proposal[p].status = "none" /\ Replaced(p, r) /\ touches' = touches
        /\ r.status = "pending" /\ ~r.undone
    BY <1>3, <2>1, DraftRow
  <2>3. RowSound(proposal[p])
    BY DEF AsInv, AsTypes
  <2>4. Fate(r) = Fate(proposal[p])
    BY <2>2, <2>3 DEF Fate, RowSound
  <2> QED
    BY <2>2, <2>4, DecisionStays
<1>4. ASSUME NEW s \in Sessions, CancelCommit(s) PROVE Promise!OdNext
  <2>1. PICK r : /\ RowSound(r) /\ Replaced(session[s].p, r) /\ ~r.undone
                 /\ r.status = "cancelled" /\ touches' = touches /\ Locks(s, "cancel")
    BY <1>4, Cancelling
  <2>2. PICK q \in Proposals : q = session[s].p
    BY <2>1, Deciding
  <2>3. proposal[q].status = "pending" /\ RowSound(proposal[q])
    BY <2>1, <2>2, Deciding
  <2>4. Fate(proposal[q]) = "open" /\ Fate(r) = "cancelled"
    BY <2>1, <2>3 DEF Fate, RowSound
  <2>5. Decisions[q] = "open" /\ Decisions' = [Decisions EXCEPT ![q] = "cancelled"]
    BY <2>1, <2>2, <2>4, DecisionChanges
  <2>6. touches' = [touches EXCEPT ![q] = @ + 0]
    BY <2>1 DEF AsInv, AsTypes
  <2>7. Promise!Move(q, "open", "cancelled", 0)
    BY <2>5, <2>6 DEF Promise!Move, Decisions
  <2> QED
    BY <2>7 DEF Promise!OdNext
<1>5. ASSUME NEW s \in Sessions, ExecuteCommit(s) PROVE Promise!OdNext
  <2>1. PICK r : /\ RowSound(r) /\ Replaced(session[s].p, r) /\ ~r.undone
                 /\ r.status = "executed" /\ Counted(session[s].p) /\ Locks(s, "confirm")
    BY <1>5, Executing
  <2>2. PICK q \in Proposals : q = session[s].p
    BY <2>1, Deciding
  <2>3. proposal[q].status = "pending" /\ RowSound(proposal[q])
    BY <2>1, <2>2, Deciding
  <2>4. Fate(proposal[q]) = "open" /\ Fate(r) = "executed"
    BY <2>1, <2>3 DEF Fate, RowSound
  <2>5. Decisions[q] = "open" /\ Decisions' = [Decisions EXCEPT ![q] = "executed"]
    BY <2>1, <2>2, <2>4, DecisionChanges
  <2>6. touches' = [touches EXCEPT ![q] = @ + 1]
    BY <2>1, <2>2 DEF Counted
  <2>7. Promise!Move(q, "open", "executed", 1)
    BY <2>5, <2>6 DEF Promise!Move, Decisions
  <2> QED
    BY <2>7 DEF Promise!OdNext
<1>6. ASSUME NEW s \in Sessions, UndoCommit(s) PROVE Promise!OdNext
  <2>1. PICK r : /\ Replaced(session[s].p, r) /\ r.undone
                 /\ Counted(session[s].p) /\ Locks(s, "undo")
    BY <1>6, Undoing
  <2>2. PICK q \in Proposals : q = session[s].p
    BY <2>1, Deciding
  <2>3. proposal[q].status = "executed" /\ ~proposal[q].undone
    BY <2>1, <2>2, Deciding
  <2>4. Fate(proposal[q]) = "executed" /\ Fate(r) = "undone"
    BY <2>1, <2>3 DEF Fate
  <2>5. Decisions[q] = "executed" /\ Decisions' = [Decisions EXCEPT ![q] = "undone"]
    BY <2>1, <2>2, <2>4, DecisionChanges
  <2>6. touches' = [touches EXCEPT ![q] = @ + 1]
    BY <2>1, <2>2 DEF Counted
  <2>7. Promise!Move(q, "executed", "undone", 1)
    BY <2>5, <2>6 DEF Promise!Move, Decisions
  <2> QED
    BY <2>7 DEF Promise!OdNext
<1>7. ASSUME NEW s \in Sessions,
             LockRow(s) \/ Abandon(s)
               \/ \E p \in Proposals : \E op \in {"confirm", "cancel", "undo"} : Find(s, op, p)
      PROVE  FALSE
  <2> proposal' = proposal /\ touches' = touches
    BY <1>7 DEF LockRow, Abandon, Find
  <2> QED
    BY DecisionSame
<1>8. CASE UNCHANGED allVars
  <2> UNCHANGED asVars
    BY <1>8 DEF allVars
  <2> QED
    BY <1>1
<1> QED
  BY <1>1, <1>2, <1>3, <1>4, <1>5, <1>6, <1>7, <1>8, HandsOff DEF AsNext

(* Whatever sessions race to confirm, cancel and undo a proposal, and       *)
(* whatever the household does to its books meanwhile: it is decided once,  *)
(* only what was executed is undone, and the books are written once for     *)
(* each of these two steps (execute_typed_action, cancel_action_proposal,   *)
(* undo_assistant_action).                                                  *)
THEOREM ProposalsAreDecidedOnce == AsSpec => ImplementsOneShot
<1> QED
  BY AsStart, AsStep, OneShotStart, OneShotStep, PTL
     DEF AsSpec, ImplementsOneShot, Promise!OdSpec

=============================================================================
