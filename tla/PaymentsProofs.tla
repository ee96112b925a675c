--------------------------- MODULE PaymentsProofs ---------------------------
(***************************************************************************)
(* The links between card payments and invoices, for any rows, sessions    *)
(* and amounts: rows locked by id never form a cycle of their own, and     *)
(* both rows of a link agree as long as no unlink acted on an outdated     *)
(* copy.                                                                   *)
(* The invoices themselves, for any purchases, refunds and payments: the   *)
(* books keep their types, and an invoice is settled once for what was     *)
(* bought, in whatever order purchases and payments came.                  *)
(***************************************************************************)
EXTENDS MCPayments, LedgerProofs, FiniteSetTheorems, WellFoundedInduction, TLAPS

Questions == [op : {"none", "import", "link", "unlink", "pay", "delete"},
              a : Rows \cup {NoRow}, b : Rows \cup {NoRow},
              on : Accounts \cup {NoRow}, step : {"idle", "lock", "flush", "write"}]

(* What each operation was asked to do.                                     *)
AskSound(q) ==
    /\ (q.step = "idle") = (q.op = "none")
    /\ q.op = "none" => q.a = NoRow /\ q.b = NoRow
    /\ q.op = "import" => q.a \in Debits /\ q.b = NoRow
    /\ q.op = "link" => q.a \in Banks /\ q.b \in Invoices
    /\ q.op = "pay" => q.a \in Invoices /\ q.b = NoRow /\ q.on \in Accounts
    /\ q.op = "unlink" => q.a \in Rows /\ q.b \in Rows
    /\ q.op = "delete" => q.a \in Legs /\ q.b = NoRow

(* The rows a request holds were named by it and are there; the rows it     *)
(* lacks come after those it holds.                                         *)
Held(r) == {x \in Rows : holder[x] = r}
Lacking(r) == Named(r) \ Held(r)
LocksInOrder ==
    /\ \A r \in PayRequests : AskSound(ask[r])
    /\ \A r \in PayRequests, x \in Rows : holder[x] = r => x \in Named(r) /\ x \in Present
    /\ \A r \in PayRequests, x \in Rows, y \in Rows :
         x \in Held(r) /\ y \in Lacking(r) => Rank[x] < Rank[y]

(* A request that writes holds what it named, and its copies passed the     *)
(* checks.                                                                  *)
StillChecked(r) ==
    LET q == ask[r] IN
    q.step \in {"flush", "write"} =>
        /\ q.op \in {"link", "unlink", "pay"} => Lacking(r) = {}
        /\ q.op = "link" => loaded[r][q.a] = NoRow /\ loaded[r][q.b] = NoRow
        /\ q.op = "unlink" => loaded[r][q.a] = q.b
        /\ q.op = "pay" => loaded[r][q.a] = NoRow
AllChecked == \A r \in PayRequests : StillChecked(r)

(* Of the rows a link or a payment holds, an empty link it loaded is still  *)
(* empty; of the others it has loaded nothing.                              *)
CopiesHold ==
    \A r \in PayRequests, x \in Rows : ask[r].op \in {"link", "pay"} =>
        IF holder[x] = r THEN loaded[r][x] = NoRow => link[x] = NoRow
        ELSE loaded[r][x] = Unread
IdleUnread ==
    \A r \in PayRequests, x \in Rows : ask[r].op = "none" => loaded[r][x] = Unread

(* A debit that is there and an invoice, each pointing at the other.        *)
Paired(x) ==
    /\ x \in Rows /\ link[x] \in Rows /\ link[link[x]] = x
    /\ \/ x \in Banks \cap Present /\ link[x] \in Invoices
       \/ x \in Invoices /\ link[x] \in Banks \cap Present
LinksPaired == ~stale => \A x \in Rows : link[x] = NoRow \/ Paired(x)

CpInv == CpTypeOK /\ LocksInOrder /\ AllChecked /\ CopiesHold /\ IdleUnread /\ LinksPaired

LEMMA CandidatesAndClaimants ==
  /\ \A d, i : i \in Candidates(d) <=> i \in Invoices /\ <<d, i>> \in Edges
  /\ \A d, i : d \in Claimants(i) <=> d \in Banks /\ <<d, i>> \in Edges
  /\ \A d, i : <<d, i>> \in Edges => d \in Banks \cap Present /\ i \in Invoices
  BY DEF Candidates, Claimants, Edges

LEMMA FewClaimants ==
  ASSUME NEW i
  PROVE  ~(Cardinality(Claimants(i)) > 1) <=> \A d, e \in Claimants(i) : d = e
<1>1. IsFiniteSet(Claimants(i))
  <2> Claimants(i) \subseteq Banks
    BY DEF Claimants
  <2> QED
    BY FiniteRows, FS_Subset
<1>2. Cardinality(Claimants(i)) \in Nat
  BY <1>1, FS_CardinalityType
<1>3. ASSUME NEW d \in Claimants(i), NEW e \in Claimants(i), d # e
      PROVE  Cardinality(Claimants(i)) > 1
  <2> DEFINE S == Claimants(i)
  <2>1. IsFiniteSet({d, e}) /\ Cardinality({d, e}) = 2 /\ {d, e} \subseteq S
    <3>1. IsFiniteSet({d}) /\ Cardinality({d}) = 1
      BY FS_Singleton
    <3>2. {d, e} = {d} \cup {e} /\ e \notin {d}
      BY <1>3
    <3>3. IsFiniteSet({d} \cup {e}) /\ Cardinality({d} \cup {e}) = Cardinality({d}) + 1
      BY <3>1, <3>2, FS_AddElement
    <3> QED
      BY <1>3, <3>1, <3>2, <3>3
  <2>2. Cardinality({d, e}) <= Cardinality(S)
    BY <1>1, <2>1, FS_Subset
  <2> QED
    BY <1>2, <2>1, <2>2
<1>4. ASSUME \A d, e \in Claimants(i) : d = e
      PROVE  ~(Cardinality(Claimants(i)) > 1)
  <2>1. CASE Claimants(i) = {}
    BY <2>1, FS_EmptySet
  <2>2. CASE \E d : Claimants(i) = {d}
    BY <2>2, FS_Singleton
  <2> QED
    BY <1>4, <2>1, <2>2
<1> QED
  BY <1>3, <1>4

LEMMA OnePolicyHolds == OnePolicy
<1> SUFFICES ASSUME NEW i \in Invoices, NEW account \in Accounts
             PROVE  Evidence(i, account) \in {"matched", "wrong_account"} <=>
                      \E d \in Banks \cap Present : Status(d) = "matched" /\ Candidates(d) = {i}
  BY DEF OnePolicy
<1> DEFINE sure == \E d \in Banks \cap Present : Status(d) = "matched" /\ Candidates(d) = {i}
           told == Evidence(i, account) \in {"matched", "wrong_account"}
<1>1. told <=> /\ Claimants(i) # {} /\ ~(Cardinality(Claimants(i)) > 1)
               /\ \A d \in Claimants(i) : Candidates(d) = {i}
  BY DEF Evidence
<1>2. \A d : Status(d) = "matched" <=>
          \E k \in Candidates(d) : Candidates(d) = {k} /\ Claimants(k) = {d}
  BY DEF Status
<1>3. ASSUME told PROVE sure
  <2>1. PICK d \in Claimants(i) : Claimants(i) = {d} /\ Candidates(d) = {i}
    BY <1>1, <1>3, FewClaimants
  <2>2. d \in Banks \cap Present /\ Status(d) = "matched"
    BY <1>2, <2>1, CandidatesAndClaimants
  <2> QED
    BY <2>1, <2>2
<1>4. ASSUME sure PROVE told
  <2>1. PICK d \in Banks \cap Present : Status(d) = "matched" /\ Candidates(d) = {i}
    BY <1>4
  <2>2. Claimants(i) = {d}
    BY <1>2, <2>1
  <2> QED
    BY <1>1, <2>1, <2>2, FewClaimants
<1> QED
  BY <1>3, <1>4

LEMMA CpStart == CpInit => CpInv
<1> SUFFICES ASSUME CpInit PROVE CpInv
  OBVIOUS
<1>1. CpTypeOK
  BY DEF CpInit, CpTypeOK, NoData, NoAsk
<1>2. \A r \in PayRequests : AskSound(ask[r]) /\ ask[r].step = "idle" /\ ask[r].op = "none"
  BY DEF CpInit, AskSound, NoAsk
<1>3. \A r \in PayRequests, x \in Rows : holder[x] # r
  BY RowsApart DEF CpInit, Lockables
<1>4. LocksInOrder /\ AllChecked
  BY <1>2, <1>3 DEF LocksInOrder, Held, AllChecked, StillChecked
<1>5. CopiesHold /\ IdleUnread
  BY <1>2 DEF CpInit, CopiesHold, IdleUnread
<1>6. LinksPaired
  BY DEF CpInit, LinksPaired
<1> QED
  BY <1>1, <1>4, <1>5, <1>6 DEF CpInv

(* A request ends: what it locked is free and its copies are gone.          *)
LEMMA Finished ==
  ASSUME CpInv, NEW r \in PayRequests, Finish(r)
  PROVE  /\ holder' \in [Lockables -> PayRequests \cup {NoRow}]
         /\ \A x \in Rows : holder'[x] = IF holder[x] = r THEN NoRow ELSE holder[x]
         /\ \A s \in PayRequests : ask'[s] = IF s = r THEN NoAsk ELSE ask[s]
         /\ \A s \in PayRequests, x \in Rows :
              loaded'[s][x] = IF s = r THEN Unread ELSE loaded[s][x]
         /\ ask' \in [PayRequests -> Questions]
         /\ loaded' \in [PayRequests -> [Rows -> Rows \cup {NoRow, Unread}]]
<1>1. NoAsk \in Questions
  BY DEF NoAsk, Questions
<1>2. holder' \in [Lockables -> PayRequests \cup {NoRow}]
      /\ \A x \in Rows : holder'[x] = IF holder[x] = r THEN NoRow ELSE holder[x]
  BY DEF CpInv, CpTypeOK, Finish, Lockables
<1>3. /\ \A s \in PayRequests : ask'[s] = IF s = r THEN NoAsk ELSE ask[s]
      /\ ask' \in [PayRequests -> Questions]
  BY <1>1 DEF CpInv, CpTypeOK, Finish, Questions
<1>4. /\ \A s \in PayRequests, x \in Rows :
              loaded'[s][x] = IF s = r THEN Unread ELSE loaded[s][x]
      /\ loaded' \in [PayRequests -> [Rows -> Rows \cup {NoRow, Unread}]]
  <2> DEFINE clean == [x \in Rows |-> Unread]
  <2>1. clean \in [Rows -> Rows \cup {NoRow, Unread}] /\ \A x \in Rows : clean[x] = Unread
    OBVIOUS
  <2>2. loaded' = [loaded EXCEPT ![r] = clean]
    BY DEF Finish
  <2> HIDE DEF clean
  <2> QED
    BY <2>1, <2>2 DEF CpInv, CpTypeOK
<1> QED
  BY <1>2, <1>3, <1>4

LEMMA RequestEnds ==
  ASSUME CpInv, NEW r \in PayRequests, Finish(r),
         row' \in [Rows -> [amount : Nat, account : Accounts \cup {NoRow},
                            close : SUBSET Invoices]],
         link' \in [Rows -> Rows \cup {NoRow}], stale' \in BOOLEAN, LinksPaired',
         \A x \in Rows, s \in PayRequests :
             holder[x] = s /\ s # r => x \in Present' /\ (link[x] = NoRow => link'[x] = NoRow)
  PROVE  CpInv'
<1>1. CpTypeOK'
  BY Finished DEF CpTypeOK, Questions
<1>2. /\ \A x \in Rows : holder'[x] = IF holder[x] = r THEN NoRow ELSE holder[x]
      /\ \A s \in PayRequests : ask'[s] = IF s = r THEN NoAsk ELSE ask[s]
      /\ \A s \in PayRequests, x \in Rows :
              loaded'[s][x] = IF s = r THEN Unread ELSE loaded[s][x]
  BY Finished
<1>3. /\ \A s \in PayRequests \ {r} : ask'[s] = ask[s] /\ Named(s)' = Named(s)
             /\ Held(s)' = Held(s) /\ Lacking(s)' = Lacking(s)
      /\ ask'[r] = NoAsk
  <2> \A s \in PayRequests \ {r} : Held(s)' = Held(s)
    BY <1>2, RowsApart DEF Held
  <2> QED
    BY <1>2 DEF Named, Lacking
<1>4. \A s \in PayRequests, x \in Rows : holder'[x] = s => s # r /\ holder[x] = s
  BY <1>2, RowsApart
<1>5. AskSound(NoAsk) /\ NoAsk.step = "idle" /\ NoAsk.op = "none"
  BY DEF AskSound, NoAsk
<1>6. \A s \in PayRequests : AskSound(ask'[s])
  BY <1>3, <1>5 DEF CpInv, LocksInOrder
<1>7. \A s \in PayRequests, x \in Rows : holder'[x] = s => x \in Named(s)' /\ x \in Present'
  BY <1>3, <1>4 DEF CpInv, LocksInOrder
<1>8. \A s \in PayRequests, x \in Rows, y \in Rows :
         x \in Held(s)' /\ y \in Lacking(s)' => Rank[x] < Rank[y]
  BY <1>3, <1>4 DEF CpInv, LocksInOrder, Held
<1>9. LocksInOrder' /\ AllChecked'
  <2>1. LocksInOrder'
    BY <1>6, <1>7, <1>8 DEF LocksInOrder
  <2>2. ASSUME NEW s \in PayRequests PROVE StillChecked(s)'
    <3>1. CASE s = r
      BY <1>3, <1>5, <3>1 DEF StillChecked
    <3>2. CASE s # r
      <4>1. StillChecked(s) /\ AskSound(ask[s])
        BY DEF CpInv, AllChecked, LocksInOrder
      <4>2. \A x \in Rows : loaded'[s][x] = loaded[s][x]
        BY <1>2, <3>2
      <4>3. ask[s].a \in Rows \/ ask[s].op \in {"none", "import", "delete"}
        BY <4>1 DEF AskSound, Rows, Banks, CpInv, CpTypeOK
      <4>4. ask[s].b \in Rows \/ ask[s].op # "link"
        BY <4>1 DEF AskSound, Rows
      <4> QED
        BY <1>3, <3>2, <4>1, <4>2, <4>3, <4>4 DEF StillChecked
    <3> QED
      BY <3>1, <3>2
  <2> QED
    BY <2>1, <2>2 DEF AllChecked
<1>10. CopiesHold'
  <2> SUFFICES ASSUME NEW s \in PayRequests, NEW x \in Rows, ask'[s].op \in {"link", "pay"}
               PROVE  IF holder'[x] = s THEN loaded'[s][x] = NoRow => link'[x] = NoRow
                      ELSE loaded'[s][x] = Unread
    BY DEF CopiesHold
  <2>1. s # r /\ ask'[s] = ask[s] /\ loaded'[s][x] = loaded[s][x]
    BY <1>2, <1>3, <1>5
  <2>2. holder'[x] = s <=> holder[x] = s
    BY <1>2, <2>1, RowsApart
  <2> QED
    BY <2>1, <2>2 DEF CpInv, CopiesHold
<1>11. IdleUnread'
  BY <1>2, <1>3 DEF CpInv, IdleUnread
<1> QED
  BY <1>1, <1>9, <1>10, <1>11 DEF CpInv

(* An idle request is asked something: it holds nothing yet.                *)
LEMMA AskedAnew ==
  ASSUME CpInv, NEW r \in PayRequests, ask[r].step = "idle",
         NEW q \in Questions, AskSound(q), q.op # "none",
         q.step = "lock" \/ q.op \in {"import", "delete"},
         ask' = [ask EXCEPT ![r] = q], UNCHANGED <<row, link, holder, stale>>,
         loaded' \in [PayRequests -> [Rows -> Rows \cup {NoRow, Unread}]],
         \A s \in PayRequests : s # r \/ q.op # "unlink" => loaded'[s] = loaded[s]
  PROVE  CpInv'
<1>1. ask' \in [PayRequests -> Questions] /\ ask'[r] = q
      /\ \A s \in PayRequests \ {r} : ask'[s] = ask[s]
  BY DEF CpInv, CpTypeOK, Questions
<1>2. CpTypeOK'
  BY <1>1 DEF CpInv, CpTypeOK, Questions
<1>3. ask[r].op = "none" /\ Named(r) = {}
  BY DEF CpInv, LocksInOrder, AskSound, Named
<1>4. \A x \in Rows : holder[x] # r
  BY <1>3 DEF CpInv, LocksInOrder
<1>5. Present' = Present /\ \A s \in PayRequests : Held(s)' = Held(s)
  BY DEF Present, Held
<1>6. /\ \A s \in PayRequests \ {r} : Named(s)' = Named(s) /\ Lacking(s)' = Lacking(s)
      /\ Held(r)' = {}
  <2>1. \A s \in PayRequests \ {r} : Named(s)' = Named(s)
    BY <1>1 DEF Named
  <2>2. Held(r) = {} /\ Held(r)' = {}
    BY <1>4, <1>5 DEF Held
  <2> QED
    BY <1>5, <2>1, <2>2 DEF Lacking
<1>7. LocksInOrder' /\ AllChecked'
  <2>1. \A s \in PayRequests : AskSound(ask'[s])
    BY <1>1 DEF CpInv, LocksInOrder
  <2>2. \A s \in PayRequests, x \in Rows : holder'[x] = s => x \in Named(s)' /\ x \in Present'
    BY <1>4, <1>5, <1>6 DEF CpInv, LocksInOrder
  <2>3. \A s \in PayRequests, x \in Rows, y \in Rows :
           x \in Held(s)' /\ y \in Lacking(s)' => Rank[x] < Rank[y]
    BY <1>5, <1>6 DEF CpInv, LocksInOrder
  <2>4. ASSUME NEW s \in PayRequests PROVE StillChecked(s)'
    <3>1. CASE s = r
      BY <1>1, <3>1 DEF StillChecked
    <3>2. CASE s # r
      <4>1. StillChecked(s) /\ loaded'[s] = loaded[s] /\ ask'[s] = ask[s] /\ Lacking(s)' = Lacking(s)
        BY <1>1, <1>6, <3>2 DEF CpInv, AllChecked
      <4> QED
        BY <4>1 DEF StillChecked
    <3> QED
      BY <3>1, <3>2
  <2> QED
    BY <2>1, <2>2, <2>3, <2>4 DEF LocksInOrder, AllChecked
<1>8. CopiesHold'
  <2> SUFFICES ASSUME NEW s \in PayRequests, NEW x \in Rows, ask'[s].op \in {"link", "pay"}
               PROVE  IF holder'[x] = s THEN loaded'[s][x] = NoRow => link'[x] = NoRow
                      ELSE loaded'[s][x] = Unread
    BY DEF CopiesHold
  <2>1. CASE s = r
    BY <1>1, <1>3, <1>4, <2>1 DEF CpInv, IdleUnread
  <2>2. CASE s # r
    BY <1>1, <2>2 DEF CpInv, CopiesHold
  <2> QED
    BY <2>1, <2>2
<1>9. IdleUnread'
  <2> SUFFICES ASSUME NEW s \in PayRequests, NEW x \in Rows, ask'[s].op = "none"
               PROVE  loaded'[s][x] = Unread
    BY DEF IdleUnread
  <2>1. s # r
    BY <1>1 DEF AskSound
  <2> QED
    BY <1>1, <2>1 DEF CpInv, IdleUnread
<1>10. LinksPaired'
  BY <1>5 DEF CpInv, LinksPaired, Paired
<1> QED
  BY <1>2, <1>7, <1>8, <1>9, <1>10 DEF CpInv

LEMMA CpAsk ==
  ASSUME CpInv, NEW r \in PayRequests,
         \/ \E d \in Debits : AskImport(r, d)
         \/ \E d \in Banks, i \in Invoices : AskLink(r, d, i)
         \/ \E i \in Invoices, account \in Accounts : AskPay(r, i, account)
         \/ \E x \in Rows : AskUnlink(r, x)
         \/ \E l \in Legs : AskDelete(r, l)
  PROVE  CpInv'
<1>0. /\ loaded \in [PayRequests -> [Rows -> Rows \cup {NoRow, Unread}]]
      /\ link \in [Rows -> Rows \cup {NoRow}]
  BY DEF CpInv, CpTypeOK
<1>1. ASSUME NEW d \in Banks, NEW i \in Invoices, AskLink(r, d, i) PROVE CpInv'
  <2> DEFINE q == [op |-> "link", a |-> d, b |-> i, on |-> NoRow, step |-> "lock"]
  <2>1. /\ q \in Questions /\ AskSound(q) /\ q.op \notin {"none", "unlink"}
        /\ q.step = "lock" \/ q.op \in {"import", "delete"}
    BY RowsApart DEF Questions, AskSound, Rows, Banks
  <2>2. /\ ask[r].step = "idle" /\ ask' = [ask EXCEPT ![r] = q]
        /\ UNCHANGED <<row, link, holder, loaded, stale>>
    BY <1>1 DEF AskLink, Asked
  <2> HIDE DEF q
  <2> QED
    BY <1>0, <2>1, <2>2, AskedAnew
<1>2. ASSUME NEW i \in Invoices, NEW account \in Accounts, AskPay(r, i, account) PROVE CpInv'
  <2> DEFINE q == [op |-> "pay", a |-> i, b |-> NoRow, on |-> account, step |-> "lock"]
  <2>1. /\ q \in Questions /\ AskSound(q) /\ q.op \notin {"none", "unlink"}
        /\ q.step = "lock" \/ q.op \in {"import", "delete"}
    BY RowsApart DEF Questions, AskSound, Rows
  <2>2. /\ ask[r].step = "idle" /\ ask' = [ask EXCEPT ![r] = q]
        /\ UNCHANGED <<row, link, holder, loaded, stale>>
    BY <1>2 DEF AskPay, Asked
  <2> HIDE DEF q
  <2> QED
    BY <1>0, <2>1, <2>2, AskedAnew
<1>3. ASSUME NEW x \in Rows, AskUnlink(r, x) PROVE CpInv'
  <2> DEFINE q == [op |-> "unlink", a |-> x, b |-> link[x], on |-> NoRow, step |-> "lock"]
  <2>0. link[x] \in Rows
    BY <1>0, <1>3 DEF AskUnlink
  <2>1. q \in Questions /\ AskSound(q) /\ q.step = "lock" /\ q.op # "none"
    BY <2>0, RowsApart DEF Questions, AskSound
  <2>2. /\ ask[r].step = "idle" /\ ask' = [ask EXCEPT ![r] = q]
        /\ UNCHANGED <<row, link, holder, stale>>
    BY <1>3 DEF AskUnlink, Asked
  <2>3. /\ loaded' \in [PayRequests -> [Rows -> Rows \cup {NoRow, Unread}]]
        /\ \A s \in PayRequests : s # r => loaded'[s] = loaded[s]
    BY <1>0, <1>3, <2>0 DEF AskUnlink
  <2>4. q.op = "unlink"
    OBVIOUS
  <2> HIDE DEF q
  <2> QED
    BY <2>1, <2>2, <2>3, <2>4, AskedAnew
<1>4. ASSUME NEW l \in Legs, AskDelete(r, l) PROVE CpInv'
  <2> DEFINE q == [op |-> "delete", a |-> l, b |-> NoRow, on |-> NoRow, step |-> "flush"]
  <2>1. /\ q \in Questions /\ AskSound(q) /\ q.op \notin {"none", "unlink"}
        /\ q.step = "lock" \/ q.op \in {"import", "delete"}
    BY RowsApart DEF Questions, AskSound, Rows
  <2>2. /\ ask[r].step = "idle" /\ ask' = [ask EXCEPT ![r] = q]
        /\ UNCHANGED <<row, link, holder, loaded, stale>>
    BY <1>4 DEF AskDelete, Asked
  <2> HIDE DEF q
  <2> QED
    BY <1>0, <2>1, <2>2, AskedAnew
<1>5. ASSUME NEW d \in Debits, AskImport(r, d) PROVE CpInv'
  <2> DEFINE q == [op |-> "import", a |-> d, b |-> NoRow, on |-> Account[d], step |-> "flush"]
  <2>1. /\ q \in Questions /\ AskSound(q) /\ q.op \notin {"none", "unlink"}
        /\ q.step = "lock" \/ q.op \in {"import", "delete"}
    BY RowsApart, AccountType DEF Questions, AskSound, Rows
  <2>2. /\ ask[r].step = "idle" /\ ask' = [ask EXCEPT ![r] = q]
        /\ UNCHANGED <<row, link, holder, loaded, stale>>
    BY <1>5 DEF AskImport, Asked
  <2> HIDE DEF q
  <2> QED
    BY <1>0, <2>1, <2>2, AskedAnew
<1> QED
  BY <1>1, <1>2, <1>3, <1>4, <1>5

(* The next row to lock is missing, and comes before the others missing.    *)
LEMMA NextIsLeast ==
  ASSUME CpInv, NEW r \in PayRequests, Missing(r) # {}
  PROVE  /\ NextRow(r) \in Missing(r) /\ NextRow(r) \in Rows
         /\ \A y \in Missing(r) : Rank[NextRow(r)] <= Rank[y]
<1>1. Missing(r) \subseteq Rows
  BY DEF CpInv, CpTypeOK, Missing, Named
<1>2. PICK x, y : Missing(r) \subseteq {x, y} /\ x \in Missing(r)
  BY DEF Missing, Named
<1>3. \E z \in Missing(r) : \A w \in Missing(r) : Rank[z] <= Rank[w]
  <2>1. CASE y \in Missing(r)
    <3>1. x \in Rows /\ y \in Rows
      BY <1>1, <1>2, <2>1
    <3>2. Rank[x] \in Nat /\ Rank[y] \in Nat
      BY <3>1, RankInjective
    <3>3. Rank[x] <= Rank[y] \/ Rank[y] <= Rank[x]
      BY <3>2
    <3>4. Rank[x] <= Rank[x] /\ Rank[y] <= Rank[y]
      BY <3>2
    <3> QED
      BY <1>2, <2>1, <3>3, <3>4
  <2>2. CASE y \notin Missing(r)
    <3>1. Rank[x] <= Rank[x]
      <4> Rank[x] \in Nat
        BY <1>1, <1>2, RankInjective
      <4> QED
        OBVIOUS
    <3> QED
      BY <1>2, <2>2, <3>1
  <2> QED
    BY <2>1, <2>2
<1> QED
  BY <1>1, <1>3 DEF NextRow

(* A request goes on: it locks nothing that is a row.                       *)
LEMMA GoesOn ==
  ASSUME CpInv, NEW r \in PayRequests, NEW t \in {"lock", "flush", "write"},
         ask[r].op # "none", ask' = [ask EXCEPT ![r].step = t],
         UNCHANGED <<row, link, loaded, stale>>,
         holder' \in [Lockables -> PayRequests \cup {NoRow}],
         \A x \in Rows : holder'[x] = holder[x],
         StillChecked(r)'
  PROVE  CpInv'
<1> DEFINE q == [ask[r] EXCEPT !.step = t]
<1>1. /\ q \in Questions /\ q.op = ask[r].op /\ q.a = ask[r].a /\ q.b = ask[r].b
      /\ q.on = ask[r].on /\ q.step = t
  BY DEF CpInv, CpTypeOK, Questions
<1>2. /\ ask' \in [PayRequests -> Questions] /\ ask'[r] = q
      /\ \A s \in PayRequests \ {r} : ask'[s] = ask[s]
  <2> ask \in [PayRequests -> Questions] /\ ask' = [ask EXCEPT ![r] = q]
    BY DEF CpInv, CpTypeOK, Questions
  <2> HIDE DEF q
  <2> QED
    BY <1>1
<1> HIDE DEF q
<1>3. CpTypeOK'
  BY <1>2 DEF CpInv, CpTypeOK, Questions
<1>4. Present' = Present
  BY DEF Present
<1>5. \A s \in PayRequests : /\ Named(s)' = Named(s) /\ Held(s)' = Held(s)
                              /\ Lacking(s)' = Lacking(s)
  BY <1>1, <1>2 DEF Named, Held, Lacking
<1>6. \A s \in PayRequests : ask'[s].op = ask[s].op /\ AskSound(ask'[s])
  <2>1. AskSound(ask[r]) /\ \A s \in PayRequests : AskSound(ask[s])
    BY DEF CpInv, LocksInOrder
  <2>2. AskSound(q)
    BY <1>1, <2>1 DEF AskSound
  <2> QED
    BY <1>1, <1>2, <2>1, <2>2
<1>7. LocksInOrder'
  BY <1>4, <1>5, <1>6 DEF CpInv, LocksInOrder
<1>8. AllChecked'
  <2> SUFFICES ASSUME NEW s \in PayRequests, s # r PROVE StillChecked(s)'
    BY DEF AllChecked
  <2> QED
    BY <1>2, <1>5 DEF CpInv, AllChecked, StillChecked
<1>9. CopiesHold' /\ IdleUnread'
  BY <1>6 DEF CpInv, CopiesHold, IdleUnread
<1>10. LinksPaired'
  BY <1>4 DEF CpInv, LinksPaired, Paired
<1> QED
  BY <1>3, <1>7, <1>8, <1>9, <1>10 DEF CpInv

LEMMA CpDecide ==
  ASSUME CpInv, NEW r \in PayRequests, Decide(r)
  PROVE  CpInv'
<1>1. /\ ask' = [ask EXCEPT ![r].step = "flush"] /\ UNCHANGED <<row, link, holder, loaded, stale>>
      /\ Missing(r) = {} /\ Checked(r)
  BY DEF Decide, Ready
<1>2. /\ holder' \in [Lockables -> PayRequests \cup {NoRow}] /\ ask[r].op # "none"
  BY <1>1 DEF CpInv, CpTypeOK, Checked
<1>3. ask[r] \in Questions
  BY DEF CpInv, CpTypeOK, Questions
<1>4. ask'[r] = [ask[r] EXCEPT !.step = "flush"]
  BY <1>1 DEF CpInv, CpTypeOK
<1>5. ask'[r].op = ask[r].op /\ ask'[r].a = ask[r].a /\ ask'[r].b = ask[r].b
  BY <1>3, <1>4 DEF Questions
<1>6. Lacking(r)' = {}
  <2>1. Named(r)' = Named(r) /\ Held(r)' = Held(r) /\ Named(r) \subseteq Rows
    BY <1>1, <1>3, <1>5 DEF Named, Held, Questions
  <2> QED
    BY <1>1, <2>1 DEF Missing, Held, Lacking
<1>7. StillChecked(r)'
  <2>1. /\ ask[r].op = "link" => Linkable(r)
        /\ ask[r].op = "unlink" => SameCounterpart(r)
        /\ ask[r].op = "pay" => NeedsPaying(r)
    BY <1>1 DEF Checked
  <2> QED
    BY <1>1, <1>5, <1>6, <2>1 DEF StillChecked, Linkable, SameCounterpart, NeedsPaying
<1> QED
  BY <1>1, <1>2, <1>7, GoesOn

LEMMA CpFlush ==
  ASSUME CpInv, NEW r \in PayRequests, Flush(r)
  PROVE  CpInv'
<1> DEFINE t == IF ask[r].op = "delete" THEN "lock" ELSE "write"
<1>1. /\ ask' = [ask EXCEPT ![r].step = t] /\ UNCHANGED <<row, link, loaded, stale>>
      /\ holder' = [holder EXCEPT ![Revision] = r] /\ ask[r].op \in {"import", "pay", "delete"}
      /\ t \in {"lock", "flush", "write"} /\ ask[r].step = "flush"
  BY DEF Flush
<1>2. holder' \in [Lockables -> PayRequests \cup {NoRow}] /\ \A x \in Rows : holder'[x] = holder[x]
  BY <1>1, RowsApart DEF CpInv, CpTypeOK, Lockables
<1> HIDE DEF t
<1>3. ask[r] \in Questions
  BY DEF CpInv, CpTypeOK, Questions
<1>4. ask'[r] = [ask[r] EXCEPT !.step = t]
  BY <1>1 DEF CpInv, CpTypeOK
<1>5. ask'[r].op = ask[r].op /\ ask'[r].a = ask[r].a /\ ask'[r].b = ask[r].b
  BY <1>3, <1>4 DEF Questions
<1>6. Lacking(r)' = Lacking(r)
  BY <1>2, <1>5 DEF Named, Held, Lacking
<1>7. StillChecked(r)
  BY DEF CpInv, AllChecked
<1>8. StillChecked(r)'
  BY <1>1, <1>5, <1>6, <1>7 DEF StillChecked
<1> QED
  BY <1>1, <1>2, <1>8, GoesOn

(* An account is locked.                                                    *)
LEMMA CpLockAccount ==
  ASSUME CpInv, NEW r \in PayRequests, Lock(r), NextLock(r) \notin Rows
  PROVE  CpInv'
<1>1. /\ UNCHANGED <<row, link, ask, loaded, stale>> /\ ask[r].step = "lock"
      /\ holder' = [holder EXCEPT ![NextLock(r)] = r]
  BY DEF Lock, Lacks
<1>2. holder' \in [Lockables -> PayRequests \cup {NoRow}] /\ \A x \in Rows : holder'[x] = holder[x]
  BY <1>1 DEF CpInv, CpTypeOK, Lockables
<1>3. ask' = [ask EXCEPT ![r].step = "lock"] /\ ask'[r].step = "lock"
  BY <1>1 DEF CpInv, CpTypeOK
<1>4. ask[r].op # "none"
  BY <1>1 DEF CpInv, LocksInOrder, AskSound
<1>5. StillChecked(r)'
  BY <1>3 DEF StillChecked
<1> QED
  BY <1>1, <1>2, <1>3, <1>4, <1>5, GoesOn

(* The least row a request misses is either its next lock, or a row it has. *)
LEMMA NextIsMissing ==
  ASSUME CpInv, NEW r \in PayRequests, Missing(r) # {}, NextLock(r) \in Rows
  PROVE  /\ NextLock(r) \in Lacking(r) /\ NextLock(r) \in Rows
         /\ NextLock(r) = NextRow(r)
         /\ \A y \in Lacking(r) : Rank[NextLock(r)] <= Rank[y]
<1>1. NextRow(r) \in Missing(r) /\ NextRow(r) \in Rows
      /\ \A y \in Missing(r) : Rank[NextRow(r)] <= Rank[y]
  BY NextIsLeast
<1>2. AccountOf(NextRow(r)) \notin Rows
  BY <1>1, RowsApart, AccountType DEF AccountOf, CpInv, CpTypeOK, Lockables
<1>3. holder[NextRow(r)] # r /\ NextLock(r) = NextRow(r)
  BY <1>2 DEF NextLock
<1>4. NextRow(r) \in Lacking(r) /\ Lacking(r) \subseteq Missing(r)
  <2>1. Named(r) \subseteq Rows
    BY DEF Named, CpInv, CpTypeOK
  <2> QED
    BY <1>1, <1>3, <2>1 DEF Missing, Lacking, Held
<1> QED
  BY <1>1, <1>3, <1>4

LEMMA CpLock ==
  ASSUME CpInv, NEW r \in PayRequests, Lock(r), NextLock(r) \in Rows
  PROVE  CpInv'
<1>1. /\ ask[r].step = "lock" /\ UNCHANGED <<row, link, ask, stale>> /\ Missing(r) # {}
  BY DEF Lock, Lacks
<1>2. PICK x \in Rows : x = NextLock(r)
  OBVIOUS
<1>3. x \in Lacking(r) /\ x = NextRow(r) /\ \A y \in Lacking(r) : Rank[x] <= Rank[y]
  BY <1>1, <1>2, NextIsMissing
<1>4. holder[x] = NoRow
  <2>1. holder[x] \in {NoRow, r}
    BY <1>1, <1>2 DEF Lock, Unblocked, Wanted
  <2> QED
    BY <1>3, <2>1 DEF Lacking, Held
<1>5. /\ x \in Present /\ holder' = [holder EXCEPT ![x] = r]
      /\ loaded' = IF loaded[r][x] = Unread THEN [loaded EXCEPT ![r][x] = link[x]] ELSE loaded
  BY <1>2, <1>3 DEF Lock
<1>6. /\ holder' \in [Lockables -> PayRequests \cup {NoRow}] /\ holder'[x] = r
      /\ \A y \in Rows \ {x} : holder'[y] = holder[y]
  BY <1>5 DEF CpInv, CpTypeOK, Lockables
<1>8. /\ loaded' \in [PayRequests -> [Rows -> Rows \cup {NoRow, Unread}]]
      /\ loaded'[r][x] = IF loaded[r][x] = Unread THEN link[x] ELSE loaded[r][x]
      /\ \A s \in PayRequests, y \in Rows : s # r \/ y # x => loaded'[s][y] = loaded[s][y]
  BY <1>5 DEF CpInv, CpTypeOK
<1>9. CpTypeOK'
  BY <1>1, <1>6, <1>8 DEF CpInv, CpTypeOK
<1>10. Present' = Present
  BY <1>1 DEF Present
<1>11. /\ \A s \in PayRequests : Named(s)' = Named(s)
       /\ \A s \in PayRequests \ {r} : Held(s)' = Held(s) /\ Lacking(s)' = Lacking(s)
       /\ Held(r)' = Held(r) \cup {x} /\ Lacking(r)' = Lacking(r) \ {x}
  <2>1. \A s \in PayRequests : Named(s)' = Named(s)
    BY <1>1 DEF Named
  <2>2. \A s \in PayRequests \ {r} : Held(s)' = Held(s)
    BY <1>4, <1>6, RowsApart DEF Held
  <2>3. Held(r)' = Held(r) \cup {x}
    BY <1>6 DEF Held
  <2> QED
    BY <2>1, <2>2, <2>3 DEF Lacking
<1>12. LocksInOrder'
  <2>1. \A s \in PayRequests : AskSound(ask'[s])
    BY <1>1 DEF CpInv, LocksInOrder
  <2>2. \A s \in PayRequests, y \in Rows : holder'[y] = s => y \in Named(s)' /\ y \in Present'
    <3> SUFFICES ASSUME NEW s \in PayRequests, NEW y \in Rows, holder'[y] = s
                 PROVE  y \in Named(s) /\ y \in Present
      BY <1>10, <1>11
    <3>1. CASE y = x
      BY <1>3, <1>5, <1>6, <3>1 DEF Lacking
    <3>2. CASE y # x
      BY <1>6, <3>2 DEF CpInv, LocksInOrder
    <3> QED
      BY <3>1, <3>2
  <2>3. ASSUME NEW s \in PayRequests, NEW y \in Rows, NEW z \in Rows,
               y \in Held(s)', z \in Lacking(s)'
        PROVE  Rank[y] < Rank[z]
    <3>1. CASE s = r
      <4>1. z \in Lacking(r) /\ z # x /\ Rank[z] \in Nat /\ Rank[x] \in Nat
        BY <1>11, <2>3, <3>1, RankInjective
      <4>2. Rank[x] < Rank[z]
        <5> Rank[x] <= Rank[z] /\ Rank[x] # Rank[z]
          BY <1>3, <4>1, RankInjective
        <5> QED
          BY <4>1
      <4> QED
        BY <1>11, <2>3, <3>1, <4>1, <4>2 DEF CpInv, LocksInOrder
    <3>2. CASE s # r
      BY <1>11, <2>3, <3>2 DEF CpInv, LocksInOrder
    <3> QED
      BY <3>1, <3>2
  <2> QED
    BY <2>1, <2>2, <2>3 DEF LocksInOrder
<1>16. AllChecked'
  <2> SUFFICES ASSUME NEW s \in PayRequests PROVE StillChecked(s)'
    BY DEF AllChecked
  <2>1. CASE s = r
    BY <1>1, <2>1 DEF StillChecked
  <2>2. CASE s # r
    <3>1. loaded'[s] = loaded[s]
      BY <1>5, <2>2 DEF CpInv, CpTypeOK
    <3> QED
      BY <1>1, <1>11, <2>2, <3>1 DEF CpInv, AllChecked, StillChecked
  <2> QED
    BY <2>1, <2>2
<1>13. CopiesHold'
  <2> SUFFICES ASSUME NEW s \in PayRequests, NEW y \in Rows, ask[s].op \in {"link", "pay"}
               PROVE  IF holder'[y] = s THEN loaded'[s][y] = NoRow => link'[y] = NoRow
                      ELSE loaded'[s][y] = Unread
    BY <1>1 DEF CopiesHold
  <2>2. CASE s = r /\ y = x
    <3> loaded[r][x] = Unread
      BY <1>4, <2>2, RowsApart DEF CpInv, CopiesHold
    <3> QED
      BY <1>1, <1>6, <1>8, <2>2
  <2>3. CASE s # r /\ y = x
    <3> holder'[y] # s /\ holder[y] # s
      BY <1>4, <1>6, <2>3, RowsApart
    <3> QED
      BY <1>8, <2>3 DEF CpInv, CopiesHold
  <2>4. CASE y # x
    BY <1>1, <1>6, <1>8, <2>4 DEF CpInv, CopiesHold
  <2> QED
    BY <2>2, <2>3, <2>4
<1>14. IdleUnread'
  <2> SUFFICES ASSUME NEW s \in PayRequests, NEW y \in Rows, ask[s].op = "none"
               PROVE  loaded'[s][y] = Unread
    BY <1>1 DEF IdleUnread
  <2>2. s # r
    BY <1>1 DEF CpInv, LocksInOrder, AskSound
  <2> QED
    BY <1>8, <2>2 DEF CpInv, IdleUnread
<1>15. LinksPaired'
  BY <1>1, <1>10 DEF CpInv, LinksPaired, Paired
<1> QED
  BY <1>9, <1>12, <1>13, <1>14, <1>15, <1>16 DEF CpInv

(* A request that writes, and its checks, hold all the rows it named.       *)
LEMMA Writing ==
  ASSUME CpInv, NEW r \in PayRequests, ask[r].op \in {"link", "unlink", "pay"},
         ask[r].step \in {"flush", "write"}
  PROVE  /\ \A x \in Named(r) : x \in Rows /\ holder[x] = r /\ x \in Present
         /\ AskSound(ask[r]) /\ StillChecked(r)
         /\ ask[r].a \in Named(r)
         /\ ask[r].op \in {"link", "unlink"} => ask[r].b \in Named(r)
<1>1. /\ AskSound(ask[r]) /\ StillChecked(r)
      /\ \A x \in Rows : holder[x] = r => x \in Present
  BY DEF CpInv, LocksInOrder, AllChecked
<1>2. \A x \in Named(r) : x \in Rows /\ holder[x] = r
  <2> Named(r) \subseteq Rows /\ Lacking(r) = {}
    BY <1>1 DEF Named, CpInv, CpTypeOK, StillChecked
  <2> QED
    BY DEF Lacking, Held
<1>3. ask[r].a \in Rows /\ (ask[r].op \in {"link", "unlink"} => ask[r].b \in Rows)
  BY <1>1 DEF AskSound, Rows, Banks
<1> QED
  BY <1>1, <1>2, <1>3, RowsApart DEF Named, Lockables

LEMMA CpLink ==
  ASSUME CpInv, NEW r \in PayRequests, Link(r)
  PROVE  CpInv'
<1>1. PICK a \in Banks, b \in Invoices : a = ask[r].a /\ b = ask[r].b
  BY Writing DEF Link, AskSound
<1>2. /\ a \in Rows /\ b \in Rows /\ holder[a] = r /\ holder[b] = r
      /\ a \in Present /\ b \in Present /\ a # b /\ a \notin Invoices /\ b \notin Banks
  BY <1>1, Writing, RowsApart DEF Link, Banks
<1>3. link[a] = NoRow /\ link[b] = NoRow
  <2> ask[r].op = "link" /\ loaded[r][a] = NoRow /\ loaded[r][b] = NoRow
    BY <1>1, Writing DEF Link, StillChecked
  <2> QED
    BY <1>2 DEF CpInv, CopiesHold
<1>4. /\ link' = [link EXCEPT ![a] = b, ![b] = a] /\ Finish(r) /\ UNCHANGED <<row, stale>>
  BY <1>1 DEF Link
<1>5. /\ link' \in [Rows -> Rows \cup {NoRow}] /\ link'[a] = b /\ link'[b] = a
      /\ \A x \in Rows \ {a, b} : link'[x] = link[x]
  BY <1>2, <1>4 DEF CpInv, CpTypeOK
<1>6. Present' = Present
  BY <1>4 DEF Present
<1>7. \A x \in Rows, s \in PayRequests :
             holder[x] = s /\ s # r => x \in Present' /\ (link[x] = NoRow => link'[x] = NoRow)
  BY <1>2, <1>5, <1>6 DEF CpInv, LocksInOrder
<1>8. LinksPaired'
  <2> SUFFICES ASSUME ~stale', NEW x \in Rows, link'[x] # NoRow
               PROVE  Paired(x)'
    BY DEF LinksPaired
  <2>1. CASE x \in {a, b}
    BY <1>1, <1>2, <1>5, <1>6, <2>1 DEF Paired
  <2>2. CASE x \notin {a, b}
    <3>1. link'[x] = link[x] /\ Paired(x)
      BY <1>4, <1>5, <2>2 DEF CpInv, LinksPaired
    <3>2. link[x] \notin {a, b}
      BY <1>3, <3>1, RowsApart DEF Paired
    <3> QED
      BY <1>5, <1>6, <3>1, <3>2 DEF Paired
  <2> QED
    BY <2>1, <2>2
<1>9. /\ row' \in [Rows -> [amount : Nat, account : Accounts \cup {NoRow},
                            close : SUBSET Invoices]]
      /\ stale' \in BOOLEAN
  BY <1>4 DEF CpInv, CpTypeOK
<1> QED
  BY <1>4, <1>5, <1>7, <1>8, <1>9, RequestEnds

LEMMA CpUnlink ==
  ASSUME CpInv, NEW r \in PayRequests, Unlink(r)
  PROVE  CpInv'
<1>1. PICK a \in Rows, b \in Rows : a = ask[r].a /\ b = ask[r].b
  BY Writing DEF Unlink, AskSound
<1>2. Named(r) = {a, b} /\ Finish(r) /\ row' = row
  BY <1>1, RowsApart DEF Named, Unlink
<1>3. /\ link' \in [Rows -> Rows \cup {NoRow}]
      /\ \A x \in Rows : link'[x] = IF x \in {a, b} /\ loaded[r][x] # NoRow
                                    THEN NoRow ELSE link[x]
  BY <1>2 DEF Unlink, CpInv, CpTypeOK
<1>4. /\ stale' \in BOOLEAN
      /\ ~stale' => ~stale /\ loaded[r][a] = link[a] /\ loaded[r][b] = link[b] /\ link[a] = b
  <2> loaded[r][a] = b
    BY <1>1, Writing DEF Unlink, StillChecked
  <2> QED
    BY <1>1, <1>2 DEF Unlink, CpInv, CpTypeOK
<1>5. Present' = Present
  BY <1>2 DEF Present
<1>6. \A x \in Rows, s \in PayRequests :
             holder[x] = s /\ s # r => x \in Present' /\ (link[x] = NoRow => link'[x] = NoRow)
  BY <1>3, <1>5 DEF CpInv, LocksInOrder
<1>7. LinksPaired'
  <2> SUFFICES ASSUME ~stale', NEW x \in Rows, link'[x] # NoRow
               PROVE  Paired(x)'
    BY DEF LinksPaired
  <2>1. /\ \A y \in Rows : link[y] = NoRow \/ Paired(y)
        /\ link[a] = b /\ loaded[r][a] = link[a] /\ loaded[r][b] = link[b]
    BY <1>4 DEF CpInv, LinksPaired
  <2>2. link[b] = a
    BY <2>1, RowsApart DEF Paired
  <2>3. \A y \in Rows : link'[y] = IF y \in {a, b} THEN NoRow ELSE link[y]
    BY <1>3, <2>1, <2>2
  <2>4. x \notin {a, b} /\ Paired(x)
    BY <2>1, <2>3
  <2>5. link[x] \notin {a, b}
    BY <2>1, <2>2, <2>4 DEF Paired
  <2> QED
    BY <1>5, <2>3, <2>4, <2>5 DEF Paired
<1>8. row' \in [Rows -> [amount : Nat, account : Accounts \cup {NoRow},
                            close : SUBSET Invoices]]
  BY <1>2 DEF CpInv, CpTypeOK
<1> QED
  BY <1>2, <1>3, <1>4, <1>6, <1>7, <1>8, RequestEnds

LEMMA CpPayNew ==
  ASSUME CpInv, NEW r \in PayRequests, PayNew(r)
  PROVE  CpInv'
<1>1. PICK a \in Invoices : a = ask[r].a
  BY Writing DEF PayNew, AskSound
<1>2. a \in Rows /\ holder[a] = r /\ ask[r].on \in Accounts /\ ask[r].op = "pay"
  BY <1>1, Writing DEF PayNew, AskSound
<1>3. link[a] = NoRow
  <2> loaded[r][a] = NoRow
    BY <1>1, Writing DEF PayNew, StillChecked
  <2> QED
    BY <1>2 DEF CpInv, CopiesHold
<1>4. PICK l \in Unused, near \in {{a}, {}} :
         /\ row' = [row EXCEPT ![l] = [amount |-> Due(a), account |-> ask[r].on, close |-> near]]
         /\ link' = [link EXCEPT ![l] = a, ![a] = l]
  BY <1>1 DEF PayNew
<1>5. l \in Legs /\ l \in Rows /\ l \in Banks /\ l \notin Present /\ l # a
      /\ \A s \in PayRequests : l \notin Named(s)
  BY <1>4, RowsApart DEF Unused, Rows, Banks
<1> DEFINE new == [amount |-> Due(a), account |-> ask[r].on, close |-> near]
<1>6. /\ new \in [amount : Nat, account : Accounts \cup {NoRow}, close : SUBSET Invoices]
      /\ new # NoData
  <2>1. Due(a) \in Nat
    BY AmountType DEF Due
  <2>2. new.account # NoData.account
    BY <1>2, RowsApart DEF NoData, Lockables
  <2> QED
    BY <1>2, <1>4, <2>1, <2>2
<1>7. row' = [row EXCEPT ![l] = new]
  BY <1>4
<1> HIDE DEF new
<1>8. /\ row' \in [Rows -> [amount : Nat, account : Accounts \cup {NoRow},
                            close : SUBSET Invoices]]
      /\ row'[l] = new /\ \A x \in Rows \ {l} : row'[x] = row[x]
  BY <1>5, <1>6, <1>7 DEF CpInv, CpTypeOK
<1>9. /\ link' \in [Rows -> Rows \cup {NoRow}] /\ link'[a] = l /\ link'[l] = a
      /\ \A x \in Rows \ {a, l} : link'[x] = link[x]
  BY <1>2, <1>4, <1>5 DEF CpInv, CpTypeOK
<1>10. Present' = Present \cup {l}
  BY <1>5, <1>6, <1>8 DEF Present
<1>11. Finish(r) /\ stale' = stale
  BY DEF PayNew
<1>12. \A x \in Rows, s \in PayRequests :
             holder[x] = s /\ s # r => x \in Present' /\ (link[x] = NoRow => link'[x] = NoRow)
  <2> SUFFICES ASSUME NEW x \in Rows, NEW s \in PayRequests, holder[x] = s, s # r
               PROVE  x \in Present' /\ (link[x] = NoRow => link'[x] = NoRow)
    OBVIOUS
  <2>1. x \in Named(s) /\ x \in Present
    BY DEF CpInv, LocksInOrder
  <2>2. x # l /\ x # a
    BY <1>2, <1>5, <2>1
  <2> QED
    BY <1>9, <1>10, <2>1, <2>2
<1>13. LinksPaired'
  <2> SUFFICES ASSUME ~stale', NEW x \in Rows, link'[x] # NoRow
               PROVE  Paired(x)'
    BY DEF LinksPaired
  <2>1. CASE x \in {a, l}
    BY <1>1, <1>2, <1>5, <1>9, <1>10, <2>1 DEF Paired
  <2>2. CASE x \notin {a, l}
    <3>1. link'[x] = link[x] /\ Paired(x)
      BY <1>9, <1>11, <2>2 DEF CpInv, LinksPaired
    <3>2. link[x] # a
      BY <1>3, <3>1, RowsApart DEF Paired
    <3>3. link[x] # l
      <4>1. link[x] = l => Paired(l)
        BY <1>5, <1>11, <3>1, RowsApart DEF CpInv, LinksPaired, Paired
      <4>2. ~Paired(l)
        BY <1>5, RowsApart DEF Paired
      <4> QED
        BY <4>1, <4>2
    <3> QED
      BY <1>9, <1>10, <3>1, <3>2, <3>3 DEF Paired
  <2> QED
    BY <2>1, <2>2
<1>14. stale' \in BOOLEAN
  BY <1>11 DEF CpInv, CpTypeOK
<1> QED
  BY <1>8, <1>9, <1>11, <1>12, <1>13, <1>14, RequestEnds

LEMMA CpDelete ==
  ASSUME CpInv, NEW r \in PayRequests, DeleteLeg(r)
  PROVE  CpInv'
<1>1. PICK l \in Legs : l = ask[r].a
  BY DEF DeleteLeg, CpInv, LocksInOrder, AskSound
<1>2. l \in Rows /\ holder[l] = r
  BY <1>1, RowsApart DEF DeleteLeg, Ready, Missing, Named, Rows
<1>3. /\ row' = [row EXCEPT ![l] = NoData] /\ Finish(r) /\ stale' = stale
      /\ link' = [x \in Rows |-> IF x = l \/ link[x] = l THEN NoRow ELSE link[x]]
  BY <1>1 DEF DeleteLeg
<1>4. /\ row' \in [Rows -> [amount : Nat, account : Accounts \cup {NoRow},
                            close : SUBSET Invoices]]
      /\ \A x \in Rows \ {l} : row'[x] = row[x]
  BY <1>3 DEF CpInv, CpTypeOK, NoData
<1>5. Present \ {l} \subseteq Present'
  BY <1>4 DEF Present
<1>6. /\ link' \in [Rows -> Rows \cup {NoRow}]
      /\ \A x \in Rows : link'[x] = IF x = l \/ link[x] = l THEN NoRow ELSE link[x]
  BY <1>3 DEF CpInv, CpTypeOK
<1>7. \A x \in Rows, s \in PayRequests :
             holder[x] = s /\ s # r => x \in Present' /\ (link[x] = NoRow => link'[x] = NoRow)
  <2> SUFFICES ASSUME NEW x \in Rows, NEW s \in PayRequests, holder[x] = s, s # r
               PROVE  x \in Present' /\ (link[x] = NoRow => link'[x] = NoRow)
    OBVIOUS
  <2>1. x \in Present /\ x # l
    BY <1>2 DEF CpInv, LocksInOrder
  <2> QED
    BY <1>5, <1>6, <2>1
<1>8. LinksPaired'
  <2> SUFFICES ASSUME ~stale', NEW x \in Rows, link'[x] # NoRow
               PROVE  Paired(x)'
    BY DEF LinksPaired
  <2>1. link'[x] = link[x] /\ x # l /\ link[x] # l /\ Paired(x)
    BY <1>3, <1>6 DEF CpInv, LinksPaired
  <2>2. link'[link[x]] = x
    BY <1>6, <2>1 DEF Paired
  <2> QED
    BY <1>5, <2>1, <2>2 DEF Paired
<1>9. stale' \in BOOLEAN
  BY <1>3 DEF CpInv, CpTypeOK
<1> QED
  BY <1>3, <1>4, <1>6, <1>7, <1>8, <1>9, RequestEnds

LEMMA CpRollBack ==
  ASSUME CpInv, NEW r \in PayRequests, Refuse(r) \/ DeadlockVictim(r)
  PROVE  CpInv'
<1>1. Finish(r) /\ UNCHANGED <<row, link, stale>>
  BY DEF Refuse, DeadlockVictim
<1>2. Present' = Present
  BY <1>1 DEF Present
<1>3. LinksPaired'
  BY <1>1, <1>2 DEF CpInv, LinksPaired, Paired
<1>4. \A x \in Rows, s \in PayRequests :
             holder[x] = s /\ s # r => x \in Present' /\ (link[x] = NoRow => link'[x] = NoRow)
  BY <1>1, <1>2 DEF CpInv, LocksInOrder
<1>5. /\ row' \in [Rows -> [amount : Nat, account : Accounts \cup {NoRow},
                            close : SUBSET Invoices]]
      /\ link' \in [Rows -> Rows \cup {NoRow}] /\ stale' \in BOOLEAN
  BY <1>1 DEF CpInv, CpTypeOK
<1> QED
  BY <1>1, <1>3, <1>4, <1>5, RequestEnds

LEMMA CpImport ==
  ASSUME CpInv, NEW r \in PayRequests, ImportDebit(r)
  PROVE  CpInv'
<1>1. PICK d \in Debits : d = ask[r].a
  BY DEF ImportDebit, CpInv, LocksInOrder, AskSound
<1> DEFINE new == [amount |-> Amount[d], account |-> Account[d],
                   close |-> {i \in Invoices : <<d, i>> \in Close}]
<1>2. row' = [row EXCEPT ![d] = new] /\ Finish(r) /\ UNCHANGED <<link, stale>>
  BY <1>1 DEF ImportDebit
<1>3. /\ new \in [amount : Nat, account : Accounts \cup {NoRow}, close : SUBSET Invoices]
      /\ new # NoData
  <2>1. new.account # NoData.account
    BY AccountType, RowsApart DEF NoData, Lockables
  <2> QED
    BY <2>1, AmountType, AccountType
<1> HIDE DEF new
<1>4. /\ row' \in [Rows -> [amount : Nat, account : Accounts \cup {NoRow},
                            close : SUBSET Invoices]]
      /\ \A x \in Rows : row'[x] = row[x] \/ row'[x] # NoData
  BY <1>2, <1>3 DEF CpInv, CpTypeOK
<1>5. Present \subseteq Present'
  BY <1>4 DEF Present
<1>6. LinksPaired'
  BY <1>2, <1>5 DEF CpInv, LinksPaired, Paired
<1>7. \A x \in Rows, s \in PayRequests :
             holder[x] = s /\ s # r => x \in Present' /\ (link[x] = NoRow => link'[x] = NoRow)
  BY <1>2, <1>5 DEF CpInv, LocksInOrder
<1>8. link' \in [Rows -> Rows \cup {NoRow}] /\ stale' \in BOOLEAN
  BY <1>2 DEF CpInv, CpTypeOK
<1> QED
  BY <1>2, <1>4, <1>6, <1>7, <1>8, RequestEnds

LEMMA CpStutter == CpInv /\ UNCHANGED cpVars => CpInv'
<1> SUFFICES ASSUME CpInv, UNCHANGED cpVars PROVE CpInv'
  OBVIOUS
<1>1. /\ row' = row /\ link' = link /\ holder' = holder /\ ask' = ask
      /\ loaded' = loaded /\ stale' = stale
  BY DEF cpVars
<1>2. Present' = Present
  BY <1>1 DEF Present
<1>3. \A r \in PayRequests : Named(r)' = Named(r) /\ Held(r)' = Held(r) /\ Lacking(r)' = Lacking(r)
  BY <1>1 DEF Named, Held, Lacking
<1>4. CpTypeOK' /\ CopiesHold' /\ IdleUnread' /\ AllChecked'
  BY <1>1, <1>3 DEF CpInv, CpTypeOK, CopiesHold, IdleUnread, AllChecked, StillChecked
<1>5. LocksInOrder'
  BY <1>1, <1>2, <1>3 DEF CpInv, LocksInOrder
<1>6. LinksPaired'
  BY <1>1, <1>2 DEF CpInv, LinksPaired, Paired
<1> QED
  BY <1>4, <1>5, <1>6 DEF CpInv

LEMMA CpStep == CpInv /\ [CpNext]_cpVars => CpInv'
  BY CpImport, CpAsk, CpLock, CpLockAccount, CpDecide, CpFlush, CpLink, CpUnlink, CpPayNew,
     CpDelete, CpRollBack, CpStutter DEF CpNext

LEMMA CpAlways == CpSpec => []CpInv
  BY CpStart, CpStep, PTL DEF CpSpec

(* What requests lock, load and write is of its type, and the foreign key   *)
(* of a link points at a row (card_payment_reconciliation.py).              *)
THEOREM CardPaymentTypes == CpSpec => []CpTypeOK
<1>1. CpInv => CpTypeOK
  BY DEF CpInv
<1> QED
  BY <1>1, CpAlways, PTL

(* Link, unlink and pay lock the rows they name by ascending id: however    *)
(* many sessions wait for each other in a circle, one of them waits for     *)
(* something else than such a row, because whoever holds what another needs *)
(* is itself waiting only for rows of higher id.                            *)
THEOREM RowLocksNeverCycle == CpSpec => []RowsNeverCycle
<1>1. CpInv => RowsNeverCycle
  <2> SUFFICES ASSUME CpInv, NEW G \in SUBSET PayRequests, Circle(G),
                      \A r \in G : LocksRows(r)
               PROVE  FALSE
    BY DEF RowsNeverCycle
  <2> DEFINE f == [r \in G |-> Rank[NextLock(r)]]
  <2>1. ASSUME NEW r \in G PROVE NextLock(r) \in Lacking(r) /\ NextLock(r) \in Rows
    BY NextIsMissing DEF LocksRows, Lacks
  <2>2. f \in [G -> Nat]
    BY <2>1, RankInjective
  <2>3. PICK r \in G : \A s \in G : f[s] <= f[r]
    <3>1. G # {} /\ IsFiniteSet(G)
      BY FiniteRows, FS_Subset DEF Circle
    <3> HIDE DEF f
    <3> QED
      BY <2>2, <3>1, Foremost
  <2>4. PICK s \in G : Waits(r, s)
    BY DEF Circle
  <2>5. NextLock(r) \in Held(s)
    BY <2>1, <2>4 DEF Waits, Wanted, LocksRows, Held
  <2>6. Rank[NextLock(r)] < Rank[NextLock(s)]
    BY <2>1, <2>5 DEF CpInv, LocksInOrder, Held
  <2>7. f[s] <= f[r] /\ f[r] \in Nat /\ f[s] \in Nat
    BY <2>2, <2>3
  <2> QED
    BY <2>6, <2>7
<1> QED
  BY <1>1, CpAlways, PTL

(* Through any interleaving of links, payments, unlinks and deletions the   *)
(* two rows of a link point at each other and a linked invoice is proven    *)
(* paid, unless an unlink acted on an outdated copy; and paying by hand is  *)
(* refused exactly where the list of debits offers a certain pair.          *)
THEOREM LinksAgree == CpSpec => []CardLinksAgree
<1>1. CpInv => ReciprocalUnlessStale
  <2> SUFFICES ASSUME CpInv, ~stale
               PROVE  LinksReciprocal /\ \A i \in Invoices : link[i] # NoRow => Proven(i)
    BY DEF ReciprocalUnlessStale
  <2>1. \A x \in Rows : link[x] = NoRow \/ Paired(x)
    BY DEF CpInv, LinksPaired
  <2>2. LinksReciprocal
    BY <2>1, RowsApart DEF LinksReciprocal, Paired
  <2>3. ASSUME NEW i \in Invoices, link[i] # NoRow PROVE Proven(i)
    <3>1. i \in Rows /\ i \notin Banks
      BY RowsApart DEF Rows, Banks
    <3>2. link[i] \in Banks \cap Present /\ link[link[i]] = i
      BY <2>1, <2>3, <3>1 DEF Paired
    <3> QED
      BY <3>2 DEF Proven
  <2> QED
    BY <2>2, <2>3
<1>2. CpInv => CardLinksAgree
  BY <1>1, OnePolicyHolds DEF CardLinksAgree
<1> QED
  BY <1>2, CpAlways, PTL

-----------------------------------------------------------------------------
(* Sums over finite sets, by a smallest counterexample.                     *)

(* Of some finite sets one has none of the others below it: what holds of   *)
(* every set is shown of a smallest one it would fail of.                   *)
LEMMA SmallestSet ==
  ASSUME NEW S, IsFiniteSet(S), NEW Bad \in SUBSET (SUBSET S), Bad # {}
  PROVE  \E s \in Bad : \A t \in Bad : t \subseteq s => t = s
<1> DEFINE sizes == {Cardinality(s) : s \in Bad}
<1>1. \A s \in SUBSET S : IsFiniteSet(s) /\ Cardinality(s) \in Nat
  BY FS_Subset, FS_CardinalityType
<1>2. sizes \in SUBSET Nat /\ sizes # {}
  BY <1>1
<1>3. PICK n \in sizes : \A k \in sizes : n <= k
  <2> HIDE DEF sizes
  <2> QED
    BY <1>2, LeastNumber
<1>4. PICK s \in Bad : n = Cardinality(s)
  BY <1>3
<1>5. ASSUME NEW t \in Bad, t \subseteq s PROVE t = s
  <2>1. Cardinality(s) <= Cardinality(t)
    BY <1>3, <1>4
  <2>2. Cardinality(t) <= Cardinality(s) /\ (Cardinality(t) = Cardinality(s) => t = s)
    BY <1>1, <1>5, FS_Subset
  <2> QED
    BY <1>1, <2>1, <2>2
<1> QED
  BY <1>5

First(s) == CHOOSE x \in s : TRUE
Summed(g, f, S) ==
    g = [s \in SUBSET S |-> IF s = {} THEN 0 ELSE f[First(s)] + g[s \ {First(s)}]]

LEMMA FirstIsIn == ASSUME NEW s, s # {} PROVE First(s) \in s
  BY DEF First

LEMMA SummedExists ==
  ASSUME NEW S, IsFiniteSet(S), NEW f
  PROVE  \E g : Summed(g, f, S)
<1> DEFINE N == Cardinality(S)
           Small(n) == {s \in SUBSET S : Cardinality(s) <= n}
           Is(g, n) == \A s \in Small(n) :
                          g[s] = IF s = {} THEN 0 ELSE f[First(s)] + g[s \ {First(s)}]
           Bad == {n \in 0 .. N : ~ \E g : Is(g, n)}
<1>1. N \in Nat /\ \A s \in SUBSET S : IsFiniteSet(s) /\ Cardinality(s) \in Nat /\ Cardinality(s) <= N
  BY FS_Subset, FS_CardinalityType
<1>2. \A s \in SUBSET S : s # {} =>
         /\ First(s) \in s /\ s \ {First(s)} \in SUBSET S
         /\ Cardinality(s \ {First(s)}) = Cardinality(s) - 1
  <2> SUFFICES ASSUME NEW s \in SUBSET S, s # {}
               PROVE  /\ First(s) \in s /\ s \ {First(s)} \in SUBSET S
                      /\ Cardinality(s \ {First(s)}) = Cardinality(s) - 1
    OBVIOUS
  <2>1. First(s) \in s
    BY FirstIsIn
  <2> QED
    BY <1>1, <2>1, FS_RemoveElement
<1>3. Bad = {}
  <2> SUFFICES ASSUME Bad # {} PROVE FALSE
    OBVIOUS
  <2>1. PICK m \in Bad : \A k \in Bad : m <= k
    <3>1. Bad \in SUBSET Nat
      BY <1>1
    <3> HIDE DEF Bad
    <3> QED
      BY <3>1, LeastNumber
  <2>2. m \in 0 .. N /\ m \in Nat
    BY <1>1
  <2>3. CASE m = 0
    <3> DEFINE g == [s \in SUBSET S |-> 0]
    <3>1. \A s \in Small(m) : s = {}
      BY <1>1, <2>3, FS_EmptySet
    <3>2. Is(g, m)
      BY <3>1
    <3> QED
      BY <3>2
  <2>4. CASE m # 0
    <3>1. m - 1 \in 0 .. N /\ m - 1 \notin Bad
      <4>1. m - 1 \in Bad => m <= m - 1
        BY <2>1
      <4> HIDE DEF Bad
      <4> QED
        BY <1>1, <2>2, <2>4, <4>1
    <3>2. PICK h : Is(h, m - 1)
      BY <3>1
    <3> DEFINE g == [s \in SUBSET S |-> IF Cardinality(s) <= m - 1 THEN h[s]
                                        ELSE f[First(s)] + h[s \ {First(s)}]]
    <3>3. ASSUME NEW s \in Small(m)
          PROVE  g[s] = IF s = {} THEN 0 ELSE f[First(s)] + g[s \ {First(s)}]
      <4> DEFINE c == Cardinality(s)
      <4>1. s \in SUBSET S /\ c \in Nat /\ c <= m
        BY <1>1
      <4>2. CASE s = {}
        <5>1. c = 0
          BY <4>2, FS_EmptySet
        <5>2. s \in Small(m - 1) /\ c <= m - 1
          BY <2>2, <2>4, <4>1, <5>1
        <5>3. g[s] = h[s]
          BY <4>1, <5>2
        <5> QED
          BY <3>2, <4>2, <5>2, <5>3
      <4>3. CASE s # {}
        <5> DEFINE u == s \ {First(s)}
        <5>1. u \in SUBSET S /\ Cardinality(u) = c - 1
          BY <1>2, <4>1, <4>3
        <5>2. g[u] = h[u]
          BY <2>2, <4>1, <5>1
        <5>3. CASE c <= m - 1
          <6>1. s \in Small(m - 1)
            BY <4>1, <5>3
          <6>2. g[s] = h[s]
            BY <4>1, <5>3
          <6>3. h[s] = f[First(s)] + h[u]
            BY <3>2, <4>3, <6>1
          <6> QED
            BY <4>3, <5>2, <6>2, <6>3
        <5>4. CASE ~ (c <= m - 1)
          <6>1. g[s] = f[First(s)] + h[u]
            BY <4>1, <5>4
          <6> QED
            BY <4>3, <5>2, <6>1
        <5> QED
          BY <5>3, <5>4
      <4> QED
        BY <4>2, <4>3
    <3>4. Is(g, m)
      <4> HIDE DEF g
      <4> QED
        BY <3>3
    <3> HIDE DEF g, Is
    <3> QED
      BY <3>4
  <2> QED
    BY <2>3, <2>4
<1>4. PICK h : Is(h, N)
  <2>1. N \in 0 .. N
    BY <1>1
  <2> HIDE DEF N, Is
  <2> QED
    BY <1>3, <2>1
<1> DEFINE g == [s \in SUBSET S |-> h[s]]
<1>5. ASSUME NEW s \in SUBSET S
      PROVE  g[s] = IF s = {} THEN 0 ELSE f[First(s)] + g[s \ {First(s)}]
  <2>1. s \in Small(N)
    BY <1>1
  <2>2. h[s] = IF s = {} THEN 0 ELSE f[First(s)] + h[s \ {First(s)}]
    BY <1>4, <2>1
  <2> QED
    BY <2>2
<1>6. Summed(g, f, S)
  BY <1>5 DEF Summed
<1> QED
  BY <1>6

LEMMA SumIsSummed ==
  ASSUME NEW S, IsFiniteSet(S), NEW f
  PROVE  \E g : Summed(g, f, S) /\ SumOf(f, S) = g[S]
<1> DEFINE iter == CHOOSE h : Summed(h, f, S)
<1>1. SumOf(f, S) = iter[S]
  BY DEF SumOf, MapThenSumSet, MapThenFoldSet, Summed, First
<1>2. Summed(iter, f, S)
  BY SummedExists
<1> QED
  BY <1>1, <1>2

(* What a sum is: nothing of nothing, and of others the value of one and    *)
(* the sum of the rest.                                                     *)
LEMMA SumOfNothing == ASSUME NEW f PROVE SumOf(f, {}) = 0
<1>1. PICK g : Summed(g, f, {}) /\ SumOf(f, {}) = g[{}]
  BY FS_EmptySet, SumIsSummed
<1> QED
  BY <1>1 DEF Summed

LEMMA SummedAgree ==
  ASSUME NEW S, IsFiniteSet(S), NEW T, S \subseteq T, NEW f, NEW e, \A x \in S : f[x] = e[x],
         NEW g, Summed(g, f, S), NEW h, Summed(h, e, T)
  PROVE  g[S] = h[S]
<1> DEFINE Bad == {s \in SUBSET S : g[s] # h[s]}
<1> SUFFICES ASSUME Bad # {} PROVE FALSE
  OBVIOUS
<1>1. PICK s \in Bad : \A t \in Bad : t \subseteq s => t = s
  <2>1. Bad \in SUBSET (SUBSET S)
    OBVIOUS
  <2> HIDE DEF Bad
  <2> QED
    BY <2>1, SmallestSet
<1>2. s \in SUBSET S /\ s \in SUBSET T
  OBVIOUS
<1>3. /\ g[s] = IF s = {} THEN 0 ELSE f[First(s)] + g[s \ {First(s)}]
      /\ h[s] = IF s = {} THEN 0 ELSE e[First(s)] + h[s \ {First(s)}]
  BY <1>2 DEF Summed
<1>4. CASE s = {}
  BY <1>3, <1>4
<1>5. CASE s # {}
  <2>1. First(s) \in s
    BY <1>5, FirstIsIn
  <2>2. s \ {First(s)} \notin Bad /\ s \ {First(s)} \in SUBSET S
    BY <1>1, <1>2, <2>1
  <2> QED
    BY <1>2, <1>3, <1>5, <2>1, <2>2
<1> QED
  BY <1>4, <1>5

LEMMA SumsAgree ==
  ASSUME NEW S, IsFiniteSet(S), NEW f, NEW e, \A x \in S : f[x] = e[x]
  PROVE  SumOf(f, S) = SumOf(e, S)
<1>1. PICK g : Summed(g, f, S) /\ SumOf(f, S) = g[S]
  BY SumIsSummed
<1>2. PICK h : Summed(h, e, S) /\ SumOf(e, S) = h[S]
  BY SumIsSummed
<1> QED
  BY <1>1, <1>2, SummedAgree

LEMMA SumTakesFirst ==
  ASSUME NEW S, IsFiniteSet(S), S # {}, NEW f
  PROVE  SumOf(f, S) = f[First(S)] + SumOf(f, S \ {First(S)})
<1> DEFINE T == S \ {First(S)}
<1>1. IsFiniteSet(T) /\ T \subseteq S /\ T \in SUBSET S
  BY FS_Subset
<1> HIDE DEF T
<1>2. PICK g : Summed(g, f, S) /\ SumOf(f, S) = g[S]
  BY SumIsSummed
<1>3. PICK h : Summed(h, f, T) /\ SumOf(f, T) = h[T]
  BY <1>1, SumIsSummed
<1>4. h[T] = g[T]
  BY <1>1, <1>2, <1>3, SummedAgree
<1>5. g[S] = f[First(S)] + g[T]
  BY <1>2 DEF Summed, T
<1> QED
  BY <1>2, <1>3, <1>4, <1>5 DEF T

LEMMA SumIsNat ==
  ASSUME NEW S, IsFiniteSet(S), NEW f, \A x \in S : f[x] \in Nat
  PROVE  SumOf(f, S) \in Nat
<1> DEFINE Bad == {s \in SUBSET S : SumOf(f, s) \notin Nat}
<1> SUFFICES ASSUME Bad # {} PROVE FALSE
  OBVIOUS
<1>1. PICK s \in Bad : \A t \in Bad : t \subseteq s => t = s
  <2>1. Bad \in SUBSET (SUBSET S)
    OBVIOUS
  <2> HIDE DEF Bad
  <2> QED
    BY <2>1, SmallestSet
<1>2. IsFiniteSet(s)
  BY FS_Subset
<1>0. s # {}
  <2>1. SumOf(f, s) # 0
    OBVIOUS
  <2> QED
    BY <2>1, SumOfNothing
<1>3. First(s) \in s /\ SumOf(f, s) = f[First(s)] + SumOf(f, s \ {First(s)})
  BY <1>0, <1>2, FirstIsIn, SumTakesFirst
<1>4. SumOf(f, s \ {First(s)}) \in Nat
  BY <1>1, <1>3
<1> QED
  BY <1>3, <1>4

LEMMA SumTakesAny ==
  ASSUME NEW S, IsFiniteSet(S), NEW f, \A x \in S : f[x] \in Nat, NEW a \in S
  PROVE  SumOf(f, S) = f[a] + SumOf(f, S \ {a})
<1> DEFINE Fails(s) == \E b \in s : SumOf(f, s) # f[b] + SumOf(f, s \ {b})
           Bad == {s \in SUBSET S : Fails(s)}
<1> SUFFICES ASSUME Bad # {} PROVE FALSE
  OBVIOUS
<1>1. PICK s \in Bad : \A t \in Bad : t \subseteq s => t = s
  <2>1. Bad \in SUBSET (SUBSET S)
    OBVIOUS
  <2> HIDE DEF Bad
  <2> QED
    BY <2>1, SmallestSet
<1>2. PICK b \in s : SumOf(f, s) # f[b] + SumOf(f, s \ {b})
  OBVIOUS
<1>3. s \in SUBSET S /\ s # {} /\ \A t \in SUBSET s : IsFiniteSet(t) /\ SumOf(f, t) \in Nat
  BY FS_Subset, SumIsNat
<1> DEFINE x == First(s)
<1>4. x \in s /\ SumOf(f, s) = f[x] + SumOf(f, s \ {x}) /\ x # b
  BY <1>2, <1>3, FirstIsIn, SumTakesFirst
<1> HIDE DEF x, Fails
<1>5. ~ Fails(s \ {x}) /\ ~ Fails(s \ {b})
  BY <1>1, <1>2, <1>3, <1>4
<1>6. SumOf(f, s \ {x}) = f[b] + SumOf(f, (s \ {x}) \ {b})
  BY <1>2, <1>4, <1>5 DEF Fails
<1>7. SumOf(f, s \ {b}) = f[x] + SumOf(f, (s \ {b}) \ {x})
  BY <1>2, <1>4, <1>5 DEF Fails
<1>8. (s \ {x}) \ {b} = (s \ {b}) \ {x}
  OBVIOUS
<1>9. f[x] \in Nat /\ f[b] \in Nat /\ SumOf(f, (s \ {x}) \ {b}) \in Nat
  BY <1>2, <1>3, <1>4
<1> QED
  BY <1>2, <1>4, <1>6, <1>7, <1>8, <1>9

LEMMA SumWithOne ==
  ASSUME NEW S, IsFiniteSet(S), NEW a, a \notin S, NEW f, \A x \in S : f[x] \in Nat, f[a] \in Nat
  PROVE  SumOf(f, S \cup {a}) = SumOf(f, S) + f[a]
<1> DEFINE T == S \cup {a}
<1>1. IsFiniteSet(T) /\ a \in T /\ T \ {a} = S /\ \A x \in T : f[x] \in Nat
  BY FS_AddElement
<1>2. SumOf(f, S) \in Nat
  BY SumIsNat
<1> HIDE DEF T
<1>3. SumOf(f, T) = f[a] + SumOf(f, T \ {a})
  BY <1>1, SumTakesAny
<1> QED
  BY <1>1, <1>2, <1>3 DEF T

LEMMA SumOfBoth ==
  ASSUME NEW S, IsFiniteSet(S), NEW T, IsFiniteSet(T), S \cap T = {},
         NEW f, \A x \in S \cup T : f[x] \in Nat
  PROVE  SumOf(f, S \cup T) = SumOf(f, S) + SumOf(f, T)
<1> DEFINE Fails(s) == SumOf(f, s \cup T) # SumOf(f, s) + SumOf(f, T)
           Bad == {s \in SUBSET S : Fails(s)}
<1> SUFFICES ASSUME Bad # {} PROVE FALSE
  OBVIOUS
<1>1. PICK s \in Bad : \A t \in Bad : t \subseteq s => t = s
  <2>1. Bad \in SUBSET (SUBSET S)
    OBVIOUS
  <2> HIDE DEF Bad
  <2> QED
    BY <2>1, SmallestSet
<1>2. \A t \in SUBSET S : IsFiniteSet(t) /\ IsFiniteSet(t \cup T) /\ SumOf(f, t) \in Nat
                          /\ SumOf(f, t \cup T) \in Nat
  BY FS_Subset, FS_Union, SumIsNat
<1>3. SumOf(f, T) \in Nat
  BY SumIsNat
<1>4. s # {}
  <2> SUFFICES ASSUME s = {} PROVE FALSE
    OBVIOUS
  <2>1. SumOf(f, s) = 0 /\ s \cup T = T
    BY SumOfNothing
  <2> QED
    BY <1>3, <2>1
<1>5. PICK a \in s : TRUE
  BY <1>4
<1> DEFINE u == s \ {a}
<1>6. ~ Fails(u)
  <2> HIDE DEF Fails
  <2> QED
    BY <1>1
<1>7. SumOf(f, s) = f[a] + SumOf(f, u)
  BY <1>2, SumTakesAny
<1>8. SumOf(f, s \cup T) = f[a] + SumOf(f, u \cup T)
  <2>1. (s \cup T) \ {a} = u \cup T /\ a \in s \cup T
    OBVIOUS
  <2>2. SumOf(f, s \cup T) = f[a] + SumOf(f, (s \cup T) \ {a})
    BY <1>2, <2>1, SumTakesAny
  <2> QED
    BY <2>1, <2>2
<1>9. f[a] \in Nat /\ SumOf(f, u) \in Nat /\ SumOf(f, u \cup T) \in Nat
  BY <1>2
<1> HIDE DEF u
<1> QED
  BY <1>3, <1>6, <1>7, <1>8, <1>9

LEMMA SumGrows ==
  ASSUME NEW S, NEW T, IsFiniteSet(T), S \subseteq T, NEW f, \A x \in T : f[x] \in Nat
  PROVE  SumOf(f, S) <= SumOf(f, T)
<1> DEFINE R == T \ S
<1>1. IsFiniteSet(S) /\ IsFiniteSet(R) /\ S \cap R = {} /\ S \cup R = T
  BY FS_Subset
<1> HIDE DEF R
<1>2. SumOf(f, S \cup R) = SumOf(f, S) + SumOf(f, R)
  BY <1>1, SumOfBoth
<1>3. SumOf(f, S) \in Nat /\ SumOf(f, R) \in Nat
  BY <1>1, SumIsNat
<1>4. SumOf(f, T) = SumOf(f, S) + SumOf(f, R)
  BY <1>1, <1>2
<1> QED
  BY <1>3, <1>4

-----------------------------------------------------------------------------
(* The books of a card, and what a request makes of them.                   *)
LEMMA CyclesAreNat ==
  /\ \A c \in Cycles : c \in Nat /\ c >= 1 /\ c <= LastCycle
  /\ \A c \in Nat : c >= 1 /\ c <= LastCycle => c \in Cycles
  /\ \A c \in Cycles : c # 1 => c - 1 \in Cycles
  /\ \A l \in LegIds : l \in Nat
  BY CardAssumption DEF Cycles, LegIds

LEMMA TotalIsNat ==
  /\ \A S \in SUBSET Purchases : IsFiniteSet(S) /\ Total(S) \in Nat
  /\ \A S \in SUBSET Credits : IsFiniteSet(S) /\ Total(S) \in Nat
<1>1. ASSUME NEW T, IsFiniteSet(T), \A x \in T : Value[x] \in Nat, NEW S \in SUBSET T
      PROVE  IsFiniteSet(S) /\ Total(S) \in Nat
  <2>1. IsFiniteSet(S) /\ \A x \in S : Value[x] \in Nat
    BY <1>1, FS_Subset
  <2>2. SumOf(Value, S) \in Nat
    BY <2>1, SumIsNat
  <2> QED
    BY <2>1, <2>2 DEF Total
<1>2. /\ IsFiniteSet(Purchases) /\ \A x \in Purchases : Value[x] \in Nat
      /\ IsFiniteSet(Credits) /\ \A x \in Credits : Value[x] \in Nat
  BY CardAssumption
<1> QED
  BY <1>1, <1>2

LEMMA BooksAreTyped ==
  ASSUME NEW b \in Books
  PROVE  /\ b.buy \in [Purchases -> [state : States, cycle : Cycles \cup {0}, claimed : BOOLEAN]]
         /\ b.back \in [Credits -> [state : States, cycle : Cycles \cup {0},
                                    of : Purchases \cup {NoPurchase}]]
         /\ b.leg \in [LegIds -> [state : States, cycle : Cycles \cup {0}, amount : Nat,
                                  key : Keys \cup {0}]]
         /\ b.inv \in [Cycles -> [made : BOOLEAN, computed : Nat, carriedIn : Nat,
                                  carriedOut : Nat, paid : Nat,
                                  status : {"open", "closed", "partially_paid", "paid"}]]
         /\ DOMAIN b.buy = Purchases /\ DOMAIN b.back = Credits
         /\ DOMAIN b.leg = LegIds /\ DOMAIN b.inv = Cycles
  BY DEF Books

LEMMA RowSets ==
  ASSUME NEW b \in Books, NEW c
  PROVE  /\ \A p : p \in Claimed(b, c) <=> /\ p \in Purchases /\ b.buy[p].state = "booked"
                                           /\ b.buy[p].cycle = c /\ b.buy[p].claimed
         /\ \A p : p \in Unclaimed(b, c) <=> /\ p \in Purchases /\ b.buy[p].state = "booked"
                                             /\ b.buy[p].cycle = c /\ ~b.buy[p].claimed
         /\ LinkedIn(b, c) \subseteq Credits
         /\ \A l : l \in LegsOf(b, c) <=> l \in LegIds /\ b.leg[l].state = "booked" /\ b.leg[l].cycle = c
  BY BooksAreTyped DEF Claimed, Unclaimed, LinkedIn, LegsOf, Booked

LEMMA LessIsNat ==
  ASSUME NEW x \in Nat, NEW y \in Nat
  PROVE  Less(x, y) \in Nat /\ Less(x, y) <= x
  BY DEF Less

LEMMA ComputedIsNat ==
  ASSUME NEW copy \in Books, NEW d \in Books, NEW c
  PROVE  /\ Computed(copy, d, c) \in Nat
         /\ Computed(copy, d, c) <= Total(Claimed(d, c) \cup Unclaimed(copy, c))
<1>1. Claimed(d, c) \cup Unclaimed(copy, c) \in SUBSET Purchases /\ LinkedIn(d, c) \in SUBSET Credits
  BY RowSets
<1>2. Total(Claimed(d, c) \cup Unclaimed(copy, c)) \in Nat /\ Total(LinkedIn(d, c)) \in Nat
  BY <1>1, TotalIsNat
<1> QED
  BY <1>2, LessIsNat DEF Computed

LEMMA OutstandingIsNat ==
  ASSUME NEW b \in Books, NEW c \in Cycles
  PROVE  Outstanding(b.inv[c]) \in Nat
<1>1. b.inv[c].computed + b.inv[c].carriedIn \in Nat /\ b.inv[c].paid \in Nat
  BY BooksAreTyped
<1> QED
  BY <1>1, LessIsNat DEF Outstanding

(* What a synchronisation leaves: purchases claimed, the total of the one   *)
(* invoice, and its balance carried in while nothing was paid on it.        *)
SyncLeaves(s, copy, d, c) ==
    /\ s \in Books /\ s.leg = copy.leg /\ s.back = copy.back
    /\ \A p \in Purchases :
         /\ s.buy[p].state = copy.buy[p].state /\ s.buy[p].cycle = copy.buy[p].cycle
         /\ s.buy[p].claimed = (copy.buy[p].claimed \/ p \in Unclaimed(copy, c))
    /\ \A i \in Cycles :
         /\ s.inv[i].paid = copy.inv[i].paid
         /\ s.inv[i].status = "paid" <=> copy.inv[i].status = "paid"
         /\ i # c => /\ s.inv[i].computed = copy.inv[i].computed
                     /\ s.inv[i].carriedIn = copy.inv[i].carriedIn
                     /\ s.inv[i].status = copy.inv[i].status
    /\ s.inv[c].computed = Computed(copy, d, c)
    /\ copy.inv[c].paid # 0 => s.inv[c].carriedIn = copy.inv[c].carriedIn
    /\ copy.inv[c].paid = 0 =>
         s.inv[c].carriedIn = IF c # 1 /\ d.inv[c - 1].made THEN Outstanding(d.inv[c - 1]) ELSE 0

LEMMA SyncedIs ==
  ASSUME NEW copy \in Books, NEW d \in Books, NEW c \in Cycles
  PROVE  SyncLeaves(Synced(copy, d, c), copy, d, c)
<1> DEFINE s == Synced(copy, d, c)
<1> DEFINE before == IF c = 1 THEN NoInvoice ELSE d.inv[c - 1]
           live == Inherits(copy.inv[c])
           carried == IF ~live THEN copy.inv[c].carriedIn
                      ELSE IF before.made THEN Outstanding(before) ELSE 0
           bill == [copy.inv[c] EXCEPT
                     !.made = TRUE,
                     !.computed = Computed(copy, d, c),
                     !.carriedIn = IF ~live THEN @
                                   ELSE IF before.made THEN Outstanding(before) ELSE 0,
                     !.status = IF @ = "open" /\ c <= today THEN "closed" ELSE @]
           buys == [p \in Purchases |-> IF p \in Unclaimed(copy, c)
                                        THEN [copy.buy[p] EXCEPT !.claimed = TRUE]
                                        ELSE copy.buy[p]]
           invs == [i \in Cycles |->
                      IF i = c THEN bill
                      ELSE IF i = c - 1 /\ live /\ before.made
                      THEN [copy.inv[i] EXCEPT !.carriedOut = Outstanding(before)]
                      ELSE copy.inv[i]]
<1>1. s = [copy EXCEPT !.buy = buys, !.inv = invs]
  BY DEF Synced
<1> HIDE DEF s
<1>2. c = 1 \/ c - 1 \in Cycles
  BY CyclesAreNat
<1>3. Computed(copy, d, c) \in Nat
  BY ComputedIsNat
<1>4. Outstanding(before) \in Nat
  <2>1. CASE c = 1
    BY <2>1, LessIsNat DEF Outstanding, NoInvoice
  <2>2. CASE c # 1
    BY <1>2, <2>2, OutstandingIsNat
  <2> QED
    BY <2>1, <2>2
<1>5. live = (copy.inv[c].paid = 0) /\ (before.made => c # 1 /\ d.inv[c - 1].made)
      /\ (c # 1 => before = d.inv[c - 1]) /\ (c = 1 => ~before.made)
  BY DEF Inherits, NoInvoice
<1>6. carried \in Nat
  BY <1>4, BooksAreTyped
<1> HIDE DEF before, live
<1>7. bill \in [made : BOOLEAN, computed : Nat, carriedIn : Nat, carriedOut : Nat, paid : Nat,
               status : {"open", "closed", "partially_paid", "paid"}]
      /\ bill.paid = copy.inv[c].paid /\ bill.computed = Computed(copy, d, c)
      /\ bill.carriedIn = carried /\ (bill.status = "paid" <=> copy.inv[c].status = "paid")
  <2> copy.inv[c] \in [made : BOOLEAN, computed : Nat, carriedIn : Nat, carriedOut : Nat, paid : Nat,
               status : {"open", "closed", "partially_paid", "paid"}]
    BY BooksAreTyped
  <2> QED
    BY <1>3, <1>6
<1> HIDE DEF bill, carried
<1>8. /\ invs \in [Cycles -> [made : BOOLEAN, computed : Nat, carriedIn : Nat,
                                  carriedOut : Nat, paid : Nat,
                                  status : {"open", "closed", "partially_paid", "paid"}]]
      /\ invs[c] = bill
      /\ \A i \in Cycles : i # c => /\ invs[i].paid = copy.inv[i].paid
                                    /\ invs[i].computed = copy.inv[i].computed
                                    /\ invs[i].carriedIn = copy.inv[i].carriedIn
                                    /\ invs[i].status = copy.inv[i].status
  BY <1>4, <1>7, BooksAreTyped
<1>9. /\ buys \in [Purchases -> [state : States, cycle : Cycles \cup {0}, claimed : BOOLEAN]]
      /\ \A p \in Purchases :
              /\ buys[p].state = copy.buy[p].state /\ buys[p].cycle = copy.buy[p].cycle
              /\ buys[p].claimed = (copy.buy[p].claimed \/ p \in Unclaimed(copy, c))
  <2>1. copy.buy \in [Purchases -> [state : States, cycle : Cycles \cup {0}, claimed : BOOLEAN]]
    BY BooksAreTyped
  <2>2. ASSUME NEW p \in Purchases
        PROVE  /\ buys[p] \in [state : States, cycle : Cycles \cup {0}, claimed : BOOLEAN]
               /\ buys[p].state = copy.buy[p].state /\ buys[p].cycle = copy.buy[p].cycle
               /\ buys[p].claimed = (copy.buy[p].claimed \/ p \in Unclaimed(copy, c))
    <3>1. CASE p \in Unclaimed(copy, c)
      BY <2>1, <3>1
    <3>2. CASE p \notin Unclaimed(copy, c)
      BY <2>1, <3>2
    <3> QED
      BY <3>1, <3>2
  <2> QED
    BY <2>2
<1> HIDE DEF invs, buys
<1>10. s \in Books /\ s.leg = copy.leg /\ s.back = copy.back /\ s.buy = buys /\ s.inv = invs
  BY <1>1, <1>8, <1>9 DEF Books
<1>11. carried = IF copy.inv[c].paid # 0 THEN copy.inv[c].carriedIn
                 ELSE IF c # 1 /\ d.inv[c - 1].made THEN Outstanding(d.inv[c - 1]) ELSE 0
  BY <1>5 DEF carried
<1> QED
  BY <1>7, <1>8, <1>9, <1>10, <1>11 DEF SyncLeaves, s

LEMMA MinIsIn ==
  ASSUME NEW S \in SUBSET Nat, S # {}
  PROVE  Min(S) \in S
<1>1. \E x \in S : \A y \in S : x <= y
  BY LeastNumber
<1> QED
  BY <1>1 DEF Min

(* What a payment adds to that: it is replayed, or it takes a new row, and  *)
(* its invoice is paid when it leaves no more than the tolerance.           *)
PayLeaves(n, s, now, c, amount) ==
    \E l \in LegIds :
        /\ now.leg[l].state = "new" /\ n \in Books /\ n.buy = s.buy /\ n.back = s.back
        /\ \A m \in LegIds : m # l => n.leg[m] = s.leg[m]
        /\ n.leg[l].state = "booked" /\ n.leg[l].cycle = c /\ n.leg[l].amount = amount
        /\ \A i \in Cycles :
             /\ n.inv[i].computed = s.inv[i].computed
             /\ n.inv[i].carriedIn = s.inv[i].carriedIn
             /\ i # c => n.inv[i].paid = s.inv[i].paid /\ n.inv[i].status = s.inv[i].status
        /\ n.inv[c].paid = s.inv[c].paid + amount
        /\ n.inv[c].status = "paid" <=> Outstanding(n.inv[c]) <= 1

LEMMA PaidOffIs ==
  ASSUME NEW copy \in Books, NEW d \in Books, NEW now \in Books,
         NEW c \in Cycles, NEW amount \in Sums, NEW key \in Keys,
         NEW rq, rq = [op |-> "pay", c |-> c, amount |-> amount, key |-> key],
         \E l \in LegIds : now.leg[l].state = "new",
         NEW s, s = Synced(copy, d, c), NEW n, n = PaidOff(rq, copy, d, now)
  PROVE  n = s \/ PayLeaves(n, s, now, c, amount)
<1> DEFINE free == {l \in LegIds : now.leg[l].state = "new"}
           leg == Min(free)
           bill == [s.inv[c] EXCEPT !.paid = @ + amount]
           last == [bill EXCEPT !.status = IF Outstanding(bill) <= 1 THEN "paid" ELSE "partially_paid"]
           paid == [state |-> "booked", cycle |-> c, amount |-> amount, key |-> key]
<1>1. leg \in LegIds /\ now.leg[leg].state = "new"
  <2>1. free \in SUBSET Nat /\ free # {}
    BY CyclesAreNat
  <2> HIDE DEF free
  <2>2. leg \in free
    BY <2>1, MinIsIn
  <2> QED
    BY <2>2 DEF free
<1>2. s \in Books
  BY SyncedIs DEF SyncLeaves
<1>3. SUFFICES ASSUME n # s PROVE n = [s EXCEPT !.inv[c] = last, !.leg[leg] = paid]
  <2>1. SUFFICES ASSUME n # s, n = [s EXCEPT !.inv[c] = last, !.leg[leg] = paid]
        PROVE  PayLeaves(n, s, now, c, amount)
    BY <1>3
  <2>2. amount \in Nat /\ c \in Nat
    BY CardAssumption, CyclesAreNat
  <2>3. s.inv[c] \in [made : BOOLEAN, computed : Nat, carriedIn : Nat, carriedOut : Nat, paid : Nat,
                      status : {"open", "closed", "partially_paid", "paid"}]
    BY <1>2, BooksAreTyped
  <2>4. /\ last \in [made : BOOLEAN, computed : Nat, carriedIn : Nat, carriedOut : Nat, paid : Nat,
                      status : {"open", "closed", "partially_paid", "paid"}]
        /\ last.computed = s.inv[c].computed /\ last.carriedIn = s.inv[c].carriedIn
        /\ last.paid = s.inv[c].paid + amount /\ Outstanding(last) = Outstanding(bill)
        /\ last.status = IF Outstanding(bill) <= 1 THEN "paid" ELSE "partially_paid"
    <3>1. /\ bill \in [made : BOOLEAN, computed : Nat, carriedIn : Nat, carriedOut : Nat, paid : Nat,
                      status : {"open", "closed", "partially_paid", "paid"}]
          /\ bill.computed = s.inv[c].computed /\ bill.carriedIn = s.inv[c].carriedIn
          /\ bill.paid = s.inv[c].paid + amount
      BY <2>2, <2>3
    <3> HIDE DEF bill
    <3>2. /\ last \in [made : BOOLEAN, computed : Nat, carriedIn : Nat, carriedOut : Nat, paid : Nat,
                      status : {"open", "closed", "partially_paid", "paid"}]
          /\ last.computed = bill.computed /\ last.carriedIn = bill.carriedIn /\ last.paid = bill.paid
          /\ last.status = IF Outstanding(bill) <= 1 THEN "paid" ELSE "partially_paid"
      BY <3>1
    <3> HIDE DEF last
    <3>3. Outstanding(last) = Outstanding(bill)
      BY <3>2 DEF Outstanding
    <3> QED
      BY <3>1, <3>2, <3>3
  <2>5. paid \in [state : States, cycle : Cycles \cup {0}, amount : Nat, key : Keys \cup {0}]
        /\ paid.state = "booked" /\ paid.cycle = c /\ paid.amount = amount
    BY <2>2 DEF States
  <2> HIDE DEF last, paid, leg, bill
  <2>6. /\ n \in Books /\ n.buy = s.buy /\ n.back = s.back
        /\ n.inv = [s.inv EXCEPT ![c] = last] /\ n.leg = [s.leg EXCEPT ![leg] = paid]
    <3>1. [s.inv EXCEPT ![c] = last] \in [Cycles -> [made : BOOLEAN, computed : Nat, carriedIn : Nat,
                                  carriedOut : Nat, paid : Nat,
                                  status : {"open", "closed", "partially_paid", "paid"}]]
      BY <1>2, <2>4, BooksAreTyped
    <3>2. [s.leg EXCEPT ![leg] = paid] \in [LegIds -> [state : States, cycle : Cycles \cup {0},
                                  amount : Nat, key : Keys \cup {0}]]
      BY <1>1, <1>2, <2>5, BooksAreTyped
    <3> QED
      BY <1>2, <2>1, <3>1, <3>2, ZenonT(40) DEF Books
  <2>7. /\ n.inv[c] = last /\ \A i \in Cycles : i # c => n.inv[i] = s.inv[i]
        /\ n.leg[leg] = paid /\ \A m \in LegIds : m # leg => n.leg[m] = s.leg[m]
    BY <1>1, <1>2, <2>6, BooksAreTyped
  <2> QED
    BY <1>1, <2>4, <2>5, <2>6, <2>7 DEF PayLeaves
<1> QED
  BY <1>3 DEF PaidOff

(* An UPDATE of a row leaves one of the types of the columns.               *)
BuyRow == [state : States, cycle : Cycles \cup {0}, claimed : BOOLEAN]
BackRow == [state : States, cycle : Cycles \cup {0}, of : Purchases \cup {NoPurchase}]
LegRow == [state : States, cycle : Cycles \cup {0}, amount : Nat, key : Keys \cup {0}]
InvRow == [made : BOOLEAN, computed : Nat, carriedIn : Nat, carriedOut : Nat, paid : Nat,
           status : {"open", "closed", "partially_paid", "paid"}]

LEMMA TablesOfBooks ==
  Books = [buy : [Purchases -> BuyRow], back : [Credits -> BackRow],
           leg : [LegIds -> LegRow], inv : [Cycles -> InvRow]]
  BY DEF Books, BuyRow, BackRow, LegRow, InvRow

WrittenRow(c, n, r) == [f \in DOMAIN r |-> IF n[f] # c[f] THEN n[f] ELSE r[f]]

Columnwise(Row) ==
    \A c, n, r \in Row : WrittenRow(c, n, r) \in Row /\ (r = c => WrittenRow(c, n, r) = n)

LEMMA RowsAreColumnwise ==
  Columnwise(BuyRow) /\ Columnwise(BackRow) /\ Columnwise(LegRow) /\ Columnwise(InvRow)
<1>1. ASSUME NEW c \in BuyRow, NEW n \in BuyRow, NEW r \in BuyRow
      PROVE  WrittenRow(c, n, r) \in BuyRow /\ (r = c => WrittenRow(c, n, r) = n)
  BY DEF WrittenRow, BuyRow
<1>2. ASSUME NEW c \in BackRow, NEW n \in BackRow, NEW r \in BackRow
      PROVE  WrittenRow(c, n, r) \in BackRow /\ (r = c => WrittenRow(c, n, r) = n)
  BY DEF WrittenRow, BackRow
<1>3. ASSUME NEW c \in LegRow, NEW n \in LegRow, NEW r \in LegRow
      PROVE  WrittenRow(c, n, r) \in LegRow /\ (r = c => WrittenRow(c, n, r) = n)
  BY DEF WrittenRow, LegRow
<1>4. ASSUME NEW c \in InvRow, NEW n \in InvRow, NEW r \in InvRow
      PROVE  WrittenRow(c, n, r) \in InvRow /\ (r = c => WrittenRow(c, n, r) = n)
  BY DEF WrittenRow, InvRow
<1> QED
  BY <1>1, <1>2, <1>3, <1>4 DEF Columnwise

Table(I, Row) == [I -> Row]

LEMMA ColumnsAreTyped ==
  ASSUME NEW I, NEW Row, Columnwise(Row), NEW copy \in Table(I, Row),
         NEW new \in Table(I, Row), NEW now \in Table(I, Row)
  PROVE  /\ ColumnsOver(copy, new, now) \in Table(I, Row)
         /\ now = copy => ColumnsOver(copy, new, now) = new
<1> DEFINE over == ColumnsOver(copy, new, now)
<1>1. over = [id \in I |-> WrittenRow(copy[id], new[id], now[id])]
  BY DEF ColumnsOver, WrittenRow, Table
<1> HIDE DEF over
<1>2. \A id \in I : /\ over[id] = WrittenRow(copy[id], new[id], now[id])
                    /\ WrittenRow(copy[id], new[id], now[id]) \in Row
                    /\ now[id] = copy[id] => WrittenRow(copy[id], new[id], now[id]) = new[id]
  BY <1>1 DEF Columnwise, Table
<1>3. over \in Table(I, Row)
  BY <1>1, <1>2 DEF Table
<1>4. ASSUME now = copy PROVE over = new
  <2>1. \A id \in I : over[id] = new[id]
    BY <1>2, <1>4
  <2> QED
    BY <1>3, <2>1 DEF Table
<1> QED
  BY <1>3, <1>4 DEF over

LEMMA OverIsTyped ==
  ASSUME NEW copy \in Books, NEW new \in Books, NEW now \in Books, NEW n, n = Over(copy, new, now)
  PROVE  /\ n \in Books
         /\ now = copy => n.buy = new.buy /\ n.leg = new.leg /\ n.inv = new.inv
<1> DEFINE t == [table \in DOMAIN now |-> ColumnsOver(copy[table], new[table], now[table])]
           backs == [r \in Credits |->
                       IF t.back[r].of # NoPurchase /\ t.buy[t.back[r].of].state = "gone"
                       THEN [t.back[r] EXCEPT !.of = NoPurchase] ELSE t.back[r]]
<1>1. n = [t EXCEPT !.back = backs]
  BY DEF Over
<1>2. DOMAIN now = {"buy", "back", "leg", "inv"}
  BY DEF Books
<1>3. /\ t.buy = ColumnsOver(copy.buy, new.buy, now.buy)
      /\ t.back = ColumnsOver(copy.back, new.back, now.back)
      /\ t.leg = ColumnsOver(copy.leg, new.leg, now.leg)
      /\ t.inv = ColumnsOver(copy.inv, new.inv, now.inv)
      /\ DOMAIN t = {"buy", "back", "leg", "inv"}
  BY <1>2
<1>4. /\ copy.buy \in Table(Purchases, BuyRow) /\ new.buy \in Table(Purchases, BuyRow)
      /\ now.buy \in Table(Purchases, BuyRow)
      /\ copy.back \in Table(Credits, BackRow) /\ new.back \in Table(Credits, BackRow)
      /\ now.back \in Table(Credits, BackRow)
      /\ copy.leg \in Table(LegIds, LegRow) /\ new.leg \in Table(LegIds, LegRow)
      /\ now.leg \in Table(LegIds, LegRow)
      /\ copy.inv \in Table(Cycles, InvRow) /\ new.inv \in Table(Cycles, InvRow)
      /\ now.inv \in Table(Cycles, InvRow)
  BY TablesOfBooks DEF Table
<1> HIDE DEF t
<1>5. t.buy \in Table(Purchases, BuyRow) /\ (now = copy => t.buy = new.buy)
  <2>1. /\ ColumnsOver(copy.buy, new.buy, now.buy) \in Table(Purchases, BuyRow)
        /\ now.buy = copy.buy => ColumnsOver(copy.buy, new.buy, now.buy) = new.buy
    BY <1>4, RowsAreColumnwise, ColumnsAreTyped
  <2> QED
    BY <1>3, <2>1
<1>6. t.back \in Table(Credits, BackRow) /\ (now = copy => t.back = new.back)
  <2>1. /\ ColumnsOver(copy.back, new.back, now.back) \in Table(Credits, BackRow)
        /\ now.back = copy.back => ColumnsOver(copy.back, new.back, now.back) = new.back
    BY <1>4, RowsAreColumnwise, ColumnsAreTyped
  <2> QED
    BY <1>3, <2>1
<1>7. t.leg \in Table(LegIds, LegRow) /\ (now = copy => t.leg = new.leg)
  <2>1. /\ ColumnsOver(copy.leg, new.leg, now.leg) \in Table(LegIds, LegRow)
        /\ now.leg = copy.leg => ColumnsOver(copy.leg, new.leg, now.leg) = new.leg
    BY <1>4, RowsAreColumnwise, ColumnsAreTyped
  <2> QED
    BY <1>3, <2>1
<1>8. t.inv \in Table(Cycles, InvRow) /\ (now = copy => t.inv = new.inv)
  <2>1. /\ ColumnsOver(copy.inv, new.inv, now.inv) \in Table(Cycles, InvRow)
        /\ now.inv = copy.inv => ColumnsOver(copy.inv, new.inv, now.inv) = new.inv
    BY <1>4, RowsAreColumnwise, ColumnsAreTyped
  <2> QED
    BY <1>3, <2>1
<1>9. backs \in Table(Credits, BackRow)
  BY <1>6 DEF BackRow, Table
<1> HIDE DEF backs
<1>10. t = [buy |-> t.buy, back |-> t.back, leg |-> t.leg, inv |-> t.inv]
  BY <1>3 DEF t
<1>11. n = [buy |-> t.buy, back |-> backs, leg |-> t.leg, inv |-> t.inv]
  BY <1>1, <1>10
<1> QED
  BY <1>5, <1>7, <1>8, <1>9, <1>11, TablesOfBooks DEF Table

(* What the requests other than synchronisations and payments change: no    *)
(* invoice, and of payments and claimed purchases only what is erased.      *)
LEMMA OthersLeaveInvoices ==
  ASSUME NEW copy \in Books, NEW d, NEW now, NEW rq \in CardRequests, Allowed(rq, copy, d),
         rq.op \notin {"sync", "close", "pay"}, NEW n, n = Effect(rq, copy, d, now)
  PROVE  /\ n \in Books /\ n.inv = copy.inv
         /\ rq.op # "erase" => /\ n.leg = copy.leg
                               /\ \A c \in Cycles : Claimed(n, c) = Claimed(copy, c)
<1>1. /\ copy.buy \in [Purchases -> BuyRow] /\ copy.back \in [Credits -> BackRow]
      /\ copy.leg \in [LegIds -> LegRow] /\ copy.inv \in [Cycles -> InvRow]
  BY TablesOfBooks
<1>2. "booked" \in States /\ "gone" \in States
  BY DEF States
<1>3. CASE rq \in Bookings
  <2> DEFINE bill == [state |-> "booked", cycle |-> rq.c, claimed |-> FALSE]
             buys == [copy.buy EXCEPT ![rq.p] = bill]
  <2>1. rq.op = "buy" /\ rq.p \in Purchases /\ rq.c \in Cycles
    BY <1>3 DEF Bookings
  <2>2. n = [copy EXCEPT !.buy = buys] /\ copy.buy[rq.p].state = "new"
    BY <2>1 DEF Effect, Allowed
  <2>3. bill \in BuyRow
    BY <1>2, <2>1 DEF BuyRow
  <2>4. buys \in [Purchases -> BuyRow]
    BY <1>1, <2>1, <2>3
  <2>5. buys[rq.p] = bill /\ \A p \in Purchases : p # rq.p => buys[p] = copy.buy[p]
    BY <1>1, <2>1
  <2>6. \A p \in Purchases : \A c \in Cycles :
           buys[p].state = "booked" /\ buys[p].cycle = c /\ buys[p].claimed
             <=> copy.buy[p].state = "booked" /\ copy.buy[p].cycle = c /\ copy.buy[p].claimed
    BY <2>2, <2>5
  <2> HIDE DEF buys, bill
  <2>7. n \in Books /\ n.buy = buys /\ n.inv = copy.inv /\ n.leg = copy.leg
    BY <2>2, <2>4, TablesOfBooks
  <2>8. \A c \in Cycles : Claimed(n, c) = Claimed(copy, c)
    <3> TAKE c \in Cycles
    <3>1. \A p : p \in Claimed(n, c) <=> p \in Claimed(copy, c)
      BY <2>6, <2>7, RowSets
    <3> QED
      BY <3>1
  <2> QED
    BY <2>7, <2>8
<1>4. CASE rq \in Refundings \/ rq \in RefundLinks \/ rq \in RefundUnlinks
  <2>1. \E backs \in [Credits -> BackRow] : n = [copy EXCEPT !.back = backs]
    <3>1. CASE rq \in Refundings
      <4>1. rq.op = "credit" /\ rq.r \in Credits /\ rq.c \in Cycles
        BY <3>1 DEF Refundings
      <4> DEFINE bill == [state |-> "booked", cycle |-> rq.c, of |-> NoPurchase]
      <4>2. n = [copy EXCEPT !.back = [copy.back EXCEPT ![rq.r] = bill]]
        BY <4>1 DEF Effect
      <4>3. bill \in BackRow
        BY <1>2, <4>1 DEF BackRow
      <4>4. [copy.back EXCEPT ![rq.r] = bill] \in [Credits -> BackRow]
        BY <1>1, <4>1, <4>3
      <4> QED
        BY <4>2, <4>4
    <3>2. ASSUME NEW to \in Purchases \cup {NoPurchase}, rq.r \in Credits,
                 n = [copy EXCEPT !.back[rq.r].of = to]
          PROVE  \E backs \in [Credits -> BackRow] : n = [copy EXCEPT !.back = backs]
      <4>1. [copy.back[rq.r] EXCEPT !.of = to] \in BackRow
        BY <1>1, <3>2 DEF BackRow
      <4>2. [copy.back EXCEPT ![rq.r].of = to] \in [Credits -> BackRow]
        BY <1>1, <3>2, <4>1
      <4> QED
        BY <3>2, <4>2
    <3>3. CASE rq \in RefundLinks
      <4>1. rq.op = "link" /\ rq.r \in Credits /\ rq.p \in Purchases
        BY <3>3 DEF RefundLinks
      <4>2. n = [copy EXCEPT !.back[rq.r].of = rq.p]
        BY <4>1 DEF Effect
      <4> QED
        BY <3>2, <4>1, <4>2
    <3>4. CASE rq \in RefundUnlinks
      <4>1. rq.op = "unlink" /\ rq.r \in Credits
        BY <3>4 DEF RefundUnlinks
      <4>2. n = [copy EXCEPT !.back[rq.r].of = NoPurchase]
        BY <4>1 DEF Effect
      <4> QED
        BY <3>2, <4>1, <4>2
    <3> QED
      BY <1>4, <3>1, <3>3, <3>4
  <2>2. PICK backs \in [Credits -> BackRow] : n = [copy EXCEPT !.back = backs]
    BY <2>1
  <2>3. n \in Books /\ n.buy = copy.buy /\ n.inv = copy.inv /\ n.leg = copy.leg
    BY <2>2, TablesOfBooks
  <2> QED
    BY <2>3 DEF Claimed, Booked
<1>5. CASE rq \in Erasures
  <2>1. rq.op = "erase"
    BY <1>5 DEF Erasures
  <2>2. n = [copy EXCEPT ![rq.table][rq.x].state = "gone"]
    BY <2>1 DEF Effect
  <2>3. CASE rq.table = "buy" /\ rq.x \in Purchases
    <3>1. [copy.buy[rq.x] EXCEPT !.state = "gone"] \in BuyRow
      BY <1>1, <1>2, <2>3 DEF BuyRow
    <3>2. [copy.buy EXCEPT ![rq.x].state = "gone"] \in [Purchases -> BuyRow]
      BY <1>1, <2>3, <3>1
    <3>3. n = [copy EXCEPT !.buy = [copy.buy EXCEPT ![rq.x].state = "gone"]]
      BY <2>2, <2>3
    <3> QED
      BY <2>1, <3>2, <3>3, TablesOfBooks
  <2>4. CASE rq.table = "leg" /\ rq.x \in LegIds
    <3>1. [copy.leg[rq.x] EXCEPT !.state = "gone"] \in LegRow
      BY <1>1, <1>2, <2>4 DEF LegRow
    <3>2. [copy.leg EXCEPT ![rq.x].state = "gone"] \in [LegIds -> LegRow]
      BY <1>1, <2>4, <3>1
    <3>3. n = [copy EXCEPT !.leg = [copy.leg EXCEPT ![rq.x].state = "gone"]]
      BY <2>2, <2>4
    <3> QED
      BY <2>1, <3>2, <3>3, TablesOfBooks
  <2> QED
    BY <1>5, <2>3, <2>4 DEF Erasures
<1>6. rq \notin Syncs /\ rq \notin CardPays
  BY DEF Syncs, CardPays
<1> QED
  BY <1>3, <1>4, <1>5, <1>6 DEF CardRequests

LEMMA SyncsAndPays ==
  ASSUME NEW rq \in CardRequests, rq.op \in {"sync", "close", "pay"}
  PROVE  /\ rq.c \in Cycles
         /\ rq.op = "pay" => /\ rq.amount \in Sums /\ rq.key \in Keys
                             /\ rq = [op |-> "pay", c |-> rq.c, amount |-> rq.amount, key |-> rq.key]
<1>1. rq \in Syncs \/ rq \in CardPays
  BY DEF CardRequests, Bookings, Refundings, RefundLinks, RefundUnlinks, Erasures
<1>2. CASE rq \in Syncs
  BY <1>2 DEF Syncs
<1>3. CASE rq \in CardPays
  BY <1>3 DEF CardPays
<1> QED
  BY <1>1, <1>2, <1>3

LEMMA EffectIsTyped ==
  ASSUME NEW copy \in Books, NEW d \in Books, NEW now \in Books, NEW rq \in CardRequests,
         Allowed(rq, copy, d), RoomToPay(rq, now)
  PROVE  Effect(rq, copy, d, now) \in Books
<1>1. CASE rq.op \notin {"sync", "close", "pay"}
  BY <1>1, OthersLeaveInvoices
<1>2. CASE rq.op \in {"sync", "close"}
  <2>1. rq.c \in Cycles /\ Effect(rq, copy, d, now) = Synced(copy, d, rq.c)
    BY <1>2, SyncsAndPays DEF Effect
  <2> QED
    BY <2>1, SyncedIs DEF SyncLeaves
<1>3. CASE rq.op = "pay"
  <2>1. /\ rq.c \in Cycles /\ rq.amount \in Sums /\ rq.key \in Keys
        /\ rq = [op |-> "pay", c |-> rq.c, amount |-> rq.amount, key |-> rq.key]
        /\ \E l \in LegIds : now.leg[l].state = "new"
        /\ Effect(rq, copy, d, now) = PaidOff(rq, copy, d, now)
    BY <1>3, SyncsAndPays DEF Effect, RoomToPay
  <2>2. Synced(copy, d, rq.c) \in Books
    BY <2>1, SyncedIs DEF SyncLeaves
  <2>3. PaidOff(rq, copy, d, now) = Synced(copy, d, rq.c) \/ PaidOff(rq, copy, d, now) \in Books
    BY <2>1, PaidOffIs DEF PayLeaves
  <2> QED
    BY <2>1, <2>2, <2>3
<1> QED
  BY <1>1, <1>2, <1>3

-----------------------------------------------------------------------------
(* The payments of an invoice add up to what it says was paid.              *)
LegAmounts(b) == [l \in LegIds |-> b.leg[l].amount]
LegsAgree(b) == \A c \in Cycles : SumOf(LegAmounts(b), LegsOf(b, c)) = b.inv[c].paid

LEMMA LegsAgreeOnSameRows ==
  ASSUME NEW b, NEW n, n.leg = b.leg, \A c \in Cycles : n.inv[c].paid = b.inv[c].paid, LegsAgree(b)
  PROVE  LegsAgree(n)
<1>1. LegAmounts(n) = LegAmounts(b) /\ \A c : LegsOf(n, c) = LegsOf(b, c)
  BY DEF LegAmounts, LegsOf, Booked
<1> QED
  BY <1>1 DEF LegsAgree

LEMMA LegsStayInAgreement ==
  ASSUME NEW b \in Books, LegsAgree(b), NEW rq \in CardRequests, rq.op # "erase",
         Allowed(rq, b, b), RoomToPay(rq, b), NEW n, n = Effect(rq, b, b, b)
  PROVE  LegsAgree(n)
<1>1. CASE rq.op \notin {"sync", "close", "pay"}
  <2>1. n.leg = b.leg /\ n.inv = b.inv
    BY <1>1, OthersLeaveInvoices
  <2> QED
    BY <2>1, LegsAgreeOnSameRows
<1>2. CASE rq.op \in {"sync", "close", "pay"}
  <2>0. PICK s : s = Synced(b, b, rq.c)
    OBVIOUS
  <2>1. rq.c \in Cycles /\ s \in Books /\ s.leg = b.leg /\ \A c \in Cycles : s.inv[c].paid = b.inv[c].paid
    <3>1. rq.c \in Cycles
      BY <1>2, SyncsAndPays
    <3>2. SyncLeaves(s, b, b, rq.c)
      BY <2>0, <3>1, SyncedIs
    <3> QED
      BY <3>1, <3>2 DEF SyncLeaves
  <2>2. LegsAgree(s)
    BY <2>1, LegsAgreeOnSameRows
  <2>3. CASE n = s
    BY <2>2, <2>3
  <2>4. CASE n # s
    <3>1. rq.op = "pay"
      BY <1>2, <2>0, <2>4 DEF Effect
    <3>2. PICK l \in LegIds :
              /\ b.leg[l].state = "new" /\ \A m \in LegIds : m # l => n.leg[m] = b.leg[m]
              /\ n \in Books
              /\ n.leg[l].state = "booked" /\ n.leg[l].cycle = rq.c /\ n.leg[l].amount = rq.amount
              /\ \A i \in Cycles : i # rq.c => n.inv[i].paid = b.inv[i].paid
              /\ n.inv[rq.c].paid = b.inv[rq.c].paid + rq.amount
      <4>1. /\ rq.amount \in Sums /\ rq.key \in Keys
            /\ rq = [op |-> "pay", c |-> rq.c, amount |-> rq.amount, key |-> rq.key]
            /\ \E l \in LegIds : b.leg[l].state = "new"
            /\ n = PaidOff(rq, b, b, b)
        BY <3>1, SyncsAndPays DEF RoomToPay, Effect
      <4>2. PayLeaves(n, s, b, rq.c, rq.amount)
        BY <2>0, <2>1, <2>4, <4>1, PaidOffIs
      <4> QED
        BY <2>1, <4>2 DEF PayLeaves
    <3>3. rq.amount \in Nat
      BY <3>1, SyncsAndPays, CardAssumption
    <3> SUFFICES ASSUME NEW c \in Cycles
                 PROVE  SumOf(LegAmounts(n), LegsOf(n, c)) = n.inv[c].paid
      BY DEF LegsAgree
    <3> DEFINE L == LegsOf(b, c)
               f == LegAmounts(n)
    <3>4. IsFiniteSet(L) /\ L \subseteq LegIds /\ l \notin L
      <4>1. L \subseteq LegIds /\ l \notin L
        BY <3>2, RowSets
      <4>2. IsFiniteSet(LegIds)
        BY CardAssumption, FS_Interval DEF LegIds
      <4> QED
        BY <4>1, <4>2, FS_Subset
    <3>5. /\ \A m \in L : f[m] = LegAmounts(b)[m] /\ f[m] \in Nat
          /\ f[l] = rq.amount
      <4>1. \A m \in LegIds : b.leg[m].amount \in Nat
        BY BooksAreTyped
      <4> QED
        BY <3>2, <3>4, <4>1 DEF LegAmounts
    <3>6. SumOf(f, L) = b.inv[c].paid
      <4>1. SumOf(f, L) = SumOf(LegAmounts(b), L)
        <5> HIDE DEF f, L
        <5> QED
          BY <3>4, <3>5, SumsAgree
      <4> QED
        BY <4>1 DEF LegsAgree
    <3>7. CASE c # rq.c
      <4>1. LegsOf(n, c) = L
        <5>1. \A m : m \in LegsOf(n, c) <=> m \in L
          BY <3>2, <3>7, RowSets
        <5> QED
          BY <5>1
      <4> QED
        BY <3>2, <3>6, <3>7, <4>1
    <3>8. CASE c = rq.c
      <4>1. LegsOf(n, c) = L \cup {l}
        <5>1. \A m : m \in LegsOf(n, c) <=> m \in L \/ m = l
          BY <3>2, <3>8, RowSets
        <5> QED
          BY <5>1
      <4>2. SumOf(f, L \cup {l}) = SumOf(f, L) + f[l]
        <5>1. f[l] \in Nat
          BY <3>3, <3>5
        <5> HIDE DEF f, L
        <5> QED
          BY <3>4, <3>5, <5>1, SumWithOne
      <4> QED
        BY <3>2, <3>5, <3>6, <3>8, <4>1, <4>2
    <3> QED
      BY <3>7, <3>8
  <2> QED
    BY <2>3, <2>4
<1> QED
  BY <1>1, <1>2

-----------------------------------------------------------------------------
(* A paid invoice owes no more than the tolerance, unless its own purchases *)
(* have grown.                                                              *)
SettledInvoice(b, more) ==
    \A c \in Cycles : b.inv[c].status = "paid" =>
        b.inv[c].paid > 0 /\ (c \notin more => Outstanding(b.inv[c]) <= 1)

LEMMA SettledStays ==
  ASSUME NEW b \in Books, NEW more, SettledInvoice(b, more), NEW rq \in CardRequests,
         Allowed(rq, b, b), RoomToPay(rq, b), NEW n, n = Effect(rq, b, b, b)
  PROVE  SettledInvoice(n, more \cup Grown(b, n))
<1> SUFFICES ASSUME NEW c \in Cycles, n.inv[c].status = "paid"
             PROVE  /\ n.inv[c].paid > 0
                    /\ c \notin more /\ c \notin Grown(b, n) => Outstanding(n.inv[c]) <= 1
  BY DEF SettledInvoice
<1>1. ASSUME /\ n.inv[c].computed = b.inv[c].computed /\ n.inv[c].carriedIn = b.inv[c].carriedIn
             /\ n.inv[c].paid = b.inv[c].paid /\ b.inv[c].status = "paid"
      PROVE  /\ n.inv[c].paid > 0
             /\ c \notin more => Outstanding(n.inv[c]) <= 1
  <2>1. Outstanding(n.inv[c]) = Outstanding(b.inv[c])
    BY <1>1 DEF Outstanding
  <2> QED
    BY <1>1, <2>1 DEF SettledInvoice
<1>2. CASE rq.op \notin {"sync", "close", "pay"}
  <2>1. n.inv = b.inv
    BY <1>2, OthersLeaveInvoices
  <2> QED
    BY <1>1, <2>1
<1>3. CASE rq.op \in {"sync", "close", "pay"}
  <2>0. PICK s : s = Synced(b, b, rq.c)
    OBVIOUS
  <2>1. /\ rq.c \in Cycles /\ s \in Books
        /\ \A i \in Cycles : /\ s.inv[i].paid = b.inv[i].paid
                             /\ i # rq.c => /\ s.inv[i].computed = b.inv[i].computed
                                            /\ s.inv[i].carriedIn = b.inv[i].carriedIn
                                            /\ s.inv[i].status = b.inv[i].status
                             /\ (s.inv[i].status = "paid" <=> b.inv[i].status = "paid")
        /\ b.inv[rq.c].paid # 0 => s.inv[rq.c].carriedIn = b.inv[rq.c].carriedIn
    <3>1. rq.c \in Cycles
      BY <1>3, SyncsAndPays
    <3>2. SyncLeaves(s, b, b, rq.c)
      BY <2>0, <3>1, SyncedIs
    <3> QED
      BY <3>1, <3>2 DEF SyncLeaves
  <2>2. CASE n = s
    <3>1. b.inv[c].status = "paid" /\ b.inv[c].paid > 0 /\ n.inv[c].paid = b.inv[c].paid
      <4>1. b.inv[c].status = "paid" /\ n.inv[c].paid = b.inv[c].paid
        BY <2>1, <2>2
      <4> QED
        BY <4>1 DEF SettledInvoice
    <3>2. CASE c # rq.c
      BY <1>1, <2>1, <2>2, <3>1, <3>2
    <3>3. CASE c = rq.c
      <4>1. /\ b.inv[c].computed \in Nat /\ b.inv[c].carriedIn \in Nat /\ b.inv[c].paid \in Nat
            /\ n.inv[c].computed \in Nat /\ n.inv[c].carriedIn = b.inv[c].carriedIn
        BY <2>1, <2>2, <3>1, <3>3, BooksAreTyped
      <4>2. c \notin Grown(b, n) => n.inv[c].computed <= b.inv[c].computed
        BY <3>1, <4>1 DEF Grown
      <4>3. c \notin more => Outstanding(b.inv[c]) <= 1
        BY <3>1 DEF SettledInvoice
      <4> QED
        BY <3>1, <4>1, <4>2, <4>3 DEF Outstanding, Less
    <3> QED
      BY <3>2, <3>3
  <2>3. CASE n # s
    <3>1. rq.op = "pay"
      BY <1>3, <2>0, <2>3 DEF Effect
    <3>2. /\ \A i \in Cycles : i # rq.c => /\ n.inv[i].computed = s.inv[i].computed
                                           /\ n.inv[i].carriedIn = s.inv[i].carriedIn
                                           /\ n.inv[i].paid = s.inv[i].paid
                                           /\ n.inv[i].status = s.inv[i].status
          /\ n.inv[rq.c].paid = s.inv[rq.c].paid + rq.amount
          /\ n.inv[rq.c].status = "paid" <=> Outstanding(n.inv[rq.c]) <= 1
      <4>1. /\ rq.amount \in Sums /\ rq.key \in Keys
            /\ rq = [op |-> "pay", c |-> rq.c, amount |-> rq.amount, key |-> rq.key]
            /\ \E l \in LegIds : b.leg[l].state = "new"
            /\ n = PaidOff(rq, b, b, b)
        BY <3>1, SyncsAndPays DEF RoomToPay, Effect
      <4>2. PayLeaves(n, s, b, rq.c, rq.amount)
        BY <2>0, <2>1, <2>3, <4>1, PaidOffIs
      <4> QED
        BY <2>1, <4>2 DEF PayLeaves
    <3>3. CASE c # rq.c
      <4>1. /\ n.inv[c].computed = b.inv[c].computed /\ n.inv[c].carriedIn = b.inv[c].carriedIn
            /\ n.inv[c].paid = b.inv[c].paid /\ b.inv[c].status = "paid"
        BY <2>1, <3>2, <3>3
      <4> QED
        BY <1>1, <4>1
    <3>4. CASE c = rq.c
      <4>1. rq.amount \in Nat /\ rq.amount > 0
        BY <3>1, SyncsAndPays, CardAssumption
      <4>2. s.inv[c].paid \in Nat
        BY <2>1, BooksAreTyped
      <4> QED
        BY <3>2, <3>4, <4>1, <4>2
    <3> QED
      BY <3>3, <3>4
  <2> QED
    BY <2>2, <2>3
<1> QED
  BY <1>2, <1>3

-----------------------------------------------------------------------------
(* Never paid beyond the purchases.  What an invoice was paid is bounded by *)
(* what it inherited and its purchases; what it inherited and the payments  *)
(* before it, by the purchases before it.                                   *)
Bought(b, c) == Total(Claimed(b, c))
PaidForOwn(b, c) ==
    LET i == b.inv[c] IN
    /\ i.computed <= Bought(b, c)
    /\ i.paid <= i.carriedIn + Bought(b, c) + (IF i.status = "paid" THEN 1 ELSE 0)
    /\ c = 1 => i.carriedIn = 0
InheritedOnce(b, c) ==
    b.inv[c].paid > 0 =>
        PaidUpTo(b, c - 1) + b.inv[c].carriedIn <= BoughtUpTo(b, c - 1) + (c - 1)
Within(b) == \A c \in Cycles : PaidForOwn(b, c) /\ InheritedOnce(b, c)

LEMMA UpTo ==
  ASSUME NEW b \in Books
  PROVE  /\ PaidUpTo(b, 0) = 0
         /\ \A k \in Nat : k <= LastCycle => PaidUpTo(b, k) \in Nat /\ BoughtUpTo(b, k) \in Nat
         /\ \A c \in Cycles : /\ Bought(b, c) \in Nat
                              /\ PaidUpTo(b, c) = PaidUpTo(b, c - 1) + b.inv[c].paid
                              /\ BoughtUpTo(b, c) = BoughtUpTo(b, c - 1) + Bought(b, c)
<1> DEFINE f == [i \in Cycles |-> b.inv[i].paid]
           B(k) == UNION {Claimed(b, i) : i \in 1 .. k}
<1>1. \A i \in Cycles : f[i] = b.inv[i].paid /\ f[i] \in Nat
  BY BooksAreTyped
<1>2. \A k \in Nat : PaidUpTo(b, k) = SumOf(f, 1 .. k) /\ BoughtUpTo(b, k) = Total(B(k))
  BY DEF PaidUpTo, BoughtUpTo
<1>3. \A k : B(k) \in SUBSET Purchases /\ Claimed(b, k) \in SUBSET Purchases
  BY RowSets
<1>4. \A k \in Nat : k <= LastCycle => IsFiniteSet(1 .. k) /\ \A i \in 1 .. k : i \in Cycles
  BY FS_Interval, CardAssumption DEF Cycles
<1>5. ASSUME NEW k \in Nat, k <= LastCycle
      PROVE  PaidUpTo(b, k) \in Nat /\ BoughtUpTo(b, k) \in Nat
  <2>1. \A i \in 1 .. k : f[i] \in Nat
    BY <1>1, <1>4, <1>5
  <2> HIDE DEF f, B
  <2>2. SumOf(f, 1 .. k) \in Nat
    BY <1>4, <1>5, <2>1, SumIsNat
  <2>3. Total(B(k)) \in Nat
    BY <1>3, TotalIsNat
  <2> QED
    BY <1>2, <2>2, <2>3
<1>6. PaidUpTo(b, 0) = 0
  <2>1. 1 .. 0 = {}
    OBVIOUS
  <2> QED
    BY <2>1, SumOfNothing DEF PaidUpTo
<1>7. ASSUME NEW c \in Cycles
      PROVE  /\ Bought(b, c) \in Nat
             /\ PaidUpTo(b, c) = PaidUpTo(b, c - 1) + b.inv[c].paid
             /\ BoughtUpTo(b, c) = BoughtUpTo(b, c - 1) + Bought(b, c)
  <2>1. c \in Nat /\ c - 1 \in Nat /\ c <= LastCycle /\ c - 1 <= LastCycle
    BY CyclesAreNat, CardAssumption
  <2>2. 1 .. c = (1 .. (c - 1)) \cup {c} /\ c \notin 1 .. (c - 1)
    BY <2>1, CyclesAreNat
  <2>3. \A i \in 1 .. (c - 1) : f[i] \in Nat /\ i # c
    BY <1>1, <1>4, <2>1
  <2>4. SumOf(f, 1 .. c) = SumOf(f, 1 .. (c - 1)) + f[c]
    <3>1. IsFiniteSet(1 .. (c - 1)) /\ f[c] \in Nat
      BY <1>1, <1>4, <2>1
    <3>2. SumOf(f, (1 .. (c - 1)) \cup {c}) = SumOf(f, 1 .. (c - 1)) + f[c]
      <4> HIDE DEF f
      <4> QED
        BY <2>2, <2>3, <3>1, SumWithOne
    <3> QED
      BY <2>2, <3>2
  <2>5. B(c) = B(c - 1) \cup Claimed(b, c)
    BY <2>2
  <2>6. B(c - 1) \cap Claimed(b, c) = {}
    <3> SUFFICES ASSUME NEW p, p \in B(c - 1), p \in Claimed(b, c) PROVE FALSE
      OBVIOUS
    <3>1. PICK i \in 1 .. (c - 1) : p \in Claimed(b, i)
      OBVIOUS
    <3>2. b.buy[p].cycle = i /\ b.buy[p].cycle = c
      BY <3>1, RowSets
    <3> QED
      BY <2>3, <3>2
  <2>7. Total(B(c)) = Total(B(c - 1)) + Bought(b, c)
    <3>1. /\ B(c - 1) \in SUBSET Purchases /\ Claimed(b, c) \in SUBSET Purchases
          /\ IsFiniteSet(B(c - 1)) /\ IsFiniteSet(Claimed(b, c))
          /\ \A p \in B(c - 1) \cup Claimed(b, c) : Value[p] \in Nat
      <4>1. B(c - 1) \in SUBSET Purchases /\ Claimed(b, c) \in SUBSET Purchases
        BY <1>3
      <4> HIDE DEF B
      <4> QED
        BY <4>1, TotalIsNat, CardAssumption
    <3> HIDE DEF B
    <3>2. SumOf(Value, B(c - 1) \cup Claimed(b, c)) = SumOf(Value, B(c - 1)) + SumOf(Value, Claimed(b, c))
      BY <2>6, <3>1, SumOfBoth
    <3> QED
      BY <2>5, <3>2 DEF Total, Bought
  <2>8. Bought(b, c) \in Nat
    BY <1>3, TotalIsNat DEF Bought
  <2> HIDE DEF B
  <2> QED
    BY <1>1, <1>2, <2>1, <2>4, <2>7, <2>8
<1> QED
  BY <1>5, <1>6, <1>7

LEMMA CountDown ==
  ASSUME NEW N \in Nat, NEW Good, 0 \in Good, \A k \in 1 .. N : k - 1 \in Good => k \in Good
  PROVE  \A k \in 0 .. N : k \in Good
<1> DEFINE Bad == {k \in 0 .. N : k \notin Good}
<1> SUFFICES ASSUME Bad # {} PROVE FALSE
  OBVIOUS
<1>1. PICK m \in Bad : \A k \in Bad : m <= k
  <2>1. Bad \in SUBSET Nat
    OBVIOUS
  <2> HIDE DEF Bad
  <2> QED
    BY <2>1, LeastNumber
<1>2. m \in 1 .. N /\ m - 1 \in 0 .. N
  OBVIOUS
<1>3. m - 1 \notin Bad
  <2>1. m - 1 \in Bad => m <= m - 1
    BY <1>1
  <2> QED
    BY <1>2, <2>1
<1> QED
  BY <1>2, <1>3

LEMMA PaidFits ==
  ASSUME NEW b \in Books, Within(b)
  PROVE  \A k \in 0 .. LastCycle : PaidUpTo(b, k) <= BoughtUpTo(b, k) + k
<1> DEFINE Good == {k \in 0 .. LastCycle : PaidUpTo(b, k) <= BoughtUpTo(b, k) + k}
<1>1. LastCycle \in Nat
  BY CardAssumption
<1>2. 0 \in Good
  BY <1>1, UpTo
<1>3. ASSUME NEW k \in 1 .. LastCycle, k - 1 \in Good PROVE k \in Good
  <2>1. k \in Cycles /\ k \in Nat /\ k \in 0 .. LastCycle /\ k - 1 \in Nat /\ k - 1 <= LastCycle
    BY <1>1 DEF Cycles
  <2>2. /\ PaidUpTo(b, k - 1) \in Nat /\ BoughtUpTo(b, k - 1) \in Nat /\ Bought(b, k) \in Nat
        /\ PaidUpTo(b, k) = PaidUpTo(b, k - 1) + b.inv[k].paid
        /\ BoughtUpTo(b, k) = BoughtUpTo(b, k - 1) + Bought(b, k)
        /\ b.inv[k].paid \in Nat /\ b.inv[k].carriedIn \in Nat
    BY <2>1, UpTo, BooksAreTyped
  <2>3. PaidUpTo(b, k - 1) <= BoughtUpTo(b, k - 1) + (k - 1)
    BY <1>3
  <2>4. /\ b.inv[k].paid <= b.inv[k].carriedIn + Bought(b, k) + 1
        /\ b.inv[k].paid > 0 => PaidUpTo(b, k - 1) + b.inv[k].carriedIn <= BoughtUpTo(b, k - 1) + (k - 1)
    <3>1. PaidForOwn(b, k) /\ InheritedOnce(b, k)
      BY <2>1 DEF Within
    <3> QED
      BY <2>2, <3>1 DEF PaidForOwn, InheritedOnce
  <2>5. PaidUpTo(b, k) <= BoughtUpTo(b, k) + k
    BY <2>1, <2>2, <2>3, <2>4
  <2> QED
    BY <2>1, <2>5
<1> HIDE DEF Good
<1>4. \A k \in 0 .. LastCycle : k \in Good
  BY <1>1, <1>2, <1>3, CountDown
<1> QED
  BY <1>4 DEF Good

(* While no invoice before it is outdated, what an invoice would inherit    *)
(* and all that was paid before it are covered by the purchases before it.  *)
LEMMA OwedOnce ==
  ASSUME NEW b \in Books, Within(b), NEW c \in Cycles, \A i \in 1 .. c - 1 : ~Outdated(b, i),
         c # 1
  PROVE  PaidUpTo(b, c - 1) + Outstanding(b.inv[c - 1]) <= BoughtUpTo(b, c - 1) + (c - 1)
<1> DEFINE owed(k) == IF k = 0 THEN 0 ELSE Outstanding(b.inv[k])
           Good == {k \in 0 .. c - 1 : PaidUpTo(b, k) + owed(k) <= BoughtUpTo(b, k) + k}
<1>1. LastCycle \in Nat /\ c \in Nat /\ c - 1 \in Nat /\ c <= LastCycle
  BY CardAssumption, CyclesAreNat
<1>2. 0 \in Good
  BY <1>1, UpTo
<1>3. ASSUME NEW k \in 1 .. c - 1, k - 1 \in Good PROVE k \in Good
  <2>1. k \in Cycles /\ k \in Nat /\ k \in 0 .. c - 1 /\ k - 1 \in Nat /\ k - 1 <= LastCycle
        /\ k \in 0 .. LastCycle /\ k # 0
    BY <1>1 DEF Cycles
  <2>2. /\ PaidUpTo(b, k - 1) \in Nat /\ BoughtUpTo(b, k - 1) \in Nat /\ Bought(b, k) \in Nat
        /\ PaidUpTo(b, k) = PaidUpTo(b, k - 1) + b.inv[k].paid
        /\ BoughtUpTo(b, k) = BoughtUpTo(b, k - 1) + Bought(b, k)
        /\ b.inv[k].paid \in Nat /\ b.inv[k].carriedIn \in Nat /\ b.inv[k].computed \in Nat
    BY <2>1, UpTo, BooksAreTyped
  <2>3. PaidUpTo(b, k - 1) + owed(k - 1) <= BoughtUpTo(b, k - 1) + (k - 1) /\ owed(k - 1) \in Nat
    <3>1. owed(k - 1) \in Nat
      <4>1. k = 1 \/ k - 1 \in Cycles
        BY <2>1, CyclesAreNat
      <4> QED
        BY <4>1, OutstandingIsNat
    <3> QED
      BY <1>3, <3>1
  <2>4. /\ b.inv[k].computed <= Bought(b, k)
        /\ b.inv[k].paid > 0 => PaidUpTo(b, k - 1) + b.inv[k].carriedIn <= BoughtUpTo(b, k - 1) + (k - 1)
        /\ PaidUpTo(b, k) <= BoughtUpTo(b, k) + k
        /\ k = 1 => b.inv[k].carriedIn = 0
    <3>1. PaidForOwn(b, k) /\ InheritedOnce(b, k)
      BY <2>1 DEF Within
    <3> QED
      BY <2>1, <3>1, PaidFits DEF PaidForOwn, InheritedOnce
  <2>5. Outstanding(b.inv[k]) = Less(b.inv[k].computed + b.inv[k].carriedIn, b.inv[k].paid)
    BY DEF Outstanding
  <2>6. owed(k) = Outstanding(b.inv[k])
    BY <2>1
  <2>7. CASE b.inv[k].paid > 0
    <3> HIDE DEF owed
    <3> QED
      BY <2>1, <2>2, <2>4, <2>5, <2>6, <2>7 DEF Less
  <2>8. CASE b.inv[k].paid = 0
    <3>1. b.inv[k].carriedIn <= owed(k - 1)
      BY <2>1, <2>2, <2>3, <2>4, <2>8 DEF Outdated
    <3> HIDE DEF owed
    <3> QED
      BY <2>1, <2>2, <2>3, <2>4, <2>5, <2>6, <2>8, <3>1 DEF Less
  <2> QED
    BY <2>2, <2>7, <2>8
<1> HIDE DEF Good
<1>4. c - 1 \in Good
  BY <1>1, <1>2, <1>3, CountDown
<1> QED
  BY <1>1, <1>4 DEF Good

(* Books on which more is claimed: the purchases up to a cycle only grow.   *)
LEMMA BoughtGrows ==
  ASSUME NEW b \in Books, NEW n \in Books, \A c \in Cycles : Claimed(b, c) \subseteq Claimed(n, c)
  PROVE  /\ \A c \in Cycles : Bought(b, c) <= Bought(n, c)
         /\ \A k \in Nat : k <= LastCycle => BoughtUpTo(b, k) <= BoughtUpTo(n, k)
<1>1. ASSUME NEW S, NEW T \in SUBSET Purchases, S \subseteq T PROVE Total(S) <= Total(T)
  <2>1. IsFiniteSet(T) /\ \A x \in T : Value[x] \in Nat
    BY TotalIsNat, CardAssumption
  <2> QED
    BY <1>1, <2>1, SumGrows DEF Total
<1>2. ASSUME NEW c \in Cycles PROVE Bought(b, c) <= Bought(n, c)
  <2>1. Claimed(n, c) \in SUBSET Purchases
    BY RowSets
  <2> QED
    BY <1>1, <2>1 DEF Bought
<1>3. ASSUME NEW k \in Nat, k <= LastCycle PROVE BoughtUpTo(b, k) <= BoughtUpTo(n, k)
  <2> DEFINE S == UNION {Claimed(b, i) : i \in 1 .. k}
             T == UNION {Claimed(n, i) : i \in 1 .. k}
  <2>1. \A i \in 1 .. k : i \in Cycles
    BY <1>3, CardAssumption DEF Cycles
  <2>2. S \subseteq T
    BY <2>1
  <2>3. T \in SUBSET Purchases
    BY RowSets
  <2>4. Total(S) <= Total(T)
    <3> HIDE DEF S, T
    <3> QED
      BY <1>1, <2>2, <2>3
  <2> QED
    BY <2>4 DEF BoughtUpTo
<1> QED
  BY <1>2, <1>3

(* What was paid up to a cycle depends on the invoices up to it.            *)
LEMMA PaidUpToSame ==
  ASSUME NEW b \in Books, NEW n, NEW k \in Nat, k <= LastCycle,
         \A i \in Cycles : i <= k => n.inv[i].paid = b.inv[i].paid
  PROVE  PaidUpTo(n, k) = PaidUpTo(b, k)
<1> DEFINE f == [i \in Cycles |-> b.inv[i].paid]
           g == [i \in Cycles |-> n.inv[i].paid]
<1>1. IsFiniteSet(1 .. k) /\ \A i \in 1 .. k : i \in Cycles /\ i <= k
  BY FS_Interval, CardAssumption DEF Cycles
<1>2. \A i \in 1 .. k : g[i] = f[i]
  BY <1>1
<1> HIDE DEF f, g
<1>3. SumOf(g, 1 .. k) = SumOf(f, 1 .. k)
  BY <1>1, <1>2, SumsAgree
<1> QED
  BY <1>3 DEF PaidUpTo, f, g

LEMMA InheritedOnceStays ==
  ASSUME NEW b \in Books, NEW n \in Books, \A c \in Cycles : Claimed(b, c) \subseteq Claimed(n, c),
         NEW c \in Cycles, InheritedOnce(b, c),
         \A i \in Cycles : i < c => n.inv[i].paid = b.inv[i].paid,
         n.inv[c].paid > 0 => b.inv[c].paid > 0 /\ n.inv[c].carriedIn = b.inv[c].carriedIn
  PROVE  InheritedOnce(n, c)
<1>1. c \in Nat /\ c - 1 \in Nat /\ c - 1 <= LastCycle /\ \A i \in Cycles : i <= c - 1 => i < c
  BY CyclesAreNat, CardAssumption
<1>2. PaidUpTo(n, c - 1) = PaidUpTo(b, c - 1)
  BY <1>1, PaidUpToSame
<1>3. BoughtUpTo(b, c - 1) <= BoughtUpTo(n, c - 1)
  BY <1>1, BoughtGrows
<1>4. /\ PaidUpTo(b, c - 1) \in Nat /\ BoughtUpTo(b, c - 1) \in Nat /\ BoughtUpTo(n, c - 1) \in Nat
      /\ b.inv[c].carriedIn \in Nat
  BY <1>1, UpTo, BooksAreTyped
<1> QED
  BY <1>1, <1>2, <1>3, <1>4 DEF InheritedOnce

LEMMA SyncedClaims ==
  ASSUME NEW b \in Books, NEW c \in Cycles, NEW s, SyncLeaves(s, b, b, c)
  PROVE  /\ s \in Books
         /\ Claimed(s, c) = Claimed(b, c) \cup Unclaimed(b, c)
         /\ \A i \in Cycles : Claimed(b, i) \subseteq Claimed(s, i)
<1>1. /\ s \in Books
      /\ \A p \in Purchases :
           /\ s.buy[p].state = b.buy[p].state /\ s.buy[p].cycle = b.buy[p].cycle
           /\ s.buy[p].claimed = (b.buy[p].claimed \/ p \in Unclaimed(b, c))
  BY DEF SyncLeaves
<1>2. ASSUME NEW p \in Purchases, NEW i
      PROVE  p \in Claimed(s, i) <=> p \in Claimed(b, i) \/ (i = c /\ p \in Unclaimed(b, c))
  <2>1. p \in Claimed(s, i) <=> s.buy[p].state = "booked" /\ s.buy[p].cycle = i /\ s.buy[p].claimed
    BY <1>1, RowSets
  <2>2. p \in Claimed(b, i) <=> b.buy[p].state = "booked" /\ b.buy[p].cycle = i /\ b.buy[p].claimed
    BY RowSets
  <2>3. p \in Unclaimed(b, c) <=> b.buy[p].state = "booked" /\ b.buy[p].cycle = c /\ ~b.buy[p].claimed
    BY RowSets
  <2> QED
    BY <1>1, <2>1, <2>2, <2>3
<1>3. \A i : /\ Claimed(s, i) \subseteq Purchases /\ Claimed(b, i) \subseteq Purchases
             /\ Unclaimed(b, i) \subseteq Purchases
  BY <1>1, RowSets
<1>4. Claimed(s, c) = Claimed(b, c) \cup Unclaimed(b, c)
  <2>1. \A p \in Purchases : p \in Claimed(s, c) <=> p \in Claimed(b, c) \/ p \in Unclaimed(b, c)
    BY <1>2
  <2> QED
    BY <1>3, <2>1
<1> QED
  BY <1>1, <1>2, <1>3, <1>4

LEMMA SyncedStaysWithin ==
  ASSUME NEW b \in Books, Within(b), NEW c \in Cycles, NEW s, SyncLeaves(s, b, b, c)
  PROVE  Within(s)
<1>1. /\ s \in Books
      /\ \A i \in Cycles :
           /\ s.inv[i].paid = b.inv[i].paid
           /\ s.inv[i].status = "paid" <=> b.inv[i].status = "paid"
           /\ i # c => /\ s.inv[i].computed = b.inv[i].computed
                       /\ s.inv[i].carriedIn = b.inv[i].carriedIn
      /\ s.inv[c].computed = Computed(b, b, c)
      /\ b.inv[c].paid # 0 => s.inv[c].carriedIn = b.inv[c].carriedIn
      /\ b.inv[c].paid = 0 /\ c = 1 => s.inv[c].carriedIn = 0
  BY DEF SyncLeaves
<1>2. \A i \in Cycles : Claimed(b, i) \subseteq Claimed(s, i)
  BY SyncedClaims
<1>3. \A i \in Cycles : Bought(b, i) <= Bought(s, i)
  BY <1>1, <1>2, BoughtGrows
<1> SUFFICES ASSUME NEW i \in Cycles PROVE PaidForOwn(s, i) /\ InheritedOnce(s, i)
  BY DEF Within
<1>4. PaidForOwn(b, i) /\ InheritedOnce(b, i)
  BY DEF Within
<1>5. /\ Bought(b, i) \in Nat /\ Bought(s, i) \in Nat /\ b.inv[i].computed \in Nat
      /\ b.inv[i].paid \in Nat /\ b.inv[i].carriedIn \in Nat /\ s.inv[i].carriedIn \in Nat
  BY <1>1, UpTo, BooksAreTyped
<1>6. s.inv[i].computed <= Bought(s, i)
  <2>1. CASE i = c
    <3>1. Claimed(s, i) = Claimed(b, i) \cup Unclaimed(b, i)
      BY <2>1, SyncedClaims
    <3>2. Computed(b, b, i) <= Total(Claimed(s, i))
      BY <3>1, ComputedIsNat
    <3> QED
      BY <1>1, <2>1, <3>2 DEF Bought
  <2>2. CASE i # c
    <3>1. s.inv[i].computed = b.inv[i].computed /\ b.inv[i].computed <= Bought(b, i)
          /\ Bought(b, i) <= Bought(s, i)
      BY <1>1, <1>3, <1>4, <2>2 DEF PaidForOwn
    <3> QED
      BY <1>5, <3>1
  <2> QED
    BY <2>1, <2>2
<1>7. i = 1 => s.inv[i].carriedIn = 0
  BY <1>1, <1>4 DEF PaidForOwn
<1>8. s.inv[i].paid <= s.inv[i].carriedIn + Bought(s, i) + (IF s.inv[i].status = "paid" THEN 1 ELSE 0)
  <2>1. CASE b.inv[i].paid = 0
    BY <1>1, <1>5, <2>1
  <2>2. CASE b.inv[i].paid # 0
    <3>1. /\ s.inv[i].carriedIn = b.inv[i].carriedIn /\ s.inv[i].paid = b.inv[i].paid
          /\ s.inv[i].status = "paid" <=> b.inv[i].status = "paid"
          /\ Bought(b, i) <= Bought(s, i)
      BY <1>1, <1>3, <2>2
    <3>2. b.inv[i].paid <= b.inv[i].carriedIn + Bought(b, i) + (IF b.inv[i].status = "paid" THEN 1 ELSE 0)
      BY <1>4 DEF PaidForOwn
    <3> QED
      BY <1>5, <3>1, <3>2
  <2> QED
    BY <2>1, <2>2
<1>9. InheritedOnce(s, i)
  <2>1. \A k \in Cycles : k < i => s.inv[k].paid = b.inv[k].paid
    BY <1>1
  <2>2. s.inv[i].paid > 0 => b.inv[i].paid > 0 /\ s.inv[i].carriedIn = b.inv[i].carriedIn
    BY <1>1, <1>5
  <2> QED
    BY <1>1, <1>2, <1>4, <2>1, <2>2, InheritedOnceStays
<1> QED
  BY <1>6, <1>7, <1>8, <1>9 DEF PaidForOwn

LEMMA PaymentStaysWithin ==
  ASSUME NEW b \in Books, Within(b), NEW c \in Cycles, NEW s, SyncLeaves(s, b, b, c), Within(s),
         NEW amount \in Sums, NEW n, PayLeaves(n, s, b, c, amount), Payable(s.inv[c], amount),
         \A i \in Cycles : i > c => b.inv[i].paid = 0,
         \A i \in 1 .. c - 1 : ~Outdated(b, i)
  PROVE  Within(n)
<1>1. /\ n \in Books /\ n.buy = s.buy
      /\ \A i \in Cycles :
           /\ n.inv[i].computed = s.inv[i].computed /\ n.inv[i].carriedIn = s.inv[i].carriedIn
           /\ i # c => n.inv[i].paid = s.inv[i].paid /\ n.inv[i].status = s.inv[i].status
      /\ n.inv[c].paid = s.inv[c].paid + amount
      /\ n.inv[c].status = "paid" <=> Outstanding(n.inv[c]) <= 1
  BY DEF PayLeaves
<1>2. /\ s \in Books /\ \A i \in Cycles : s.inv[i].paid = b.inv[i].paid
      /\ b.inv[c].paid = 0 =>
           s.inv[c].carriedIn = IF c # 1 /\ b.inv[c - 1].made THEN Outstanding(b.inv[c - 1]) ELSE 0
  BY DEF SyncLeaves
<1>3. \A i \in Cycles : Claimed(n, i) = Claimed(s, i) /\ Bought(n, i) = Bought(s, i)
  BY <1>1 DEF Claimed, Booked, Bought
<1>4. amount \in Nat /\ amount > 0
  BY CardAssumption
<1> SUFFICES ASSUME NEW i \in Cycles PROVE PaidForOwn(n, i) /\ InheritedOnce(n, i)
  BY DEF Within
<1>5. PaidForOwn(s, i) /\ InheritedOnce(s, i)
  BY DEF Within
<1>6. /\ Bought(s, i) \in Nat /\ s.inv[i].computed \in Nat /\ s.inv[i].paid \in Nat
      /\ s.inv[i].carriedIn \in Nat /\ i \in Nat /\ c \in Nat /\ b.inv[i].paid \in Nat
  BY <1>2, UpTo, BooksAreTyped, CyclesAreNat
<1>7. CASE i # c
  <2>1. PaidForOwn(n, i)
    BY <1>1, <1>3, <1>5, <1>7 DEF PaidForOwn
  <2>2. InheritedOnce(n, i)
    <3>1. CASE i < c
      <4>1. \A k \in Cycles : k < i => n.inv[k].paid = s.inv[k].paid
        <5>1. \A k \in Cycles : k < i => k # c
          BY <1>6, <3>1, CyclesAreNat
        <5> QED
          BY <1>1, <5>1
      <4>2. /\ \A k \in Cycles : Claimed(s, k) \subseteq Claimed(n, k)
            /\ n.inv[i].paid > 0 => s.inv[i].paid > 0 /\ n.inv[i].carriedIn = s.inv[i].carriedIn
        BY <1>1, <1>3, <1>7
      <4> QED
        BY <1>1, <1>2, <1>5, <4>1, <4>2, InheritedOnceStays
    <3>2. CASE i > c
      <4>1. n.inv[i].paid = 0
        BY <1>1, <1>2, <1>7, <3>2
      <4> QED
        BY <4>1 DEF InheritedOnce
    <3> QED
      BY <1>6, <1>7, <3>1, <3>2
  <2> QED
    BY <2>1, <2>2
<1>8. CASE i = c
  <2>1. s.inv[c].status # "paid" /\ amount <= Outstanding(s.inv[c]) + 1
    BY DEF Payable
  <2>2. /\ s.inv[c].computed <= Bought(s, c) /\ (c = 1 => s.inv[c].carriedIn = 0)
        /\ s.inv[c].paid <= s.inv[c].carriedIn + Bought(s, c)
    BY <1>5, <1>6, <1>8, <2>1 DEF PaidForOwn
  <2>3. /\ Outstanding(s.inv[c]) = Less(s.inv[c].computed + s.inv[c].carriedIn, s.inv[c].paid)
        /\ Outstanding(n.inv[c]) = Less(s.inv[c].computed + s.inv[c].carriedIn, s.inv[c].paid + amount)
    BY <1>1 DEF Outstanding
  <2>4. n.inv[c].paid <= s.inv[c].carriedIn + Bought(s, c) + (IF n.inv[c].status = "paid" THEN 1 ELSE 0)
    <3>1. CASE n.inv[c].status = "paid"
      BY <1>1, <1>4, <1>6, <1>8, <2>1, <2>2, <2>3, <3>1 DEF Less
    <3>2. CASE n.inv[c].status # "paid"
      <4>1. ~ (Outstanding(n.inv[c]) <= 1)
        BY <1>1, <3>2
      <4> QED
        BY <1>1, <1>4, <1>6, <1>8, <2>2, <2>3, <3>2, <4>1 DEF Less
    <3> QED
      BY <3>1, <3>2
  <2>5. PaidForOwn(n, c)
    BY <1>1, <1>3, <2>2, <2>4 DEF PaidForOwn
  <2>6. InheritedOnce(n, c)
    <3>1. c - 1 \in Nat /\ c - 1 <= LastCycle /\ c >= 1 /\ \A k \in Cycles : k <= c - 1 => k # c
      BY CyclesAreNat, CardAssumption
    <3>2. PaidUpTo(n, c - 1) = PaidUpTo(s, c - 1) /\ PaidUpTo(s, c - 1) = PaidUpTo(b, c - 1)
      <4>1. PaidUpTo(n, c - 1) = PaidUpTo(s, c - 1)
        BY <1>1, <1>2, <3>1, PaidUpToSame
      <4>2. PaidUpTo(s, c - 1) = PaidUpTo(b, c - 1)
        BY <1>2, <3>1, PaidUpToSame
      <4> QED
        BY <4>1, <4>2
    <3>3. /\ BoughtUpTo(b, c - 1) <= BoughtUpTo(s, c - 1) /\ BoughtUpTo(s, c - 1) <= BoughtUpTo(n, c - 1)
      <4>1. /\ \A k \in Cycles : Claimed(b, k) \subseteq Claimed(s, k)
            /\ \A k \in Cycles : Claimed(s, k) \subseteq Claimed(n, k)
        BY <1>3, SyncedClaims
      <4>2. BoughtUpTo(b, c - 1) <= BoughtUpTo(s, c - 1)
        BY <1>2, <3>1, <4>1, BoughtGrows
      <4>3. BoughtUpTo(s, c - 1) <= BoughtUpTo(n, c - 1)
        BY <1>1, <1>2, <3>1, <4>1, BoughtGrows
      <4> QED
        BY <4>2, <4>3
    <3>4. /\ PaidUpTo(b, c - 1) \in Nat /\ BoughtUpTo(b, c - 1) \in Nat
          /\ BoughtUpTo(s, c - 1) \in Nat /\ BoughtUpTo(n, c - 1) \in Nat
      BY <1>1, <1>2, <3>1, UpTo
    <3>5. PaidUpTo(s, c - 1) + s.inv[c].carriedIn <= BoughtUpTo(s, c - 1) + (c - 1)
      <4>1. CASE s.inv[c].paid > 0
        BY <1>5, <1>8, <4>1 DEF InheritedOnce
      <4>2. CASE s.inv[c].paid = 0
        <5>1. s.inv[c].carriedIn = IF c # 1 /\ b.inv[c - 1].made THEN Outstanding(b.inv[c - 1]) ELSE 0
          BY <1>2, <4>2
        <5>2. CASE s.inv[c].carriedIn = 0
          <6>1. PaidUpTo(b, c - 1) <= BoughtUpTo(b, c - 1) + (c - 1)
            <7>1. c - 1 \in 0 .. LastCycle
              BY <3>1, CardAssumption
            <7> QED
              BY <7>1, PaidFits
          <6> QED
            BY <1>6, <3>1, <3>2, <3>3, <3>4, <5>2, <6>1
        <5>3. CASE s.inv[c].carriedIn # 0
          <6>1. c # 1 /\ s.inv[c].carriedIn = Outstanding(b.inv[c - 1])
            BY <5>1, <5>3
          <6>2. PaidUpTo(b, c - 1) + Outstanding(b.inv[c - 1]) <= BoughtUpTo(b, c - 1) + (c - 1)
            BY <6>1, OwedOnce
          <6>3. s.inv[c].carriedIn \in Nat
            BY <1>6, <1>8
          <6> QED
            BY <3>1, <3>2, <3>3, <3>4, <6>1, <6>2, <6>3
        <5> QED
          BY <5>2, <5>3
      <4> QED
        BY <1>6, <1>8, <4>1, <4>2
    <3>6. n.inv[c].carriedIn = s.inv[c].carriedIn /\ s.inv[c].carriedIn \in Nat
      BY <1>1, <1>6, <1>8
    <3> QED
      BY <3>1, <3>2, <3>3, <3>4, <3>5, <3>6 DEF InheritedOnce
  <2> QED
    BY <1>8, <2>5, <2>6
<1> QED
  BY <1>7, <1>8

-----------------------------------------------------------------------------
(* The inductive invariant: the three promises of the invoices, each with   *)
(* the histories it excepts, over books of the right type.                  *)
CiInv ==
    /\ CiTypeOK
    /\ past \cap {"overlap", "erased"} = {} => LegsAgree(book)
    /\ "overlap" \notin past => SettledInvoice(book, grown)
    /\ past \cap {"overlap", "erased", "back", "stale"} = {} => Within(book)

LEMMA CiStart == CiInit => CiInv
<1> SUFFICES ASSUME CiInit PROVE CiInv
  OBVIOUS
<1>1. "new" \in States
  BY DEF States
<1>2. /\ book.inv \in [Cycles -> InvRow] /\ \A c \in Cycles : book.inv[c] = NoInvoice
  BY DEF CiInit, NoInvoice, InvRow
<1>3. /\ book.buy \in [Purchases -> BuyRow] /\ \A p \in Purchases : book.buy[p].state = "new"
      /\ book.back \in [Credits -> BackRow]
      /\ book.leg \in [LegIds -> LegRow] /\ \A l \in LegIds : book.leg[l].state = "new"
  BY <1>1 DEF CiInit, BuyRow, BackRow, LegRow
<1>4. book \in Books
  <2>1. book = [buy |-> book.buy, back |-> book.back, leg |-> book.leg, inv |-> book.inv]
    BY DEF CiInit
  <2> QED
    BY <1>2, <1>3, <2>1, TablesOfBooks
<1>5. CiTypeOK
  BY <1>4, CardAssumption DEF CiInit, CiTypeOK
<1>6. LegsAgree(book)
  <2> SUFFICES ASSUME NEW c \in Cycles PROVE SumOf(LegAmounts(book), LegsOf(book, c)) = book.inv[c].paid
    BY DEF LegsAgree
  <2>1. LegsOf(book, c) = {}
    <3>1. \A l : l \notin LegsOf(book, c)
      BY <1>3, <1>4, RowSets
    <3> QED
      BY <3>1
  <2> QED
    BY <1>2, <2>1, SumOfNothing DEF NoInvoice
<1>7. SettledInvoice(book, grown)
  BY <1>2 DEF SettledInvoice, NoInvoice
<1>8. Within(book)
  <2> SUFFICES ASSUME NEW c \in Cycles PROVE PaidForOwn(book, c) /\ InheritedOnce(book, c)
    BY DEF Within
  <2>1. Bought(book, c) \in Nat
    BY <1>4, UpTo
  <2> QED
    BY <1>2, <2>1 DEF PaidForOwn, InheritedOnce, NoInvoice
<1> QED
  BY <1>5, <1>6, <1>7, <1>8 DEF CiInv

(* What a request does to the books when nothing has changed since it read. *)
LEMMA ServedKeeps ==
  ASSUME NEW b \in Books, NEW rq \in CardRequests, Allowed(rq, b, b), RoomToPay(rq, b),
         NEW n, n = Over(b, Effect(rq, b, b, b), b)
  PROVE  /\ n \in Books
         /\ rq.op # "erase" /\ LegsAgree(b) => LegsAgree(n)
         /\ \A more : SettledInvoice(b, more) => SettledInvoice(n, more \cup Grown(b, n))
         /\ Excuses(rq, b) = {} /\ Within(b) => Within(n)
<1>0. PICK e : e = Effect(rq, b, b, b)
  OBVIOUS
<1>1. e \in Books
  BY <1>0, EffectIsTyped
<1>2. n \in Books /\ n.buy = e.buy /\ n.leg = e.leg /\ n.inv = e.inv
  BY <1>0, <1>1, OverIsTyped
<1>3. ASSUME rq.op # "erase", LegsAgree(b) PROVE LegsAgree(n)
  <2>1. LegsAgree(e)
    BY <1>0, <1>3, LegsStayInAgreement
  <2> QED
    BY <1>2, <2>1, LegsAgreeOnSameRows
<1>4. ASSUME NEW more, SettledInvoice(b, more) PROVE SettledInvoice(n, more \cup Grown(b, n))
  <2>1. SettledInvoice(e, more \cup Grown(b, e))
    BY <1>0, <1>4, SettledStays
  <2>2. Grown(b, n) = Grown(b, e)
    BY <1>2 DEF Grown
  <2> QED
    BY <1>2, <2>1, <2>2 DEF SettledInvoice
<1>5. ASSUME Excuses(rq, b) = {}, Within(b) PROVE Within(n)
  <2>1. ASSUME Within(e) PROVE Within(n)
    <3>1. \A c : /\ Claimed(n, c) = Claimed(e, c) /\ Bought(n, c) = Bought(e, c)
                 /\ PaidUpTo(n, c) = PaidUpTo(e, c)
      BY <1>2 DEF Claimed, Booked, Bought, PaidUpTo
    <3>2. \A c : BoughtUpTo(n, c) = BoughtUpTo(e, c)
      BY <3>1 DEF BoughtUpTo
    <3> QED
      BY <1>2, <2>1, <3>1, <3>2 DEF Within, PaidForOwn, InheritedOnce
  <2>2. rq.op # "erase"
    BY <1>5 DEF Excuses
  <2>3. CASE rq.op \notin {"sync", "close", "pay"}
    <3>1. e.inv = b.inv /\ \A c \in Cycles : Claimed(e, c) = Claimed(b, c)
      BY <1>0, <2>2, <2>3, OthersLeaveInvoices
    <3> SUFFICES ASSUME NEW c \in Cycles PROVE PaidForOwn(e, c) /\ InheritedOnce(e, c)
      BY <2>1 DEF Within
    <3>2. PaidForOwn(b, c) /\ InheritedOnce(b, c)
      BY <1>5 DEF Within
    <3>3. PaidForOwn(e, c)
      BY <3>1, <3>2 DEF PaidForOwn, Bought
    <3>4. InheritedOnce(e, c)
      BY <1>1, <3>1, <3>2, InheritedOnceStays
    <3> QED
      BY <3>3, <3>4
  <2>4. CASE rq.op \in {"sync", "close", "pay"}
    <3>1. rq.c \in Cycles
      BY <2>4, SyncsAndPays
    <3>2. PICK s : s = Synced(b, b, rq.c)
      OBVIOUS
    <3>3. SyncLeaves(s, b, b, rq.c)
      BY <3>1, <3>2, SyncedIs
    <3>4. Within(s)
      BY <1>5, <3>1, <3>3, SyncedStaysWithin
    <3>5. CASE e = s
      BY <2>1, <3>4, <3>5
    <3>6. CASE e # s
      <4>1. rq.op = "pay"
        BY <1>0, <2>4, <3>2, <3>6 DEF Effect
      <4>2. /\ rq.amount \in Sums /\ rq.key \in Keys
            /\ rq = [op |-> "pay", c |-> rq.c, amount |-> rq.amount, key |-> rq.key]
            /\ \E l \in LegIds : b.leg[l].state = "new"
            /\ e = PaidOff(rq, b, b, b) /\ Payable(s.inv[rq.c], rq.amount)
        BY <1>0, <3>2, <4>1, SyncsAndPays DEF RoomToPay, Effect, Allowed
      <4>3. PayLeaves(e, s, b, rq.c, rq.amount)
        BY <3>1, <3>2, <3>6, <4>2, PaidOffIs
      <4>4. /\ ~ \E i \in Cycles : i > rq.c /\ b.inv[i].paid > 0
            /\ ~ \E i \in 1 .. rq.c - 1 : Outdated(b, i)
        BY <1>5, <4>1 DEF Excuses
      <4>5. \A i \in Cycles : i > rq.c => b.inv[i].paid = 0
        <5>1. \A i \in Cycles : b.inv[i].paid \in Nat
          BY BooksAreTyped
        <5> QED
          BY <4>4, <5>1
      <4>6. Within(e)
        BY <1>5, <3>1, <3>3, <3>4, <4>2, <4>3, <4>4, <4>5, PaymentStaysWithin
      <4> QED
        BY <2>1, <4>6
    <3> QED
      BY <3>5, <3>6
  <2> QED
    BY <2>3, <2>4
<1> QED
  BY <1>2, <1>3, <1>4, <1>5

LEMMA ExcusesAreNamed ==
  ASSUME NEW rq, NEW b
  PROVE  /\ Excuses(rq, b) \subseteq {"erased", "back", "stale"}
         /\ rq.op = "erase" => "erased" \in Excuses(rq, b)
  BY DEF Excuses

(* The invariant after a step in which a request that nothing overtook has  *)
(* written.                                                                 *)
LEMMA WrittenKeeps ==
  ASSUME CiInv, NEW rq \in CardRequests, Allowed(rq, book, book), RoomToPay(rq, book),
         book' = Over(book, Effect(rq, book, book, book), book),
         past' = past \cup Excuses(rq, book), grown' = grown \cup Grown(book, book'), CiTypeOK'
  PROVE  CiInv'
<1>1. book \in Books
  BY DEF CiInv, CiTypeOK
<1>2. /\ book' \in Books
      /\ rq.op # "erase" /\ LegsAgree(book) => LegsAgree(book')
      /\ \A more : SettledInvoice(book, more) => SettledInvoice(book', more \cup Grown(book, book'))
      /\ Excuses(rq, book) = {} /\ Within(book) => Within(book')
  BY <1>1, ServedKeeps
<1>3. /\ Excuses(rq, book) \subseteq {"erased", "back", "stale"}
      /\ rq.op = "erase" => "erased" \in Excuses(rq, book)
  BY ExcusesAreNamed
<1>4. past' \cap {"overlap", "erased"} = {} => LegsAgree(book')
  BY <1>2, <1>3 DEF CiInv
<1>5. "overlap" \notin past' => SettledInvoice(book', grown')
  BY <1>2 DEF CiInv
<1>6. past' \cap {"overlap", "erased", "back", "stale"} = {} => Within(book')
  <2>1. past' \cap {"overlap", "erased", "back", "stale"} = {} => Excuses(rq, book) = {}
    BY <1>3
  <2> QED
    BY <1>2, <2>1 DEF CiInv
<1> QED
  BY <1>4, <1>5, <1>6 DEF CiInv, LegsAgree, SettledInvoice, Within, LegAmounts, PaidForOwn, InheritedOnce

LEMMA AskedIsCounted ==
  ASSUME CiTypeOK, NEW rq, Ask(rq)
  PROVE  served' \in 0 .. MaxRequests
  BY CardAssumption DEF CiTypeOK, Ask

LEMMA AnswerKeeps ==
  ASSUME CiInv, NEW rq \in CardRequests, Answer(rq)
  PROVE  CiInv'
<1>1. book \in Books /\ CiTypeOK
  BY DEF CiInv, CiTypeOK
<1>2. /\ Allowed(rq, book, book) /\ RoomToPay(rq, book)
      /\ book' = Over(book, Effect(rq, book, book, book), book)
      /\ past' = past \cup Excuses(rq, book) /\ grown' = grown \cup Grown(book, book')
      /\ Ask(rq) /\ today' = today /\ pending' = pending
  BY DEF Answer
<1>3. book' \in Books
  BY <1>1, <1>2, ServedKeeps
<1>4. CiTypeOK'
  <2>1. served' \in 0 .. MaxRequests
    BY <1>1, <1>2, AskedIsCounted
  <2>2. past' \subseteq {"overlap", "erased", "back", "stale"}
    BY <1>1, <1>2, ExcusesAreNamed DEF CiTypeOK
  <2>3. grown' \subseteq Cycles
    BY <1>1, <1>2 DEF CiTypeOK, Grown
  <2> QED
    BY <1>1, <1>2, <1>3, <2>1, <2>2, <2>3 DEF CiTypeOK
<1> QED
  BY <1>2, <1>4, WrittenKeeps

(* Steps that leave books and history alone.                                *)
LEMMA SameBooksKeep ==
  ASSUME CiInv, book' = book, past' = past, grown' = grown, CiTypeOK'
  PROVE  CiInv'
  BY DEF CiInv

LEMMA CiStep == CiInv /\ [CiNext]_ciVars => CiInv'
<1> SUFFICES ASSUME CiInv, [CiNext]_ciVars PROVE CiInv'
  OBVIOUS
<1>0. CiTypeOK
  BY DEF CiInv
<1>1. CASE UNCHANGED ciVars
  <2>1. CiTypeOK'
    BY <1>0, <1>1 DEF CiTypeOK, ciVars
  <2> QED
    BY <1>1, <2>1, SameBooksKeep DEF ciVars
<1>2. CASE \E rq \in CardRequests : Answer(rq)
  BY <1>2, AnswerKeeps
<1>3. CASE StartSlow
  <2>1. CiTypeOK' /\ UNCHANGED <<book, past, grown>>
    <3>1. PICK rq \in CardRequests : /\ pending' = [op |-> "slow", asked |-> rq, copy |-> book]
                                     /\ Ask(rq) /\ UNCHANGED <<book, today, past, grown>>
      BY <1>3 DEF StartSlow
    <3>2. served' \in 0 .. MaxRequests
      BY <1>0, <3>1, AskedIsCounted
    <3>3. pending'.op = "slow" /\ pending'.asked \in CardRequests /\ pending'.copy \in Books
      BY <1>0, <3>1 DEF CiTypeOK
    <3> QED
      BY <1>0, <3>1, <3>2, <3>3 DEF CiTypeOK
  <2> QED
    BY <2>1, SameBooksKeep
<1>4. CASE FinishSlow
  <2> DEFINE rq == pending.asked
             copy == pending.copy
             d == Queried(rq, copy, book)
             new == Effect(rq, copy, d, book)
  <2>1. /\ rq \in CardRequests /\ copy \in Books /\ book \in Books
        /\ Allowed(rq, copy, d) /\ RoomToPay(rq, book) /\ pending' = NotPending
        /\ book' = Over(copy, new, book) /\ grown' = grown \cup Grown(book, book')
        /\ past' = past \cup Excuses(rq, book) \cup (IF copy # book THEN {"overlap"} ELSE {})
        /\ UNCHANGED <<today, served>>
    BY <1>0, <1>4 DEF FinishSlow, SlowLands, CiTypeOK
  <2>2. d \in Books
    BY <2>1 DEF Queried
  <2> HIDE DEF rq, copy, d
  <2>3. new \in Books
    BY <2>1, <2>2, EffectIsTyped
  <2>4. book' \in Books
    <3> HIDE DEF new
    <3> QED
      BY <2>1, <2>3, OverIsTyped
  <2>5. CiTypeOK'
    <3>1. past' \subseteq {"overlap", "erased", "back", "stale"}
      BY <1>0, <2>1, ExcusesAreNamed DEF CiTypeOK
    <3>2. grown' \subseteq Cycles
      BY <1>0, <2>1 DEF CiTypeOK, Grown
    <3> QED
      BY <1>0, <2>1, <2>4, <3>1, <3>2 DEF CiTypeOK
  <2>6. CASE copy # book
    <3>1. "overlap" \in past'
      BY <2>1, <2>6
    <3> QED
      BY <2>5, <3>1 DEF CiInv
  <2>7. CASE copy = book
    <3>1. d = book
      BY <2>7 DEF d, Queried
    <3> QED
      BY <2>1, <2>5, <2>7, <3>1, WrittenKeeps
  <2> QED
    BY <2>6, <2>7
<1>5. CASE AbortSlow
  <2>1. CiTypeOK'
    BY <1>0, <1>5 DEF CiTypeOK, AbortSlow
  <2> QED
    BY <1>5, <2>1, SameBooksKeep DEF AbortSlow
<1>6. CASE CloseDay
  <2>1. today' \in Cycles \cup {0}
    BY <1>0, <1>6, CardAssumption DEF CloseDay, CiTypeOK, Cycles
  <2>2. CiTypeOK'
    BY <1>0, <1>6, <2>1 DEF CiTypeOK, CloseDay
  <2> QED
    BY <1>6, <2>2, SameBooksKeep DEF CloseDay
<1>7. CiNext => \/ \E rq \in CardRequests : Answer(rq)
                \/ StartSlow \/ FinishSlow \/ AbortSlow \/ CloseDay
  BY DEF CiNext, BuyOnCard, CreditCard, SyncInvoice, PayInvoice, LinkRefund, UnlinkRefund,
         EraseRow, CardRequests
<1> QED
  BY <1>1, <1>2, <1>3, <1>4, <1>5, <1>6, <1>7

LEMMA InvoicesSettleHere == CiInv => InvoicesSettle
<1> SUFFICES ASSUME CiInv PROVE InvoicesSettle
  OBVIOUS
<1>1. book \in Books
  BY DEF CiInv, CiTypeOK
<1>2. InvoiceLegsAddUp
  BY DEF CiInv, InvoiceLegsAddUp, LegsAgree, LegAmounts
<1>3. NeverPaidBeyondPurchases
  <2>1. ASSUME Within(book) PROVE PaidWithinPurchases
    <3>1. \A c \in Cycles : c \in 0 .. LastCycle
      BY CyclesAreNat, CardAssumption
    <3> QED
      BY <1>1, <2>1, <3>1, PaidFits DEF PaidWithinPurchases
  <2> QED
    BY <2>1 DEF CiInv, NeverPaidBeyondPurchases
<1>4. PaidMeansSettled
  BY DEF CiInv, PaidMeansSettled, SettledInvoice
<1> QED
  BY <1>2, <1>3, <1>4 DEF InvoicesSettle

(* The books of a card, the slow request and the histories are of their     *)
(* types, whatever is asked and however two requests overlap                *)
(* (card_invoice_lifecycle.py).                                             *)
THEOREM CardBooksTyped == CiSpec => []CiTypeOK
<1>1. CiInv => CiTypeOK
  BY DEF CiInv
<1> QED
  BY <1>1, CiStart, CiStep, PTL DEF CiSpec

(* For any cycles, purchases and refunds: an invoice's payments add up to   *)
(* what it says was paid, over all its cycles a card is never paid beyond   *)
(* its purchases but for the tolerance, and a paid invoice owes nothing     *)
(* unless its own purchases grew, but for the histories each excepts        *)
(* (get_or_sync_invoice, pay_invoice).                                      *)
THEOREM InvoicesAlwaysSettle == CiSpec => []InvoicesSettle
  BY InvoicesSettleHere, CiStart, CiStep, PTL DEF CiSpec

-----------------------------------------------------------------------------
(* The parts side by side, as a run steps through them: each starts and     *)
(* steps as it does alone.                                                  *)
LEMMA PartsAlone == MCSpec => CpSpec /\ CiSpec /\ LgSpec
<1>1. MCInit => CpInit /\ CiInit /\ LgInit
  BY DEF MCInit
<1>2. [MCNext]_mcVars => [CpNext]_cpVars /\ [CiNext]_ciVars /\ [LgNext]_lgVars
  BY DEF MCNext, mcVars
<1> QED
  BY <1>1, <1>2, PTL DEF MCSpec, CpSpec, CiSpec, LgSpec

(* Whatever part steps: the rows, links and locks of card payments, the     *)
(* invoices and the obligations stay of their types, and foreign keys point *)
(* at rows.                                                                 *)
THEOREM PaymentsAreTyped == MCSpec => []PaymentsTypeOK
<1>1. CpTypeOK /\ CiTypeOK /\ LgTypeOK => PaymentsTypeOK
  BY DEF PaymentsTypeOK
<1> QED
  BY <1>1, CardPaymentTypes, CardBooksTyped, LedgerTypes, PartsAlone, PTL

(* And each keeps what it promises beside the others: links agree and locks *)
(* never cycle, invoices settle, and a balance is spent once.               *)
THEOREM PaymentsHold ==
  MCSpec => [](CardLinksAgree /\ RowsNeverCycle /\ InvoicesSettle /\ ObligationsSettle)
  BY PartsAlone, LinksAgree, RowLocksNeverCycle, InvoicesAlwaysSettle, ObligationsAlwaysSettle, PTL
=============================================================================
