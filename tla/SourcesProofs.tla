---------------------------- MODULE SourcesProofs ----------------------------
(***************************************************************************)
(* Where the figures come from, for any manifest, batches, documents,      *)
(* requests and passes: the initial load, the imports, the reading of a    *)
(* document, what was put into investments, and a fund's holding.          *)
(***************************************************************************)
EXTENDS MCSources,
        FiniteSetTheorems, SequenceTheorems, WellFoundedInduction, TLAPS

-----------------------------------------------------------------------------
(* The initial load.  A process that has the manifest's transaction open    *)
(* holds the household's lock, so that nobody else's seeds appear under it. *)
Phases == {"idle", "locked", "resolved", "loading", "finished", "blocked", "dead"}
LoadRow == [phase : Phases, missing : SUBSET Keys, left : SUBSET Statements,
            new : SUBSET Statements]
RowStates == {"standing", "replaced", "redeemed", "returned"}
SeedRow == [key : Keys, by : Loads \cup Statements \cup {Household}, agrees : BOOLEAN,
            is : RowStates]

LoadTypes ==
    /\ load \in [Loads -> LoadRow]
    /\ \A l \in Loads : load[l].new \subseteq load[l].left
    /\ lock \in Loads \cup {Nobody}
    /\ seeded \subseteq SeedRow
    /\ loaded \subseteq Statements

InTransaction(l) == load[l].phase \in {"locked", "resolved"}
Seeds(k) == {r \in RowsOf(k) : r.by \in Loads /\ r.is = "standing"}

LockedOut == \A l \in Loads : InTransaction(l) <=> lock = l
OneSeed == \A k \in Keys : \A r, q \in Seeds(k) : r = q
(* What a process found missing no process has entered since.               *)
StillMissing ==
    \A l \in Loads : At(l, "resolved") =>
        \A k \in Keys : IF k \in load[l].missing THEN Seeds(k) = {} ELSE RowsOf(k) # {}
(* Once committed, every seed has a row, and a document is done with only   *)
(* when it is in the books.                                                 *)
SeedsCommitted ==
    \A l \in Loads : load[l].phase \in {"loading", "finished"} => \A k \in Keys : RowsOf(k) # {}
DocumentsDone ==
    \A l \in Loads : /\ At(l, "loading") => Statements \ load[l].left \subseteq loaded
                     /\ At(l, "finished") => loaded = Statements

LoadInv == LoadTypes /\ LockedOut /\ OneSeed /\ StillMissing /\ SeedsCommitted /\ DocumentsDone

LEMMA LoadInit == IlInit => LoadInv
  BY LoadAssumption DEF IlInit, LoadInv, LoadTypes, LoadRow, Phases, LockedOut, OneSeed,
     StillMissing, SeedsCommitted, DocumentsDone, InTransaction, Seeds, RowsOf, At

(* A step of one process that leaves the books alone.                       *)
LEMMA LoadPhase ==
  ASSUME LoadInv, NEW l \in Loads, NEW row \in LoadRow,
         load' = [load EXCEPT ![l] = row], row.new \subseteq row.left,
         lock' \in Loads \cup {Nobody}, UNCHANGED <<seeded, loaded>>,
         row.phase \in {"locked", "resolved"} <=> lock' = l,
         \A m \in Loads \ {l} : lock' = m <=> lock = m,
         row.phase = "resolved" => \A k \in Keys :
             IF k \in row.missing THEN Seeds(k) = {} ELSE RowsOf(k) # {},
         row.phase \in {"loading", "finished"} => \A k \in Keys : RowsOf(k) # {},
         row.phase = "loading" => Statements \ row.left \subseteq loaded,
         row.phase = "finished" => loaded = Statements
  PROVE  LoadInv'
<1> \A m \in Loads : load'[m] = IF m = l THEN row ELSE load[m]
  BY DEF LoadInv, LoadTypes
<1> \A k : RowsOf(k)' = RowsOf(k) /\ Seeds(k)' = Seeds(k)
  BY DEF RowsOf, Seeds
<1>1. LoadTypes'
  BY DEF LoadInv, LoadTypes
<1>2. LockedOut'
  BY DEF LoadInv, LockedOut, InTransaction
<1>3. OneSeed' /\ StillMissing' /\ SeedsCommitted'
  BY DEF LoadInv, OneSeed, StillMissing, SeedsCommitted, At
<1>4. DocumentsDone'
  BY DEF LoadInv, DocumentsDone, At
<1> QED
  BY <1>1, <1>2, <1>3, <1>4 DEF LoadInv

(* A step of the household, or of an import, that enters rows which are no  *)
(* seeds of a process, or marks one as changed.                             *)
LEMMA RowsGrow ==
  ASSUME LoadInv, UNCHANGED lock, loaded \subseteq loaded', loaded' \subseteq Statements,
         seeded' \subseteq SeedRow,
         \A k \in Keys : RowsOf(k) # {} => RowsOf(k)' # {},
         \A k \in Keys : \A r, q \in Seeds(k)' : r = q,
         \A k \in Keys : Seeds(k) = {} => Seeds(k)' = {},
         load' \in [Loads -> LoadRow],
         \A l \in Loads :
            \/ load'[l] = load[l]
            \/ /\ load[l].phase = "loading" /\ load'[l].phase = "loading"
               /\ load'[l].new \subseteq load'[l].left
               /\ load[l].left \ load'[l].left \subseteq loaded'
  PROVE  LoadInv'
<1>1. LoadTypes'
  BY DEF LoadInv, LoadTypes
<1>2. LockedOut' /\ OneSeed'
  BY DEF LoadInv, LockedOut, OneSeed, InTransaction
<1>3. StillMissing' /\ SeedsCommitted'
  BY DEF LoadInv, StillMissing, SeedsCommitted, At
<1>4. DocumentsDone'
  <2> SUFFICES ASSUME NEW l \in Loads
               PROVE  /\ At(l, "loading")' => Statements \ load'[l].left \subseteq loaded'
                      /\ At(l, "finished")' => loaded' = Statements
    BY DEF DocumentsDone
  <2>1. CASE load'[l] = load[l]
    BY <2>1 DEF LoadInv, DocumentsDone, At
  <2>2. CASE load'[l] # load[l]
    BY <2>2 DEF LoadInv, DocumentsDone, At
  <2> QED
    BY <2>1, <2>2
<1> QED
  BY <1>1, <1>2, <1>3, <1>4 DEF LoadInv

(* Rows entered that are no process's seeds: the household's own, and the   *)
(* closings its documents declare.                                          *)
LEMMA NoSeedEntered ==
  ASSUME NEW entered, seeded' = seeded \cup entered, \A r \in entered : r.by \notin Loads, NEW k \in Keys
  PROVE  /\ RowsOf(k) # {} => RowsOf(k)' # {}
         /\ Seeds(k)' = Seeds(k)
  BY DEF RowsOf, Seeds

LEMMA DeclaredRows ==
  ASSUME NEW d \in Statements
  PROVE  Declared(d) \subseteq SeedRow /\ \A r \in Declared(d) : r.by \notin Loads
<1>1. CASE Closes[d] = Nobody
  BY <1>1 DEF Declared
<1>2. CASE Closes[d] # Nobody
  <2> DEFINE row == Row(Closes[d], d, FALSE)
  <2>1. row \in SeedRow /\ row.by \notin Loads
    BY <1>2, LoadAssumption DEF Row, SeedRow, RowStates, Keys
  <2>2. Declared(d) = {row}
    BY <1>2 DEF Declared
  <2> HIDE DEF row
  <2> QED
    BY <2>1, <2>2
<1> QED
  BY <1>1, <1>2

(* The seeds a process enters at its commit: those it found missing, which  *)
(* nobody else entered since, because it held the lock all along.           *)
LEMMA LoadCommit ==
  ASSUME LoadInv, NEW l \in Loads, Commit(l)
  PROVE  LoadInv'
<1> DEFINE entered == {Row(k, l, TRUE) : k \in load[l].missing}
<1> USE DEF At
<1> load[l].phase = "resolved" /\ lock = l /\ load[l] \in LoadRow
  BY DEF Commit, LoadInv, LockedOut, LoadTypes, InTransaction
<1>1. LoadTypes'
  <2>1. entered \subseteq SeedRow
    <3> SUFFICES ASSUME NEW k \in load[l].missing
                 PROVE  Row(k, l, TRUE) \in SeedRow
      OBVIOUS
    <3> k \in Keys
      BY DEF LoadRow
    <3> QED
      BY DEF Row, SeedRow, RowStates
  <2>2. load' \in [Loads -> LoadRow] /\ \A m \in Loads : load'[m].new \subseteq load'[m].left
    BY DEF Commit, LoadInv, LoadTypes, LoadRow, Phases
  <2> QED
    BY <2>1, <2>2 DEF Commit, LoadInv, LoadTypes
<1>2. \A m \in Loads \ {l} : load'[m] = load[m] /\ ~InTransaction(m)
  BY DEF Commit, LoadInv, LoadTypes, LockedOut
<1>3. load'[l].phase = "loading" /\ load'[l].left = Statements /\ lock' = Nobody
  BY DEF Commit, LoadInv, LoadTypes
<1>4. LockedOut'
  BY <1>2, <1>3, LoadAssumption DEF LockedOut, InTransaction
<1>5. \A k \in Keys : RowsOf(k)' # {}
  <2> SUFFICES ASSUME NEW k \in Keys
               PROVE  RowsOf(k)' # {}
    OBVIOUS
  <2>1. CASE k \in load[l].missing
    <3> Row(k, l, TRUE) \in RowsOf(k)'
      BY <2>1 DEF Commit, Row, RowsOf
    <3> QED
      OBVIOUS
  <2>2. CASE k \notin load[l].missing
    BY <2>2 DEF Commit, LoadInv, StillMissing, RowsOf
  <2> QED
    BY <2>1, <2>2
<1>6. OneSeed'
  <2> SUFFICES ASSUME NEW k \in Keys, NEW r \in Seeds(k)', NEW q \in Seeds(k)'
               PROVE  r = q
    BY DEF OneSeed
  <2>1. CASE k \in load[l].missing
    <3> Seeds(k) = {}
      BY <2>1 DEF LoadInv, StillMissing
    <3> r \in entered /\ q \in entered
      BY DEF Commit, Seeds, RowsOf
    <3> r.key = k /\ q.key = k
      BY DEF Seeds, RowsOf
    <3> \A e \in entered : e = Row(e.key, l, TRUE)
      BY DEF Row
    <3> QED
      OBVIOUS
  <2>2. CASE k \notin load[l].missing
    <3> r \in Seeds(k) /\ q \in Seeds(k)
      BY <2>2 DEF Commit, Row, Seeds, RowsOf
    <3> QED
      BY DEF LoadInv, OneSeed
  <2> QED
    BY <2>1, <2>2
<1>7. StillMissing'
  BY <1>2, <1>3 DEF StillMissing, InTransaction
<1>8. SeedsCommitted'
  BY <1>5 DEF SeedsCommitted
<1>9. DocumentsDone'
  BY <1>2, <1>3 DEF Commit, LoadInv, DocumentsDone
<1> QED
  BY <1>1, <1>4, <1>6, <1>7, <1>8, <1>9 DEF LoadInv

(* Whether a document's own import wins or loses the race for its digest.   *)
LEMMA LoadImport ==
  ASSUME LoadInv, NEW l \in Loads, Import(l)
  PROVE  LoadInv'
<1> load[l] \in LoadRow /\ load[l].phase = "loading" /\ load[l].new \subseteq load[l].left
  BY DEF Import, At, LoadInv, LoadTypes
<1> PICK d \in load[l].new :
       IF d \in loaded
       THEN load' = [load EXCEPT ![l].phase = "dead"] /\ UNCHANGED <<seeded, loaded>>
       ELSE /\ loaded' = loaded \cup {d}
            /\ seeded' = seeded \cup Declared(d)
            /\ load' = [load EXCEPT ![l].left = @ \ {d}, ![l].new = {}]
  BY DEF Import
<1> lock' = lock /\ d \in Statements
  BY DEF Import, LoadRow
<1>1. CASE d \in loaded
  <2> DEFINE row == [load[l] EXCEPT !.phase = "dead"]
  <2>1. load' = [load EXCEPT ![l] = row] /\ UNCHANGED <<seeded, loaded>>
    BY <1>1
  <2>2. row \in LoadRow /\ row.new \subseteq row.left /\ row.phase = "dead"
    BY DEF LoadRow, Phases
  <2>3. lock' # l /\ lock' \in Loads \cup {Nobody}
    BY DEF LoadInv, LoadTypes, LockedOut, InTransaction
  <2> HIDE DEF row
  <2> QED
    BY <2>1, <2>2, <2>3, LoadPhase
<1>2. CASE d \notin loaded
  <2>1. loaded' \subseteq Statements /\ loaded \subseteq loaded'
    BY <1>2 DEF LoadInv, LoadTypes
  <2>2. seeded' \subseteq SeedRow
    BY <1>2, DeclaredRows DEF LoadInv, LoadTypes
  <2>3. \A k \in Keys : (RowsOf(k) # {} => RowsOf(k)' # {}) /\ Seeds(k)' = Seeds(k)
    BY <1>2, DeclaredRows, NoSeedEntered
  <2>4. load' \in [Loads -> LoadRow]
    BY <1>2 DEF LoadInv, LoadTypes, LoadRow
  <2>5. \A m \in Loads \ {l} : load'[m] = load[m]
    BY <1>2 DEF LoadInv, LoadTypes
  <2>6. /\ load'[l].phase = "loading" /\ load'[l].new \subseteq load'[l].left
        /\ load[l].left \ load'[l].left \subseteq loaded'
    BY <1>2 DEF LoadInv, LoadTypes, LoadRow
  <2> QED
    BY <2>1, <2>2, <2>3, <2>4, <2>5, <2>6, RowsGrow DEF LoadInv, OneSeed
<1> QED
  BY <1>1, <1>2

(* Every other step of a process changes its own row and, with it, the lock. *)
LEMMA LoadProcess ==
  ASSUME LoadInv, NEW l \in Loads,
         \/ Begin(l) \/ Resolve(l) \/ Block(l) \/ Finish(l) \/ Interrupt(l)
         \/ \E d \in Statements : LookUp(l, d)
  PROVE  LoadInv'
<1> load[l] \in LoadRow /\ load[l].new \subseteq load[l].left
  BY DEF LoadInv, LoadTypes
<1> load \in [Loads -> LoadRow] /\ lock \in Loads \cup {Nobody}
  BY DEF LoadInv, LoadTypes
<1> USE LoadAssumption DEF At
<1> DEFINE Fits(row) ==
       /\ row \in LoadRow /\ row.new \subseteq row.left
       /\ load' = [load EXCEPT ![l] = row]
       /\ lock' \in Loads \cup {Nobody} /\ UNCHANGED <<seeded, loaded>>
       /\ row.phase \in {"locked", "resolved"} <=> lock' = l
       /\ \A m \in Loads \ {l} : lock' = m <=> lock = m
       /\ row.phase = "resolved" => \A k \in Keys :
             IF k \in row.missing THEN Seeds(k) = {} ELSE RowsOf(k) # {}
       /\ row.phase \in {"loading", "finished"} => \A k \in Keys : RowsOf(k) # {}
       /\ row.phase = "loading" => Statements \ row.left \subseteq loaded
       /\ row.phase = "finished" => loaded = Statements
<1>0. ASSUME NEW row, Fits(row) PROVE LoadInv'
  BY <1>0, LoadPhase
<1> USE DEF LoadRow, Phases
<1>1. CASE Begin(l)
  <2> Fits([load[l] EXCEPT !.phase = "locked"])
    BY <1>1 DEF Begin, Unlocked
  <2> QED
    BY <1>0
<1>2. CASE Resolve(l)
  <2>1. lock = l
    BY <1>2 DEF Resolve, LoadInv, LockedOut, InTransaction
  <2> Fits([load[l] EXCEPT !.phase = "resolved", !.missing = {k \in Keys : Found(k) = {}}])
    BY <1>2, <2>1 DEF Resolve, Seeds, Found, Visible
  <2> QED
    BY <1>0
<1>3. CASE Block(l)
  <2>1. lock = l
    BY <1>3 DEF Block, LoadInv, LockedOut, InTransaction
  <2> Fits([load[l] EXCEPT !.phase = "blocked"])
    BY <1>3, <2>1 DEF Block
  <2> QED
    BY <1>0
<1>4. CASE Finish(l)
  <2>1. lock # l
    BY <1>4 DEF Finish, LoadInv, LockedOut, InTransaction
  <2>2. loaded = Statements /\ \A k \in Keys : RowsOf(k) # {}
    BY <1>4 DEF Finish, LoadInv, LoadTypes, DocumentsDone, SeedsCommitted
  <2> Fits([load[l] EXCEPT !.phase = "finished"])
    BY <1>4, <2>1, <2>2 DEF Finish
  <2> QED
    BY <1>0
<1>5. CASE Interrupt(l)
  <2> Fits([load[l] EXCEPT !.phase = "dead"])
    BY <1>5 DEF Interrupt
  <2> QED
    BY <1>0
<1>6. ASSUME NEW d \in Statements, LookUp(l, d) PROVE LoadInv'
  <2>1. lock # l
    BY <1>6 DEF LookUp, LoadInv, LockedOut, InTransaction
  <2>2. Statements \ load[l].left \subseteq loaded /\ \A k \in Keys : RowsOf(k) # {}
    BY <1>6 DEF LookUp, LoadInv, DocumentsDone, SeedsCommitted
  <2>3. CASE d \in loaded
    <3> Fits([load[l] EXCEPT !.left = @ \ {d}])
      BY <1>6, <2>1, <2>2, <2>3 DEF LookUp
    <3> QED
      BY <1>0
  <2>4. CASE d \notin loaded
    <3> Fits([load[l] EXCEPT !.new = {d}])
      BY <1>6, <2>1, <2>2, <2>4 DEF LookUp
    <3> QED
      BY <1>0
  <2> QED
    BY <2>3, <2>4
<1> QED
  BY <1>1, <1>2, <1>3, <1>4, <1>5, <1>6

(* A row the household changes stays a row of its key; it may give way to   *)
(* one of the household's own, but none becomes the seed of a process.      *)
LEMMA RowChanged ==
  ASSUME LoadInv, NEW s \in seeded, NEW t \in SeedRow, t.key = s.key, t.by = s.by,
         t.is = "standing" => s.is = "standing",
         NEW entered \in SUBSET SeedRow, \A r \in entered : r.by \notin Loads,
         seeded' = ((seeded \ {s}) \cup {t}) \cup entered, UNCHANGED <<load, lock, loaded>>
  PROVE  LoadInv'
<1>1. s \in SeedRow /\ seeded' \subseteq SeedRow /\ loaded' \subseteq Statements
  BY DEF LoadInv, LoadTypes
<1>2. ASSUME NEW k \in Keys
      PROVE  /\ RowsOf(k) # {} => RowsOf(k)' # {}
             /\ \A r, q \in Seeds(k)' : r = q
             /\ Seeds(k) = {} => Seeds(k)' = {}
  BY DEF LoadInv, OneSeed, Seeds, RowsOf
<1> QED
  BY <1>1, <1>2, RowsGrow DEF LoadInv, LoadTypes

LEMMA RowMarked ==
  ASSUME LoadInv, NEW s \in seeded, NEW t \in SeedRow, t.key = s.key, t.by = s.by,
         t.is = "standing" => s.is = "standing",
         seeded' = (seeded \ {s}) \cup {t}, UNCHANGED <<load, lock, loaded>>
  PROVE  LoadInv'
<1> DEFINE none == {}
<1>1. /\ none \in SUBSET SeedRow /\ \A r \in none : r.by \notin Loads
      /\ seeded' = ((seeded \ {s}) \cup {t}) \cup none
  OBVIOUS
<1> HIDE DEF none
<1> QED
  BY <1>1, RowChanged

(* The household's own steps.                                               *)
LEMMA LoadHousehold ==
  ASSUME LoadInv,
         \/ \E k \in Keys, agrees \in BOOLEAN : Enter(k, agrees)
         \/ \E r \in seeded : Change(r) \/ Replace(r) \/ Redeem(r) \/ GiveBack(r)
         \/ \E d \in Statements : UploadStatement(d)
  PROVE  LoadInv'
<1>1. ASSUME NEW o \in Keys, NEW agrees \in BOOLEAN, Enter(o, agrees)
      PROVE  LoadInv'
  <2>1. seeded' \subseteq SeedRow /\ loaded' \subseteq Statements /\ loaded' = loaded
    BY <1>1 DEF Enter, LoadInv, LoadTypes, Row, SeedRow, RowStates
  <2>2. \A k \in Keys : (RowsOf(k) # {} => RowsOf(k)' # {}) /\ Seeds(k)' = Seeds(k)
    <3> DEFINE entered == {Row(o, Household, agrees)}
    <3>1. seeded' = seeded \cup entered
      BY <1>1 DEF Enter
    <3>2. \A r \in entered : r.by \notin Loads
      BY LoadAssumption DEF Row
    <3> HIDE DEF entered
    <3> QED
      BY <3>1, <3>2, NoSeedEntered
  <2>3. UNCHANGED <<load, lock>>
    BY <1>1 DEF Enter
  <2> QED
    BY <2>1, <2>2, <2>3, RowsGrow DEF LoadInv, LoadTypes, OneSeed
<1>2. ASSUME NEW s \in seeded, Change(s) \/ GiveBack(s)
      PROVE  LoadInv'
  <2>1. s \in SeedRow
    BY DEF LoadInv, LoadTypes
  <2>2. PICK t : /\ t \in {[s EXCEPT !.agrees = FALSE], [s EXCEPT !.is = "returned"]}
                 /\ seeded' = (seeded \ {s}) \cup {t}
    BY <1>2 DEF Change, GiveBack
  <2>3. /\ t \in SeedRow /\ t.key = s.key /\ t.by = s.by
        /\ t.is = "standing" => s.is = "standing"
    BY <2>1, <2>2 DEF SeedRow, RowStates
  <2>4. UNCHANGED <<load, lock, loaded>>
    BY <1>2 DEF Change, GiveBack
  <2> QED
    BY <2>2, <2>3, <2>4, RowMarked
<1>3. ASSUME NEW s \in seeded, NEW how \in {"replaced", "redeemed"}, Supersede(s, how)
      PROVE  LoadInv'
  <2>1. s \in SeedRow
    BY DEF LoadInv, LoadTypes
  <2>2. PICK t : t = [s EXCEPT !.is = how]
    OBVIOUS
  <2>3. t \in SeedRow /\ t.key = s.key /\ t.by = s.by /\ t.is # "standing"
    BY <2>1, <2>2 DEF SeedRow, RowStates
  <2>4. UNCHANGED <<load, lock, loaded>>
    BY <1>3 DEF Supersede
  <2>5. CASE seeded' = (seeded \ {s}) \cup {t}
    BY <2>3, <2>4, <2>5, RowMarked
  <2>6. ASSUME NEW k \in Balances, NEW agrees \in BOOLEAN,
               seeded' = ((seeded \ {s}) \cup {t}) \cup {Row(k, Household, agrees)}
        PROVE  LoadInv'
    <3> DEFINE entered == {Row(k, Household, agrees)}
    <3>1. entered \in SUBSET SeedRow /\ \A r \in entered : r.by \notin Loads
      BY LoadAssumption DEF Row, SeedRow, RowStates, Keys
    <3>2. seeded' = ((seeded \ {s}) \cup {t}) \cup entered
      BY <2>6
    <3> HIDE DEF entered
    <3> QED
      BY <2>3, <2>4, <3>1, <3>2, RowChanged
  <2> QED
    BY <1>3, <2>2, <2>5, <2>6 DEF Supersede
<1>4. ASSUME NEW d \in Statements, UploadStatement(d)
      PROVE  LoadInv'
  <2>1. loaded' \subseteq Statements /\ loaded \subseteq loaded'
    BY <1>4 DEF UploadStatement, LoadInv, LoadTypes
  <2>2. seeded' \subseteq SeedRow
    BY <1>4, DeclaredRows DEF UploadStatement, LoadInv, LoadTypes
  <2>3. \A k \in Keys : (RowsOf(k) # {} => RowsOf(k)' # {}) /\ Seeds(k)' = Seeds(k)
    BY <1>4, DeclaredRows, NoSeedEntered DEF UploadStatement
  <2>4. UNCHANGED <<load, lock>>
    BY <1>4 DEF UploadStatement
  <2> QED
    BY <2>1, <2>2, <2>3, <2>4, RowsGrow DEF LoadInv, LoadTypes, OneSeed
<1> QED
  BY <1>1, <1>2, <1>3, <1>4 DEF Replace, Redeem

LEMMA LoadStep == LoadInv /\ [IlNext]_ilVars => LoadInv'
<1> SUFFICES ASSUME LoadInv, [IlNext]_ilVars
             PROVE  LoadInv'
  OBVIOUS
<1>1. CASE IlNext
  BY <1>1, LoadProcess, LoadCommit, LoadImport, LoadHousehold DEF IlNext
<1>2. CASE UNCHANGED ilVars
  BY <1>2 DEF ilVars, LoadInv, LoadTypes, LockedOut, OneSeed, StillMissing, SeedsCommitted,
     DocumentsDone, InTransaction, Seeds, RowsOf, At
<1> QED
  BY <1>1, <1>2

LEMMA LoadInvariant == IlSpec => []LoadInv
  BY LoadInit, LoadStep, PTL DEF IlSpec

(* Whatever the processes, the manifest and the household's own work in the *)
(* meantime: a seed gives no second row unless the first was superseded,    *)
(* and a load that reports success has every seed and every document in the *)
(* books.                                                                   *)
THEOREM InitialLoadOnce == IlSpec => []LoadedExactlyOnce
<1>1. ASSUME LoadInv PROVE LoadedExactlyOnce
  <2>1. ASSUME NEW k \in Keys PROVE Cardinality(Seeds(k)) <= 1
    <3>1. CASE Seeds(k) = {}
      BY <3>1, FS_EmptySet
    <3>2. CASE Seeds(k) # {}
      <4> PICK r \in Seeds(k) : TRUE
        BY <3>2
      <4> Seeds(k) = {r}
        BY <1>1 DEF LoadInv, OneSeed
      <4> QED
        BY FS_Singleton
    <3> QED
      BY <3>1, <3>2
  <2> QED
    BY <1>1, <2>1 DEF LoadedExactlyOnce, LoadInv, SeedsCommitted, DocumentsDone, At, Seeds
<1> QED
  BY <1>1, LoadInvariant, PTL

(* The initial load's variables are of their types, and a document a        *)
(* process is importing is one it has left.                                 *)
THEOREM InitialLoadTypes == IlSpec => []IlTypeOK
<1>1. LoadInv => IlTypeOK
  BY DEF LoadInv, LoadTypes, LoadRow, Phases, SeedRow, RowStates, IlTypeOK
<1> QED
  BY <1>1, LoadInvariant, PTL
-----------------------------------------------------------------------------
(* Batches of files.  One import at a time is between its first flush and   *)
(* its commit, and what it is about to commit no document has yet.          *)
ImSteps == {"idle", "checking", "checked", "writing"}
ImResult == [kept : BOOLEAN, id : DocIds \cup {None}]
ImRow == [step : ImSteps, left : Seq(Files), total : Nat, over : BOOLEAN,
          pending : SUBSET [id : DocIds, file : Files], results : Seq(ImResult)]

Results(s) == {importer[s].results[n] : n \in DOMAIN importer[s].results}
DocumentIds == {d.id : d \in documents}

BatchTypes ==
    /\ documents \subseteq Doc
    /\ artifacts \subseteq DocIds /\ reconciled \subseteq DocIds
    /\ importer \in [Importers -> ImRow]
    /\ upgraded \in BOOLEAN /\ faults \subseteq {"killed", "unacknowledged"}
    /\ torn \subseteq DocIds

(* What a request has flushed is the file it is at, and nothing else.       *)
OnlyItsFile ==
    \A s \in Importers :
        /\ importer[s].step \in {"checked", "writing"} => importer[s].left # <<>>
        /\ IF importer[s].step = "writing"
           THEN \E i \in DocIds : importer[s].pending = {[id |-> i, file |-> Current(s)]}
           ELSE importer[s].pending = {}
OneWriter == \A s, t \in Holder : s = t
OneOfAContent == \A d, e \in documents : d.file = e.file => d = e
(* It is new to the books, and to the reports of every batch.               *)
NewToTheBooks ==
    \A s \in Importers : \A p \in importer[s].pending :
        /\ p.id \notin DocumentIds \cup torn /\ ~Known(p.file)
        /\ \A t \in Importers : \A r \in Results(t) : r.id # None => r.id # p.id
(* What a failed save wrote is never taken away.                            *)
TornStays == torn \subseteq artifacts
ArtifactsHeld == faults = {} => artifacts = Owned \cup torn
ReportsTrue ==
    faults = {} =>
        \A s \in Importers : \A r \in Results(s) : r.id # None => (r.kept <=> r.id \in DocumentIds)

ImInv == /\ BatchTypes /\ OnlyItsFile /\ OneWriter /\ OneOfAContent /\ NewToTheBooks
         /\ TornStays /\ ArtifactsHeld /\ ReportsTrue

LEMMA ImportInit == ImInit => ImInv
<1> SUFFICES ASSUME ImInit PROVE ImInv
  OBVIOUS
<1> USE DEF ImInit, Waiting
<1>0. Waiting \in ImRow
  BY EmptySeq DEF ImRow, ImSteps
<1>1. BatchTypes
  BY <1>0 DEF BatchTypes
<1>2. \A s \in Importers : Results(s) = {}
  BY DEF Results
<1> QED
  BY <1>1, <1>2 DEF ImInv, OnlyItsFile, OneWriter, OneOfAContent, NewToTheBooks, TornStays,
     ArtifactsHeld, Owned, ReportsTrue, Holder, DocumentIds, Known

LEMMA ImportRow ==
  ASSUME BatchTypes, NEW s \in Importers
  PROVE  /\ importer[s] \in ImRow /\ Results(s) \subseteq ImResult
         /\ importer[s].left # <<>> => Current(s) \in Files /\ Tail(importer[s].left) \in Seq(Files)
<1> importer[s] \in ImRow
  BY DEF BatchTypes
<1>1. Results(s) \subseteq ImResult
  BY DEF ImRow, Results
<1>2. importer[s].left # <<>> => Current(s) \in Files /\ Tail(importer[s].left) \in Seq(Files)
  BY HeadTailProperties DEF ImRow, Current
<1> QED
  BY <1>1, <1>2

(* A file that ended adds its report to the others.                         *)
LEMMA ReportAdded ==
  ASSUME NEW m \in ImRow, m.left # <<>>, NEW r \in ImResult
  PROVE  /\ Reported(m, r) \in ImRow
         /\ {Reported(m, r).results[n] : n \in DOMAIN Reported(m, r).results}
              = {m.results[n] : n \in DOMAIN m.results} \cup {r}
         /\ Reported(m, r).step = "checking" /\ Reported(m, r).pending = m.pending
<1> DEFINE new == Append(m.results, r)
<1>1. Tail(m.left) \in Seq(Files) /\ new \in Seq(ImResult)
  BY HeadTailProperties DEF ImRow
<1>2. /\ Len(new) = Len(m.results) + 1 /\ DOMAIN new = 1 .. Len(new)
      /\ new[Len(new)] = r /\ \A n \in DOMAIN m.results : new[n] = m.results[n]
      /\ DOMAIN m.results = 1 .. Len(m.results) /\ Len(m.results) \in Nat
  BY DEF ImRow
<1>3. {new[n] : n \in DOMAIN new} = {m.results[n] : n \in DOMAIN m.results} \cup {r}
  BY <1>2
<1> HIDE DEF new
<1>4. Reported(m, r) = [m EXCEPT !.step = "checking", !.left = Tail(@), !.results = new]
  BY DEF Reported, new
<1>5. Reported(m, r) \in ImRow
  BY <1>1, <1>4 DEF ImRow, ImSteps
<1>6. /\ Reported(m, r).results = new /\ Reported(m, r).step = "checking"
      /\ Reported(m, r).pending = m.pending
  BY <1>4 DEF ImRow
<1> QED
  BY <1>3, <1>5, <1>6

(* A request that holds nothing takes a step that leaves the books alone.   *)
LEMMA ImportIdle ==
  ASSUME ImInv, NEW s \in Importers, NEW row \in ImRow,
         importer' = [importer EXCEPT ![s] = row],
         importer[s].step # "writing", row.step # "writing", row.pending = {},
         row.step = "checked" => row.left # <<>>,
         \A n \in DOMAIN row.results :
             row.results[n] \in Results(s) \/ row.results[n].id = None,
         UNCHANGED <<documents, artifacts, reconciled, upgraded, torn>>,
         faults \subseteq faults', faults' \subseteq {"killed", "unacknowledged"}
  PROVE  ImInv'
<1> \A t \in Importers : importer'[t] = IF t = s THEN row ELSE importer[t]
  BY DEF ImInv, BatchTypes
<1>1. BatchTypes'
  BY DEF ImInv, BatchTypes
<1>2. DocumentIds' = DocumentIds /\ \A f : Known(f)' = Known(f)
  BY DEF DocumentIds, Known
<1>3. \A t \in Importers : \A r \in Results(t)' : r \in Results(t) \/ r.id = None
  BY DEF Results
<1>4. importer[s].pending = {} /\ Holder' = Holder
  BY DEF ImInv, OnlyItsFile, Holder
<1>5. \A t \in Importers : importer'[t].pending = importer[t].pending
  BY <1>4
<1>6. OnlyItsFile'
  BY DEF ImInv, OnlyItsFile, Current
<1>7. OneWriter' /\ OneOfAContent'
  BY <1>4 DEF ImInv, OneWriter, OneOfAContent
<1>8. NewToTheBooks'
  BY <1>2, <1>3, <1>5 DEF ImInv, NewToTheBooks
<1>9. TornStays' /\ ArtifactsHeld'
  BY <1>5 DEF ImInv, TornStays, ArtifactsHeld, Owned
<1>10. ReportsTrue'
  BY <1>2, <1>3 DEF ImInv, ReportsTrue
<1> QED
  BY <1>1, <1>6, <1>7, <1>8, <1>9, <1>10 DEF ImInv

LEMMA ImportQuiet ==
  ASSUME ImInv, NEW s \in Importers,
         \/ \E files \in Batches : Upload(s, files)
         \/ Check(s) \/ Answer(s)
         \/ FlushDocument(s) /\ Known(Current(s))
         \/ Kill(s) /\ importer[s].step # "writing"
  PROVE  ImInv'
<1> importer[s] \in ImRow /\ (importer[s].step # "writing" => importer[s].pending = {})
  BY ImportRow DEF ImInv, OnlyItsFile
<1> Waiting \in ImRow /\ DOMAIN Waiting.results = {} /\ Waiting.pending = {} /\ Waiting.step = "idle"
  BY EmptySeq DEF Waiting, ImRow, ImSteps
<1> DEFINE Quiet(row) ==
       /\ row \in ImRow /\ importer' = [importer EXCEPT ![s] = row]
       /\ importer[s].step # "writing" /\ row.step # "writing" /\ row.pending = {}
       /\ row.step = "checked" => row.left # <<>>
       /\ \A n \in DOMAIN row.results :
             row.results[n] \in Results(s) \/ row.results[n].id = None
       /\ UNCHANGED <<documents, artifacts, reconciled, upgraded, torn>>
       /\ faults \subseteq faults' /\ faults' \subseteq {"killed", "unacknowledged"}
<1>0. ASSUME NEW row, Quiet(row) PROVE ImInv'
  BY <1>0, ImportIdle
<1>F. faults \subseteq {"killed", "unacknowledged"}
  BY DEF ImInv, BatchTypes
(* A report without a document.                                             *)
<1>R. ASSUME NEW m \in ImRow, m.left # <<>>, m.results = importer[s].results
      PROVE  LET row == RolledBack(Reported(m, Rejected(None))) IN
             /\ row \in ImRow /\ row.step = "checking" /\ row.pending = {}
             /\ \A n \in DOMAIN row.results :
                   row.results[n] \in Results(s) \/ row.results[n].id = None
  <2> DEFINE r == Rejected(None)
             new == Reported(m, r)
             row == RolledBack(new)
  <2>1. r \in ImResult /\ r.id = None
    BY DEF Rejected, ImResult
  <2> HIDE DEF r
  <2>2. /\ new \in ImRow /\ new.step = "checking"
        /\ {new.results[n] : n \in DOMAIN new.results}
              = {m.results[n] : n \in DOMAIN m.results} \cup {r}
    BY <1>R, <2>1, ReportAdded
  <2> HIDE DEF new
  <2>3. /\ row \in ImRow /\ row.step = "checking" /\ row.pending = {}
        /\ row.results = new.results
    BY <2>2 DEF RolledBack, ImRow
  <2> HIDE DEF row
  <2>4. ASSUME NEW n \in DOMAIN row.results
        PROVE  row.results[n] \in Results(s) \/ row.results[n].id = None
    <3>1. row.results[n] \in Results(s) \cup {r}
      BY <1>R, <2>2, <2>3 DEF Results
    <3> QED
      BY <2>1, <3>1
  <2> QED
    BY <2>3, <2>4 DEF row, new, r
<1>1. ASSUME NEW files \in Batches, Upload(s, files) PROVE ImInv'
  <2> DEFINE row == [Waiting EXCEPT !.step = "checking", !.left = files]
  <2>1. files \in Seq(Files)
    <3> PICK n \in 1 .. MaxBatchFiles : files \in [1 .. n -> Files]
      BY DEF Batches
    <3> n \in Nat
      BY ImportLimits
    <3> QED
      BY SeqDef
  <2>2. row \in ImRow /\ row.step = "checking" /\ row.pending = {} /\ DOMAIN row.results = {}
    BY <2>1 DEF ImRow, ImSteps
  <2>3. importer[s].step # "writing"
    BY <1>1 DEF Upload, Waiting
  <2>4. importer' = [importer EXCEPT ![s] = row]
        /\ UNCHANGED <<documents, artifacts, reconciled, upgraded, torn, faults>>
    BY <1>1 DEF Upload
  <2> HIDE DEF row
  <2> Quiet(row)
    BY <2>2, <2>3, <2>4, <1>F
  <2> QED
    BY <1>0
<1>2. CASE Check(s)
  <2> DEFINE m == importer[s]
             f == Current(s)
             read == m.over \/ Size[f] > MaxFile
             total == IF read THEN m.total ELSE m.total + Size[f]
             over == m.over \/ total > MaxBatch
             seen == [m EXCEPT !.total = total, !.over = over]
             stop == over \/ Size[f] > MaxFile \/ Known(f)
             row == IF stop THEN RolledBack(Reported(seen, Rejected(None)))
                    ELSE [seen EXCEPT !.step = "checked"]
  <2>1. m.step = "checking" /\ m.left # <<>> /\ m.pending = {}
        /\ importer' = [importer EXCEPT ![s] = row]
        /\ UNCHANGED <<documents, artifacts, reconciled, upgraded, torn, faults>>
    BY <1>2 DEF Check
  <2>2. total \in Nat /\ over \in BOOLEAN
    <3>1. f \in Files
      BY <2>1, ImportRow DEF ImInv
    <3> QED
      BY <3>1, ImportSizes, ImportLimits, SMTT(30) DEF ImRow
  <2> HIDE DEF total, over, stop
  <2>3. /\ seen \in ImRow /\ seen.left # <<>> /\ seen.results = importer[s].results
        /\ seen.pending = {} /\ seen.step = "checking"
    BY <2>1, <2>2 DEF ImRow
  <2>4. CASE stop
    <3> Quiet(RolledBack(Reported(seen, Rejected(None))))
      <4> HIDE DEF seen
      <4> QED
        BY <2>1, <2>3, <2>4, <1>R, <1>F
    <3> QED
      BY <1>0
  <2>5. CASE ~stop
    <3> HIDE DEF seen
    <3> DEFINE next == [seen EXCEPT !.step = "checked"]
    <3>1. /\ next \in ImRow /\ next.step = "checked" /\ next.left # <<>>
          /\ next.pending = {} /\ next.results = importer[s].results
      BY <2>3 DEF ImRow, ImSteps
    <3>2. importer' = [importer EXCEPT ![s] = next]
      BY <2>1, <2>5
    <3> HIDE DEF next
    <3> Quiet(next)
      BY <2>1, <3>1, <3>2, <1>F DEF Results
    <3> QED
      BY <1>0
  <2> QED
    BY <2>4, <2>5
<1>3. CASE Answer(s) \/ (Kill(s) /\ importer[s].step # "writing")
  <2> Quiet(Waiting)
    BY <1>3, <1>F DEF Answer, Kill
  <2> QED
    BY <1>0
<1>4. CASE FlushDocument(s) /\ Known(Current(s))
  <2> DEFINE row == RolledBack(Reported(importer[s], Rejected(None)))
  <2>1. importer[s].step = "checked" /\ importer' = [importer EXCEPT ![s] = row]
        /\ UNCHANGED <<documents, artifacts, reconciled, upgraded, torn, faults>>
    BY <1>4 DEF FlushDocument, ImInv, BatchTypes
  <2>2. importer[s].left # <<>>
    BY <2>1 DEF ImInv, OnlyItsFile
  <2> Quiet(row)
    BY <2>1, <2>2, <1>R, <1>F
  <2> QED
    BY <1>0
<1> QED
  BY <1>1, <1>2, <1>3, <1>4

(* The first flush of a document nobody else is at, under an id of its own. *)
LEMMA ImportFlush ==
  ASSUME ImInv, NEW s \in Importers, FlushDocument(s), ~Known(Current(s))
  PROVE  ImInv'
<1> DEFINE f == Current(s)
<1>1. PICK i \in DocIds :
         /\ Fresh(i)
         /\ importer' = [importer EXCEPT ![s].step = "writing",
                                         ![s].pending = @ \cup {[id |-> i, file |-> f]}]
         /\ artifacts' = artifacts \cup {i}
  BY DEF FlushDocument, NextId
<1> DEFINE p == [id |-> i, file |-> f]
           row == [importer[s] EXCEPT !.step = "writing", !.pending = {p}]
<1>2. /\ importer[s].step = "checked" /\ Holder = {} /\ importer[s].pending = {}
      /\ importer[s].left # <<>> /\ UNCHANGED <<documents, reconciled, upgraded, torn, faults>>
  BY DEF FlushDocument, ImInv, OnlyItsFile
<1>3. importer[s] \in ImRow /\ f \in Files
  BY <1>2, ImportRow DEF ImInv
<1>5. importer' = [importer EXCEPT ![s] = row]
  BY <1>1, <1>2 DEF ImInv, BatchTypes
<1>6. p.id = i /\ p.file = f /\ p \in [id : DocIds, file : Files]
  BY <1>3
<1>4. /\ row \in ImRow /\ row.step = "writing" /\ row.pending = {p} /\ row.left = importer[s].left
      /\ row.results = importer[s].results
  <2> HIDE DEF p
  <2> QED
    BY <1>3, <1>6 DEF ImRow, ImSteps
<1> HIDE DEF row, p
<1>7. \A t \in Importers : importer'[t] = IF t = s THEN row ELSE importer[t]
  BY <1>5 DEF ImInv, BatchTypes
<1>8. DocumentIds' = DocumentIds /\ (\A g : Known(g)' = Known(g))
      /\ \A t \in Importers : Results(t)' = Results(t)
  BY <1>2, <1>4, <1>7 DEF DocumentIds, Known, Results
<1>9. BatchTypes'
  BY <1>1, <1>2, <1>4, <1>5, ZenonT(60) DEF ImInv, BatchTypes
<1>10. \A t \in Importers \ {s} : importer'[t].pending = {}
  BY <1>2, <1>7 DEF Holder, ImInv, OnlyItsFile
<1>11. OnlyItsFile'
  BY <1>2, <1>4, <1>7, p = [id |-> i, file |-> f] DEF p, ImInv, OnlyItsFile, Current
<1>12. OneWriter' /\ OneOfAContent'
  BY <1>2, <1>7 DEF Holder, ImInv, OneWriter, OneOfAContent
<1>13. NewToTheBooks'
  <2>1. i \notin DocumentIds \cup torn
    BY <1>1 DEF Fresh, DocumentIds, ImInv, TornStays
  <2>2. \A t \in Importers : \A r \in Results(t) : r.id # i
    BY <1>1 DEF Fresh, Results
  <2> QED
    BY <2>1, <2>2, <1>2, <1>4, <1>6, <1>7, <1>8, <1>10 DEF NewToTheBooks
<1>14. TornStays' /\ ArtifactsHeld'
  <2> DEFINE Held(all) == UNION {{q.id : q \in all[t].pending} : t \in Importers}
  <2>1. \A t \in Importers : importer[t].pending = {}
    BY <1>2 DEF Holder, ImInv, OnlyItsFile
  <2>2. Held(importer) = {}
    BY <2>1
  <2>3. Held(importer') = {i}
    BY <1>4, <1>6, <1>7, <1>10
  <2> QED
    BY <2>2, <2>3, <1>1, <1>2, <1>8 DEF ImInv, ArtifactsHeld, TornStays, Owned, DocumentIds
<1>15. ReportsTrue'
  BY <1>2, <1>8 DEF ImInv, ReportsTrue
<1> QED
  BY <1>9, <1>11, <1>12, <1>13, <1>14, <1>15 DEF ImInv

(* A save that fails leaves what it had written, under an id no document    *)
(* will have.                                                               *)
LEMMA ImportTorn ==
  ASSUME ImInv, NEW s \in Importers, FailSave(s)
  PROVE  ImInv'
<1>0. PICK i \in DocIds : \E written \in SUBSET {i} :
         /\ Fresh(i)
         /\ importer' = [importer EXCEPT ![s] = RolledBack(Reported(@, Rejected(i)))]
         /\ artifacts' = artifacts \cup written /\ torn' = torn \cup written
  BY DEF FailSave, NextId
<1>1. PICK written \in SUBSET {i} :
         /\ Fresh(i)
         /\ importer' = [importer EXCEPT ![s] = RolledBack(Reported(@, Rejected(i)))]
         /\ artifacts' = artifacts \cup written /\ torn' = torn \cup written
  BY <1>0
<1>2. /\ importer[s].step = "checked" /\ Holder = {} /\ importer[s].left # <<>>
      /\ UNCHANGED <<documents, reconciled, upgraded, faults>>
  BY DEF FailSave, ImInv, OnlyItsFile
<1> DEFINE r == Rejected(i)
           new == Reported(importer[s], r)
           row == RolledBack(new)
<1>3. importer[s] \in ImRow
  BY ImportRow DEF ImInv
<1>4. r \in ImResult /\ r.id = i /\ r.kept = FALSE
  BY DEF Rejected, ImResult
<1>5. importer' = [importer EXCEPT ![s] = row]
  BY <1>1 DEF ImInv, BatchTypes
<1> HIDE DEF r
<1>6. /\ new \in ImRow /\ new.step = "checking"
      /\ {new.results[n] : n \in DOMAIN new.results} = Results(s) \cup {r}
  BY <1>2, <1>3, <1>4, ReportAdded DEF Results
<1> HIDE DEF new
<1>7. /\ row \in ImRow /\ row.step = "checking" /\ row.pending = {}
      /\ row.results = new.results
  BY <1>6 DEF RolledBack, ImRow
<1> HIDE DEF row
<1>8. \A t \in Importers : importer'[t] = IF t = s THEN row ELSE importer[t]
  BY <1>5 DEF ImInv, BatchTypes
<1>9. \A t \in Importers : importer[t].pending = {} /\ importer'[t].pending = {}
  BY <1>2, <1>7, <1>8 DEF Holder, ImInv, OnlyItsFile
<1>10. Results(s)' = Results(s) \cup {r} /\ \A t \in Importers \ {s} : Results(t)' = Results(t)
  BY <1>6, <1>7, <1>8 DEF Results
<1>11. i \notin DocumentIds
  BY <1>1 DEF Fresh, DocumentIds
<1>12. BatchTypes'
  <2>1. artifacts' \subseteq DocIds /\ torn' \subseteq DocIds
    BY <1>1 DEF ImInv, BatchTypes
  <2> QED
    BY <2>1, <1>2, <1>5, <1>7 DEF ImInv, BatchTypes
<1>13. OnlyItsFile'
  <2>1. \A t \in Importers : importer'[t].step # "writing"
    BY <1>2, <1>7, <1>8 DEF Holder
  <2>2. \A t \in Importers : importer'[t].step = "checked" => importer'[t].left # <<>>
    BY <1>7, <1>8 DEF ImInv, OnlyItsFile
  <2> QED
    BY <2>1, <2>2, <1>9 DEF OnlyItsFile
<1>14. OneWriter' /\ OneOfAContent'
  BY <1>2, <1>7, <1>8 DEF Holder, ImInv, OneWriter, OneOfAContent
<1>15. NewToTheBooks'
  BY <1>9 DEF NewToTheBooks
<1>16. TornStays'
  BY <1>1 DEF ImInv, TornStays
<1>17. ArtifactsHeld'
  BY <1>1, <1>2, <1>9 DEF ImInv, ArtifactsHeld, Owned
<1>18. ReportsTrue'
  <2>1. DocumentIds' = DocumentIds
    BY <1>2 DEF DocumentIds
  <2> QED
    BY <2>1, <1>2, <1>4, <1>10, <1>11 DEF ImInv, ReportsTrue
<1> QED
  BY <1>12, <1>13, <1>14, <1>15, <1>16, <1>17, <1>18 DEF ImInv

(* The document a request is writing.                                       *)
LEMMA TheOneWritten ==
  ASSUME ImInv, NEW s \in Importers, importer[s].step = "writing"
  PROVE  /\ Writing(s) \in [id : DocIds, file : Files]
         /\ importer[s].pending = {Writing(s)} /\ Writing(s).file = Current(s)
         /\ \A t \in Importers \ {s} : importer[t].pending = {}
<1>1. PICK i \in DocIds : importer[s].pending = {[id |-> i, file |-> Current(s)]}
  BY DEF ImInv, OnlyItsFile
<1>2. Writing(s) = [id |-> i, file |-> Current(s)]
  BY <1>1 DEF Writing
<1>3. Current(s) \in Files
  BY ImportRow DEF ImInv, OnlyItsFile
<1>4. \A t \in Importers \ {s} : importer[t].pending = {}
  BY DEF ImInv, OnlyItsFile, OneWriter, Holder
<1> QED
  BY <1>1, <1>2, <1>3, <1>4

(* The writer lets go, with one report or none: of its document, which is   *)
(* then in the books or gone.                                               *)
LEMMA WriterDone ==
  ASSUME ImInv, NEW s \in Importers, importer[s].step = "writing", NEW stays \in BOOLEAN,
         NEW row \in ImRow, importer' = [importer EXCEPT ![s] = row],
         row.step # "writing", row.step # "checked", row.pending = {},
         NEW r \in ImResult, r.id = Writing(s).id,
         \A n \in DOMAIN row.results : row.results[n] \in Results(s) \cup {r},
         UNCHANGED <<upgraded, torn>>, faults \subseteq faults', faults' \subseteq {"killed", "unacknowledged"},
         IF stays THEN Committed(s) ELSE UNCHANGED <<documents, reconciled>>,
         artifacts' \in {artifacts, Cleaned(Writing(s).id)},
         faults' = {} => /\ r.kept = stays
                         /\ artifacts' = IF stays THEN artifacts ELSE Cleaned(Writing(s).id)
  PROVE  ImInv'
<1> DEFINE p == Writing(s)
<1>1. /\ p.id \in DocIds /\ p.file \in Files /\ importer[s].pending = {p}
      /\ p.file = Current(s)
      /\ \A t \in Importers \ {s} : importer[t].pending = {}
  BY TheOneWritten
<1>2. p.id \notin DocumentIds \cup torn /\ ~Known(p.file)
      /\ \A t \in Importers : \A q \in Results(t) : q.id # None => q.id # p.id
  BY <1>1 DEF ImInv, NewToTheBooks
<1>3. \A t \in Importers : importer'[t] = IF t = s THEN row ELSE importer[t]
  BY DEF ImInv, BatchTypes
<1>4. \A t \in Importers : importer'[t].pending = {} /\ importer'[t].step # "writing"
  <2> \A t \in Importers \ {s} : importer[t].step # "writing"
    BY DEF ImInv, OneWriter, Holder
  <2> QED
    BY <1>1, <1>3
<1> DEFINE d == [id |-> p.id, file |-> p.file,
                 status |-> IF Parses(p.file) THEN "imported" ELSE "review_required"]
<1>5. /\ documents' = IF stays THEN documents \cup {d} ELSE documents
      /\ reconciled' \subseteq reconciled \cup {p.id}
  BY <1>1 DEF Committed
<1>6. d \in Doc /\ d.id = p.id /\ d.file = p.file
  BY <1>1 DEF Doc
<1>7. /\ faults' = {} => faults = {}
      /\ artifacts' \in {artifacts, artifacts \ {p.id}}
      /\ faults' = {} => artifacts' = IF stays THEN artifacts ELSE artifacts \ {p.id}
  BY DEF Cleaned
<1>8. r.id = p.id
  OBVIOUS
<1> HIDE DEF p, d
<1>9. BatchTypes'
  <2>1. documents' \subseteq Doc
    BY <1>5, <1>6 DEF ImInv, BatchTypes
  <2>2. artifacts' \subseteq DocIds /\ reconciled' \subseteq DocIds
    BY <1>1, <1>5, <1>7 DEF ImInv, BatchTypes
  <2> QED
    BY <2>1, <2>2 DEF ImInv, BatchTypes
<1>10. OnlyItsFile' /\ OneWriter' /\ NewToTheBooks'
  BY <1>3, <1>4 DEF ImInv, OnlyItsFile, OneWriter, Holder, NewToTheBooks, Current
<1>11. OneOfAContent'
  BY <1>2, <1>5, <1>6 DEF ImInv, OneOfAContent, Known
<1>12. \A t \in Importers : \A q \in Results(t)' : q \in Results(t) \/ (t = s /\ q = r)
  BY <1>3 DEF Results
<1>13. DocumentIds' = IF stays THEN DocumentIds \cup {p.id} ELSE DocumentIds
  BY <1>5, <1>6 DEF DocumentIds
<1>14. TornStays' /\ ArtifactsHeld'
  <2> DEFINE Held(all) == UNION {{q.id : q \in all[t].pending} : t \in Importers}
  <2>1. Held(importer) = {p.id}
    <3>1. {q.id : q \in importer[s].pending} = {p.id}
      BY <1>1
    <3>2. \A t \in Importers \ {s} : {q.id : q \in importer[t].pending} = {}
      BY <1>1
    <3> QED
      BY <3>1, <3>2, SMTT(30)
  <2>2. Held(importer') = {}
    <3>1. \A t \in Importers : {q.id : q \in importer'[t].pending} = {}
      BY <1>4
    <3> QED
      BY <3>1
  <2>3. faults = {} => artifacts = DocumentIds \cup {p.id} \cup torn
    BY <2>1 DEF ImInv, ArtifactsHeld, Owned, DocumentIds
  <2>4. faults' = {} => artifacts' = DocumentIds' \cup torn
    BY <2>3, <1>2, <1>7, <1>13, ZenonT(60)
  <2>5. TornStays'
    BY <1>2, <1>7 DEF ImInv, TornStays
  <2> QED
    BY <2>2, <2>4, <2>5 DEF ArtifactsHeld, Owned, DocumentIds
<1>15. ReportsTrue'
  BY <1>2, <1>7, <1>8, <1>12, <1>13 DEF ImInv, ReportsTrue
<1> QED
  BY <1>9, <1>10, <1>11, <1>14, <1>15 DEF ImInv

LEMMA ImportWriter ==
  ASSUME ImInv, NEW s \in Importers,
         \/ PersistDocument(s) \/ FailDocument(s) \/ LoseAnswer(s)
         \/ Kill(s) /\ importer[s].step = "writing"
  PROVE  ImInv'
<1> DEFINE m == importer[s]
           id == Writing(s).id
<1>1. m \in ImRow /\ m.step = "writing" /\ m.left # <<>> /\ id \in DocIds
  BY ImportRow, TheOneWritten DEF PersistDocument, FailDocument, LoseAnswer, ImInv, OnlyItsFile
<1>F. faults \subseteq {"killed", "unacknowledged"}
  BY DEF ImInv, BatchTypes
<1>R. ASSUME NEW r \in ImResult
      PROVE  LET row == [Reported(m, r) EXCEPT !.pending = {}] IN
             /\ row \in ImRow /\ row.step = "checking" /\ row.pending = {}
             /\ \A n \in DOMAIN row.results : row.results[n] \in Results(s) \cup {r}
  <2> DEFINE new == Reported(m, r)
             row == [new EXCEPT !.pending = {}]
  <2>2. /\ new \in ImRow /\ new.step = "checking"
        /\ {new.results[n] : n \in DOMAIN new.results}
              = {m.results[n] : n \in DOMAIN m.results} \cup {r}
    BY <1>1, ReportAdded
  <2> HIDE DEF new
  <2>3. /\ row \in ImRow /\ row.step = "checking" /\ row.pending = {}
        /\ row.results = new.results
    BY <2>2 DEF ImRow
  <2> HIDE DEF row
  <2>4. ASSUME NEW n \in DOMAIN row.results
        PROVE  row.results[n] \in Results(s) \cup {r}
    BY <2>2, <2>3 DEF Results
  <2> QED
    BY <2>3, <2>4 DEF row, new
<1> DEFINE row(r) == [Reported(m, r) EXCEPT !.pending = {}]
<1>2. CASE PersistDocument(s)
  <2>1. /\ importer' = [importer EXCEPT ![s] = row(Kept(id))] /\ Committed(s)
        /\ UNCHANGED <<artifacts, upgraded, torn, faults>>
    BY <1>2 DEF PersistDocument, ImInv, BatchTypes
  <2> DEFINE r == Kept(id)
  <2>2. r \in ImResult /\ r.kept = TRUE /\ r.id = Writing(s).id
    BY <1>1 DEF Kept, ImResult
  <2> HIDE DEF r
  <2>3. /\ row(r) \in ImRow /\ row(r).step = "checking" /\ row(r).pending = {}
        /\ \A n \in DOMAIN row(r).results : row(r).results[n] \in Results(s) \cup {r}
    BY <2>2, <1>R
  <2>4. importer' = [importer EXCEPT ![s] = row(r)]
    BY <2>1 DEF r
  <2> HIDE DEF row
  <2> QED
    BY <1>1, <2>1, <2>2, <2>3, <2>4, <1>F, WriterDone
<1>3. CASE FailDocument(s) \/ LoseAnswer(s)
  <2> DEFINE r == Rejected(id)
             new == row(r)
  <2>1. r \in ImResult /\ r.kept = FALSE /\ r.id = Writing(s).id
    BY <1>1 DEF Rejected, ImResult
  <2>2. CASE FailDocument(s)
    <3>1. /\ importer' = [importer EXCEPT ![s] = new] /\ artifacts' = Cleaned(id)
          /\ UNCHANGED <<documents, reconciled, upgraded, torn, faults>>
      BY <2>2 DEF FailDocument, RolledBack, ImInv, BatchTypes
    <3> HIDE DEF r
    <3>2. /\ new \in ImRow /\ new.step = "checking" /\ new.pending = {}
          /\ \A n \in DOMAIN new.results : new.results[n] \in Results(s) \cup {r}
      BY <2>1, <1>R
    <3> DEFINE stays == FALSE
    <3>3. /\ stays \in BOOLEAN /\ r.kept = stays
          /\ IF stays THEN Committed(s) ELSE UNCHANGED <<documents, reconciled>>
          /\ artifacts' = IF stays THEN artifacts ELSE Cleaned(Writing(s).id)
      BY <2>1, <3>1
    <3> HIDE DEF new, stays
    <3> QED
      BY <1>1, <2>1, <3>1, <3>2, <3>3, <1>F, WriterDone
  <2>3. CASE LoseAnswer(s)
    <3>1. /\ importer' = [importer EXCEPT ![s] = new] /\ artifacts' = Cleaned(id)
          /\ Committed(s) /\ UNCHANGED <<upgraded, torn>> /\ faults' = faults \cup {"unacknowledged"}
      BY <2>3 DEF LoseAnswer, ImInv, BatchTypes
    <3> HIDE DEF r
    <3>2. /\ new \in ImRow /\ new.step = "checking" /\ new.pending = {}
          /\ \A n \in DOMAIN new.results : new.results[n] \in Results(s) \cup {r}
      BY <2>1, <1>R
    <3> DEFINE stays == TRUE
    <3>3. /\ stays \in BOOLEAN /\ faults' # {}
          /\ IF stays THEN Committed(s) ELSE UNCHANGED <<documents, reconciled>>
      BY <3>1
    <3> HIDE DEF new, stays
    <3> QED
      BY <1>1, <2>1, <3>1, <3>2, <3>3, <1>F, WriterDone
  <2> QED
    BY <1>3, <2>2, <2>3
<1>4. CASE Kill(s) /\ importer[s].step = "writing"
  <2> DEFINE r == [kept |-> FALSE, id |-> id]
  <2>1. r \in ImResult /\ r.id = Writing(s).id
    BY <1>1 DEF ImResult
  <2>2. Waiting \in ImRow /\ DOMAIN Waiting.results = {} /\ Waiting.pending = {}
        /\ Waiting.step = "idle"
    BY EmptySeq DEF Waiting, ImRow, ImSteps
  <2>3. /\ importer' = [importer EXCEPT ![s] = Waiting] /\ faults' = faults \cup {"killed"}
        /\ UNCHANGED <<documents, artifacts, reconciled, upgraded, torn>>
    BY <1>4 DEF Kill
  <2> HIDE DEF r
  <2> QED
    BY <1>1, <2>1, <2>2, <2>3, <1>F, WriterDone
<1> QED
  BY <1>2, <1>3, <1>4

LEMMA ImportStep == ImInv /\ [ImNext]_imVars => ImInv'
<1> SUFFICES ASSUME ImInv, [ImNext]_imVars
             PROVE  ImInv'
  OBVIOUS
<1>1. ASSUME UNCHANGED <<documents, artifacts, importer, torn, faults>>,
             upgraded' \in BOOLEAN, reconciled' \subseteq DocIds
      PROVE  ImInv'
  BY <1>1 DEF ImInv, BatchTypes, OnlyItsFile, OneWriter, OneOfAContent, NewToTheBooks,
     TornStays, ArtifactsHeld, Owned, ReportsTrue, Holder, Results, DocumentIds, Known, Current
<1>2. CASE UNCHANGED imVars
  BY <1>1, <1>2 DEF imVars, ImInv, BatchTypes
<1>3. CASE UpgradeParser
  BY <1>1, <1>3 DEF UpgradeParser, ImInv, BatchTypes
<1>4. ASSUME NEW d \in documents, Reconcile(d) PROVE ImInv'
  BY <1>1, <1>4 DEF Reconcile, ImInv, BatchTypes, Doc
<1>5. ASSUME NEW s \in Importers, FlushDocument(s) PROVE ImInv'
  BY <1>5, ImportFlush, ImportQuiet
<1>6. ASSUME NEW s \in Importers, Kill(s) PROVE ImInv'
  BY <1>6, ImportWriter, ImportQuiet
<1> QED
  BY <1>2, <1>3, <1>4, <1>5, <1>6, ImportQuiet, ImportTorn, ImportWriter DEF ImNext

(* Whatever batches overlap, repeat or fail: a content is one document, the *)
(* artifacts on disk are those of the documents and of the import under way *)
(* and what saves that failed had written, and a batch's report says what   *)
(* is in the books (but for a killed process and a lost answer).            *)
THEOREM BatchesAgree == ImSpec => []BatchesMatchBooks
<1>1. ASSUME ImInv PROVE BatchesMatchBooks
  <2>1. ArtifactsMatchDocuments
    BY <1>1 DEF ImInv, OneOfAContent, ArtifactsHeld, ArtifactsMatchDocuments
  <2>2. ReportMatchesBooks
    BY <1>1 DEF ImInv, ReportsTrue, DocumentIds, Results, ReportMatchesBooks
  <2> QED
    BY <2>1, <2>2 DEF BatchesMatchBooks
<1> QED
  BY <1>1, ImportInit, ImportStep, PTL DEF ImSpec
-----------------------------------------------------------------------------
(* Sums written as recursive functions.  What holds of every prefix is      *)
(* shown of the shortest one it would fail of.                              *)
LEMMA LeastNumber ==
  ASSUME NEW S \in SUBSET Nat, S # {}
  PROVE  \E m \in S : \A k \in S : m <= k
<1> DEFINE R == {ss \in Nat \X Nat : ss[1] < ss[2]}
<1>1. IsWellFoundedOn(R, Nat)
  <2> R = OpToRel(<, Nat)
    BY DEF OpToRel
  <2> QED
    BY NatLessThanWellFounded
<1>2. \A x, y \in Nat : y < x => <<y, x>> \in R
  OBVIOUS
<1> HIDE DEF R
<1>3. PICK x \in S : \A y \in S : ~ (<<y, x>> \in R)
  BY <1>1, WFMin
<1>4. ASSUME NEW y \in S PROVE x <= y
  <2>1. x \in Nat /\ y \in Nat
    OBVIOUS
  <2>2. ~ (y < x)
    BY <2>1, <1>2, <1>3
  <2> QED
    BY <2>1, <2>2
<1> QED
  BY <1>4

(* The least of what fails, as proofs use it: its predecessor does not.     *)
LEMMA LeastFailure ==
  ASSUME NEW N \in Nat, NEW Good, 0 \in Good, \E m \in 0 .. N : m \notin Good
  PROVE  \E m \in 1 .. N : m \notin Good /\ m - 1 \in 0 .. N /\ m - 1 \in Good
<1> DEFINE Bad == {m \in 0 .. N : m \notin Good}
<1>1. Bad \in SUBSET Nat /\ Bad # {}
  OBVIOUS
<1>2. \E m \in Bad : \A k \in Bad : m <= k
  <2> HIDE DEF Bad
  <2> QED
    BY <1>1, LeastNumber
<1>3. PICK m \in Bad : \A k \in Bad : m <= k
  BY <1>2
<1>4. m \in 1 .. N /\ m - 1 \in 0 .. N /\ m - 1 \notin Bad
  BY <1>3
<1> QED
  BY <1>4

Sums(f, v, N) ==
    f \in [0 .. N -> Int] /\ f[0] = 0 /\ \A n \in 1 .. N : f[n] = f[n - 1] + v[n]

LEMMA SumsExist ==
  ASSUME NEW N \in Nat, NEW v \in [1 .. N -> Int]
  PROVE  \E f : Sums(f, v, N)
<1> DEFINE Good == {n \in 0 .. N : \E f : Sums(f, v, n)}
<1> SUFFICES ASSUME N \notin Good PROVE FALSE
  OBVIOUS
<1>0. \E m \in 0 .. N : m \notin Good
  <2> N \in 0 .. N
    OBVIOUS
  <2> QED
    OBVIOUS
<1>1. 0 \in Good
  <2> DEFINE z == [k \in 0 .. 0 |-> 0]
  <2>1. z \in [0 .. 0 -> Int] /\ z[0] = 0
    OBVIOUS
  <2> HIDE DEF z
  <2>2. Sums(z, v, 0)
    BY <2>1, \A n \in 1 .. 0 : FALSE DEF Sums
  <2> QED
    BY <2>2
<1>2. PICK m \in 1 .. N : m \notin Good /\ m - 1 \in 0 .. N /\ m - 1 \in Good
  <2> HIDE DEF Good
  <2> QED
    BY <1>0, <1>1, LeastFailure
<1>3. PICK f : Sums(f, v, m - 1)
  BY <1>2
<1>4. Sums([k \in 0 .. m |-> IF k = m THEN f[m - 1] + v[m] ELSE f[k]], v, m)
  BY <1>3 DEF Sums
<1> QED
  BY <1>2, <1>4

LEMMA SumsAgree ==
  ASSUME NEW N \in Nat, NEW M \in Nat, NEW v, NEW w, NEW f, NEW g,
         Sums(f, v, N), Sums(g, w, M), NEW n \in 0 .. N, n <= M,
         \A i \in 1 .. n : v[i] = w[i]
  PROVE  f[n] = g[n]
<1> DEFINE Good == {m \in 0 .. n : f[m] = g[m]}
<1> SUFFICES ASSUME n \notin Good PROVE FALSE
  OBVIOUS
<1>1. 0 \in Good
  BY DEF Sums
<1>2. PICK m \in 1 .. n : m \notin Good /\ m - 1 \in 0 .. n /\ m - 1 \in Good
  <2> HIDE DEF Good
  <2> QED
    BY <1>1, LeastFailure
<1> QED
  BY <1>2 DEF Sums

(* Nothing is added where there is nothing to add.                          *)
LEMMA SumsLevel ==
  ASSUME NEW N \in Nat, NEW v, NEW f, Sums(f, v, N), NEW a \in 0 .. N,
         \A i \in a + 1 .. N : v[i] = 0
  PROVE  f[N] = f[a]
<1> DEFINE Good == {m \in 0 .. N - a : f[a + m] = f[a]}
<1> SUFFICES ASSUME N - a \notin Good PROVE FALSE
  BY DEF Sums
<1>1. 0 \in Good /\ N - a \in Nat
  BY DEF Sums
<1>2. PICK m \in 1 .. N - a : m \notin Good /\ m - 1 \in 0 .. N - a /\ m - 1 \in Good
  <2> HIDE DEF Good
  <2> QED
    BY <1>1, LeastFailure
<1>3. f[a + m] = f[a + m - 1] + v[a + m] /\ v[a + m] = 0 /\ f[a + m - 1] = f[a]
  BY <1>2 DEF Sums
<1>4. f[a + m - 1] \in Int
  BY <1>2 DEF Sums
<1> QED
  BY <1>2, <1>3, <1>4

(* The function a recursive definition chooses is the one the sums give.    *)
LEMMA SumsChosen ==
  ASSUME NEW N \in Nat, NEW v \in [1 .. N -> Int],
         NEW t, t = [n \in 0 .. N |-> IF n = 0 THEN 0 ELSE t[n - 1] + v[n]]
  PROVE  Sums(t, v, N)
<1>1. PICK f : Sums(f, v, N)
  BY SumsExist
<1>2. \A n \in 0 .. N : t[n] = IF n = 0 THEN 0 ELSE t[n - 1] + v[n]
  OBVIOUS
<1> DEFINE Good == {m \in 0 .. N : t[m] = f[m]}
<1>3. \A m \in 0 .. N : m \in Good
  <2> SUFFICES ASSUME NEW n \in 0 .. N, n \notin Good PROVE FALSE
    OBVIOUS
  <2>1. 0 \in Good
    BY <1>1, <1>2 DEF Sums
  <2>2. PICK m \in 1 .. N : m \notin Good /\ m - 1 \in 0 .. N /\ m - 1 \in Good
    <3> HIDE DEF Good
    <3> QED
      BY <2>1, LeastFailure
  <2>3. m \in 0 .. N /\ m # 0 /\ t[m - 1] = f[m - 1] /\ t[m] # f[m]
    BY <2>2
  <2>4. t[m] = t[m - 1] + v[m]
    BY <1>2, <2>3
  <2>5. f[m] = f[m - 1] + v[m]
    BY <1>1, <2>2 DEF Sums
  <2> QED
    BY <2>3, <2>4, <2>5
<1>4. t = f
  BY <1>1, <1>3 DEF Sums
<1> QED
  BY <1>1, <1>4

-----------------------------------------------------------------------------
(* Investments.  The cost of every standing event is the sum of what was    *)
(* put in up to it, as long as requests do not overlap and an undo finds    *)
(* the dates in order; a transfer is linked to one standing event anyway.   *)
Asset == [made : BOOLEAN, cost : Int, worth : Int]
Logs == Seq(Events)
Reading == {Still} \cup [op : {"value", "contribute", "undo"}, rq : Requests, a : Asset, l : Logs]

InvTypes ==
    /\ asset \in Asset /\ log \in Logs /\ kept \subseteq Transfers
    /\ inFlight \in Reading /\ strayed \subseteq {"overlap", "reordered"}
    /\ inFlight # Still => /\ asset.made /\ inFlight.op = inFlight.rq.op
                           /\ inFlight.op = "undo" => CanUndo(inFlight.l, inFlight.rq.n)
    /\ Len(log) <= MaxLog

Puts(l) == [n \in 1 .. Len(l) |-> IF l[n].valid THEN l[n].put ELSE 0]
CostsFollow ==
    strayed = {} => \E f : /\ Sums(f, Puts(log), Len(log)) /\ asset.cost = f[Len(log)]
                           /\ \A n \in Valid(log) : log[n].cost = f[n]
InvInv == InvTypes /\ FundedOnce /\ CostsFollow /\ (~asset.made => log = <<>>)

LEMMA PutsType ==
  ASSUME NEW l \in Logs
  PROVE  Len(l) \in Nat /\ DOMAIN l = 1 .. Len(l) /\ Puts(l) \in [1 .. Len(l) -> Int]
<1>1. Len(l) \in Nat /\ DOMAIN l = 1 .. Len(l) /\ \A n \in 1 .. Len(l) : l[n] \in Events
  BY DEF Logs
<1>2. \A e \in Events : e.put \in Int
  BY DEF Events
<1> QED
  BY <1>1, <1>2 DEF Puts

(* What the recursive definition of the amount put in computes.             *)
LEMMA PutInIsTheSum ==
  ASSUME NEW l \in Logs, NEW f, Sums(f, Puts(l), Len(l))
  PROVE  PutIn(l) = f[Len(l)]
<1> DEFINE N == Len(l)
<1>1. N \in Nat /\ Puts(l) \in [1 .. N -> Int]
  BY PutsType
<1> DEFINE total[n \in 0 .. N] ==
             IF n = 0 THEN 0 ELSE total[n - 1] + (IF l[n].valid THEN l[n].put ELSE 0)
<1>2. f = [n \in 0 .. N |-> IF n = 0 THEN 0
                             ELSE f[n - 1] + (IF l[n].valid THEN l[n].put ELSE 0)]
  BY <1>1 DEF Sums, Puts
<1>3. total = [n \in 0 .. N |-> IF n = 0 THEN 0
                             ELSE total[n - 1] + (IF l[n].valid THEN l[n].put ELSE 0)]
  BY <1>2
<1>4. PutIn(l) = total[N]
  BY DEF PutIn
<1> HIDE DEF total
<1>5. total = [n \in 0 .. N |-> IF n = 0 THEN 0 ELSE total[n - 1] + Puts(l)[n]]
  BY <1>1, <1>3 DEF Puts
<1>6. Sums(total, Puts(l), N)
  BY <1>1, <1>5, SumsChosen
<1>7. total[N] = f[N]
  <2> N \in 0 .. N /\ N <= N
    BY <1>1
  <2> QED
    BY <1>1, <1>6, SumsAgree
<1> QED
  BY <1>4, <1>7

(* Of some events of a log one is the latest.                               *)
LEMMA LatestExists ==
  ASSUME NEW l \in Logs, NEW S \in SUBSET (DOMAIN l), S # {}
  PROVE  /\ LatestOf(l, S) \in S
         /\ \A k \in S \ {LatestOf(l, S)} : Later(l, LatestOf(l, S), k)
<1> DEFINE N == Len(l)
           Latest(m, p) == p \in S \cap 1 .. m /\ \A k \in (S \cap 1 .. m) \ {p} : Later(l, p, k)
           Good == {m \in 0 .. N : S \cap 1 .. m = {} \/ \E p \in S : Latest(m, p)}
<1>1. N \in Nat /\ S \subseteq 1 .. N /\ \A n \in 1 .. N : l[n].day \in Nat
  <2> \A n \in 1 .. N : l[n] \in Events
    BY DEF Logs
  <2> QED
    BY PutsType, InvDaysNat DEF Events
<1>2. N \in Good
  <2> SUFFICES ASSUME N \notin Good PROVE FALSE
    OBVIOUS
  <2>1. 0 \in Good /\ N \in 0 .. N
    BY <1>1
  <2>2. PICK m \in 1 .. N : m \notin Good /\ m - 1 \in 0 .. N /\ m - 1 \in Good
    <3> HIDE DEF Good
    <3> QED
      BY <1>1, <2>1, LeastFailure
  <2> DEFINE before == S \cap 1 .. (m - 1)
             upTo == S \cap 1 .. m
  <2>3. /\ before \subseteq upTo /\ upTo \subseteq before \cup {m} /\ m \notin before
        /\ m \in S => m \in upTo
    <3>1. m \in Nat /\ m >= 1 /\ \A k \in S : k \in Nat /\ k >= 1
      <4> HIDE DEF before, upTo, Good, Latest
      <4>1. \A k \in 1 .. N : k \in Nat /\ k >= 1
        BY <1>1
      <4> QED
        BY <1>1, <4>1
    <3>2. \A k \in S : k \in 1 .. m <=> k \in 1 .. (m - 1) \/ k = m
      BY <3>1, SMTT(30)
    <3>3. m \notin 1 .. (m - 1) /\ m \in 1 .. m
      BY <3>1
    <3> QED
      BY <3>2, <3>3
  <2>4. ASSUME NEW k \in before PROVE k < m /\ l[k].day \in Nat /\ l[m].day \in Nat
    <3> m \in Nat /\ m \in 1 .. N /\ k \in 1 .. (m - 1) /\ k \in 1 .. N
      BY <1>1
    <3> QED
      BY <1>1
  <2>5. before = {} \/ \E p \in S : Latest(m - 1, p)
    BY <2>2
  <2>6. upTo # {} /\ ~ \E p \in S : Latest(m, p)
    BY <2>2, SMTT(30)
  <2> HIDE DEF before, upTo, Good, N
  <2>7. CASE m \notin S
    <3>1. upTo = before
      BY <2>3, <2>7 DEF upTo
    <3>2. \A p : Latest(m - 1, p) <=> Latest(m, p)
      BY <3>1 DEF before, upTo
    <3> QED
      BY <2>5, <2>6, <3>1, <3>2
  <2>8. CASE m \in S
    <3>1. \A p : Latest(m, p) <=> p \in upTo /\ \A k \in upTo \ {p} : Later(l, p, k)
      BY DEF upTo
    <3>2. \A p : Latest(m - 1, p) <=> p \in before /\ \A k \in before \ {p} : Later(l, p, k)
      BY DEF before
    <3>3. CASE before = {}
      BY <2>3, <2>6, <2>8, <3>1, <3>3
    <3>4. ASSUME NEW p \in before, \A k \in before \ {p} : Later(l, p, k) PROVE FALSE
      <4>1. CASE l[m].day >= l[p].day
        <5> HIDE DEF Latest
        <5> \A k \in before : Later(l, m, k)
          <6> SUFFICES ASSUME NEW k \in before PROVE Later(l, m, k)
            OBVIOUS
          <6>1. k < m /\ p < m /\ l[k].day \in Nat /\ l[m].day \in Nat /\ l[p].day \in Nat
            BY <2>4
          <6>2. l[k].day <= l[p].day
            <7>1. k = p \/ Later(l, p, k)
              BY <3>4
            <7> QED
              BY <6>1, <7>1 DEF Later
          <6>3. m \in Nat /\ k \in Nat
            BY <1>1 DEF before
          <6> QED
            BY <4>1, <6>1, <6>2, <6>3 DEF Later
        <5> USE DEF Latest
        <5> QED
          BY <2>3, <2>6, <2>8, <3>1
      <4>2. CASE ~(l[m].day >= l[p].day)
        <5>1. Later(l, p, m)
          BY <2>4, <4>2 DEF Later
        <5>2. p \in upTo /\ p \in S
          BY <2>3 DEF before
        <5> QED
          BY <2>3, <2>6, <3>1, <3>4, <5>1, <5>2
      <4> QED
        BY <4>1, <4>2
    <3> QED
      BY <2>5, <3>2, <3>3, <3>4
  <2> QED
    BY <2>7, <2>8
<1>3. S \cap 1 .. N = S
  BY <1>1
<1>4. \E p \in S : \A k \in S \ {p} : Later(l, p, k)
  BY <1>2, <1>3
<1> QED
  BY <1>4 DEF LatestOf

(* In a log dated in the order it was recorded, it is the one recorded last. *)
LEMMA LatestInOrder ==
  ASSUME NEW l \in Logs, InDateOrder(l), NEW S \in SUBSET Valid(l), NEW p \in S,
         \A k \in S \ {p} : Later(l, p, k)
  PROVE  \A k \in S : k <= p
<1>1. DOMAIN l = 1 .. Len(l) /\ Len(l) \in Nat /\ \A n \in DOMAIN l : l[n].day \in Nat
  <2> \A n \in 1 .. Len(l) : l[n] \in Events
    BY DEF Logs
  <2> QED
    BY PutsType, InvDaysNat DEF Events
<1> SUFFICES ASSUME NEW k \in S, ~(k <= p) PROVE FALSE
  OBVIOUS
<1>2. p \in Nat /\ k \in Nat /\ p < k /\ k \in Valid(l) /\ p \in Valid(l)
  BY <1>1 DEF Valid
<1>3. l[p].day <= l[k].day /\ l[p].day \in Nat /\ l[k].day \in Nat
  BY <1>1, <1>2 DEF InDateOrder, Valid
<1> QED
  BY <1>2, <1>3 DEF Later

LEMMA LogEntries ==
  ASSUME NEW l \in Logs
  PROVE  /\ Len(l) \in Nat /\ DOMAIN l = 1 .. Len(l)
         /\ \A n \in DOMAIN l : l[n] \in Events
  BY DEF Logs

(* A standing event is added: its cost is what the asset now costs.         *)
LEMMA EventAdded ==
  ASSUME InvInv, NEW e \in Events, e.valid, log' = Append(log, e), Len(log) < MaxLog,
         e.from = NoTransfer \/ e.from \notin Linked(log),
         strayed' = {} => /\ strayed = {}
                         /\ asset'.cost = asset.cost + e.put /\ e.cost = asset'.cost
  PROVE  log' \in Logs /\ Len(log') <= MaxLog /\ FundedOnce' /\ CostsFollow'
<1> DEFINE N == Len(log)
<1>1. log \in Logs /\ asset.cost \in Int /\ N \in Nat /\ DOMAIN log = 1 .. N
  BY LogEntries DEF InvInv, InvTypes, Asset
<1>2. /\ log' \in Logs /\ Len(log') = N + 1 /\ DOMAIN log' = 1 .. (N + 1)
      /\ log'[N + 1] = e /\ \A n \in 1 .. N : log'[n] = log[n]
  BY <1>1 DEF Logs
<1>3. Len(log') <= MaxLog
  BY <1>1, <1>2, InvBound
<1>4. Valid(log') = Valid(log) \cup {N + 1} /\ Valid(log) \subseteq 1 .. N
  BY <1>1, <1>2 DEF Valid
<1>5. FundedOnce'
  BY <1>1, <1>2, <1>4 DEF InvInv, FundedOnce, Linked
<1>6. CostsFollow'
  <2> SUFFICES ASSUME strayed' = {}
               PROVE  \E f : /\ Sums(f, Puts(log'), N + 1) /\ asset'.cost = f[N + 1]
                             /\ \A n \in Valid(log') : log'[n].cost = f[n]
    BY <1>2, ZenonT(60) DEF CostsFollow
  <2>1. PICK f : /\ Sums(f, Puts(log), N) /\ asset.cost = f[N]
                 /\ \A n \in Valid(log) : log[n].cost = f[n]
    BY DEF InvInv, CostsFollow
  <2> DEFINE g == [n \in 0 .. N + 1 |-> IF n = N + 1 THEN f[N] + e.put ELSE f[n]]
  <2>2. e.put \in Int /\ Puts(log')[N + 1] = e.put
        /\ \A n \in 1 .. N : Puts(log')[n] = Puts(log)[n]
    BY <1>1, <1>2 DEF Events, Puts
  <2>3. g \in [0 .. N + 1 -> Int] /\ g[0] = 0 /\ g[N + 1] = f[N] + e.put
        /\ \A n \in 0 .. N : g[n] = f[n]
    BY <1>1, <2>1, <2>2 DEF Sums
  <2> HIDE DEF g
  <2>4. \A n \in 1 .. N + 1 : g[n] = g[n - 1] + Puts(log')[n]
    <3> SUFFICES ASSUME NEW n \in 1 .. N + 1 PROVE g[n] = g[n - 1] + Puts(log')[n]
      OBVIOUS
    <3>1. CASE n = N + 1
      BY <1>1, <2>2, <2>3, <3>1
    <3>2. CASE n \in 1 .. N
      <4> n - 1 \in 0 .. N /\ n \in 0 .. N
        BY <1>1, <3>2
      <4> QED
        BY <2>1, <2>2, <2>3, <3>2 DEF Sums
    <3> QED
      BY <1>1, <3>1, <3>2
  <2>5. Sums(g, Puts(log'), N + 1)
    BY <2>3, <2>4 DEF Sums
  <2>6. asset'.cost = g[N + 1] /\ \A n \in Valid(log') : log'[n].cost = g[n]
    BY <1>1, <1>2, <1>4, <2>1, <2>3
  <2> QED
    BY <2>5, <2>6
<1> QED
  BY <1>2, <1>3, <1>5, <1>6

(* The last standing event is undone: the asset costs what the one before   *)
(* it said.                                                                 *)
LEMMA EventUndone ==
  ASSUME InvInv, NEW n, log' = [log EXCEPT ![n].valid = FALSE],
         strayed' = {} =>
             /\ strayed = {} /\ InDateOrder(log) /\ CanUndo(log, n)
             /\ asset'.cost = IF Valid(log) \ {n} = {} THEN 0
                              ELSE log[LatestOf(log, Valid(log) \ {n})].cost
  PROVE  log' \in Logs /\ Len(log') <= MaxLog /\ FundedOnce' /\ CostsFollow'
<1> DEFINE N == Len(log)
<1>1. /\ log \in Logs /\ N \in Nat /\ DOMAIN log = 1 .. N
      /\ \A k \in 1 .. N : log[k] \in Events
  BY LogEntries DEF InvInv, InvTypes
<1>2. /\ log' \in Logs /\ Len(log') = N /\ DOMAIN log' = 1 .. N
      /\ \A k \in 1 .. N : /\ log'[k].cost = log[k].cost /\ log'[k].put = log[k].put
                           /\ log'[k].from = log[k].from
                           /\ log'[k].valid <=> log[k].valid /\ k # n
  <2>1. CASE n \notin 1 .. N
    <3>1. log \in [1 .. N -> Events]
      BY <1>1 DEF Logs
    <3>2. log' = log
      BY <2>1, <3>1
    <3> QED
      BY <1>1, <2>1, <3>2
  <2>2. CASE n \in 1 .. N
    <3> DEFINE e == [log[n] EXCEPT !.valid = FALSE]
    <3>1. /\ e \in Events /\ e.cost = log[n].cost /\ e.put = log[n].put
          /\ e.from = log[n].from /\ e.valid = FALSE
      BY <1>1, <2>2 DEF Events
    <3>2. log' = [log EXCEPT ![n] = e]
      BY <1>1, <2>2
    <3> HIDE DEF e
    <3>3. /\ log' \in Logs /\ Len(log') = N
          /\ \A k \in 1 .. N : log'[k] = IF k = n THEN e ELSE log[k]
      <4>1. log \in [1 .. N -> Events]
        BY <1>1 DEF Logs
      <4>2. /\ log' \in [1 .. N -> Events]
            /\ \A k \in 1 .. N : log'[k] = IF k = n THEN e ELSE log[k]
        BY <3>1, <3>2, <4>1
      <4>3. log' \in Seq(Events)
        BY <1>1, <4>2, SeqDef
      <4>4. Len(log') = N
        <5>1. Len(log') \in Nat /\ DOMAIN log' = 1 .. Len(log')
          BY <4>3, LenProperties
        <5>2. DOMAIN log' = 1 .. N
          BY <4>2
        <5> HIDE DEF N
        <5> QED
          BY <1>1, <5>1, <5>2
      <4> QED
        BY <4>2, <4>3, <4>4 DEF Logs
    <3> QED
      BY <1>1, <3>1, <3>3, LogEntries
  <2> QED
    BY <2>1, <2>2
<1>0. N \in Nat /\ Len(log') = N /\ Len(log) = N
  BY <1>1, <1>2
<1>3. Len(log') <= MaxLog
  BY <1>0 DEF InvInv, InvTypes
<1>4. Valid(log') = Valid(log) \ {n} /\ Valid(log) \subseteq 1 .. N
  BY <1>1, <1>2 DEF Valid
<1>5. FundedOnce'
  BY <1>2, <1>4 DEF InvInv, FundedOnce
<1> HIDE DEF N
<1>6. CostsFollow'
  <2> SUFFICES ASSUME strayed' = {}
               PROVE  \E f : /\ Sums(f, Puts(log'), N) /\ asset'.cost = f[N]
                             /\ \A k \in Valid(log') : log'[k].cost = f[k]
    BY <1>0 DEF CostsFollow
  <2>1. PICK f : /\ Sums(f, Puts(log), N) /\ asset.cost = f[N]
                 /\ \A k \in Valid(log) : log[k].cost = f[k]
    BY <1>0 DEF InvInv, CostsFollow
  <2>2. PICK g : Sums(g, Puts(log'), N)
    <3> Puts(log') \in [1 .. N -> Int]
      BY <1>0, <1>2, PutsType
    <3> QED
      BY <1>0, SumsExist
  <2>3. n \in Valid(log) /\ \A k \in Valid(log) : k <= n
    <3> n \in Valid(log) /\ \A k \in Valid(log) \ {n} : Later(log, n, k)
      <4> n \in Valid(log) /\ \A k \in Valid(log) \ {n} : ~ Later(log, k, n)
        BY DEF CanUndo
      <4> ASSUME NEW k \in Valid(log) \ {n} PROVE Later(log, n, k)
        <5> log[k].day \in Nat /\ log[n].day \in Nat /\ k \in Nat /\ n \in Nat
          BY <1>1, <1>4, InvDaysNat, SMTT(30) DEF Events
        <5> QED
          BY DEF Later
      <4> QED
        OBVIOUS
    <3> QED
      BY <1>1, LatestInOrder
  <2>4. \A k \in Valid(log') : k \in 1 .. N /\ k < n /\ g[k] = f[k]
    <3> SUFFICES ASSUME NEW k \in Valid(log')
                 PROVE  k \in 1 .. N /\ k < n /\ g[k] = f[k]
      OBVIOUS
    <3>1. k \in 1 .. N /\ k < n /\ n \in 1 .. N
      <4> k \in 1 .. N /\ n \in 1 .. N /\ k # n /\ k <= n
        BY <1>4, <2>3
      <4> QED
        BY <1>0
    <3>2. \A i \in 1 .. k : Puts(log')[i] = Puts(log)[i]
      <4> \A i \in 1 .. k : i \in 1 .. N /\ i # n
        BY <1>0, <3>1
      <4> QED
        BY <1>0, <1>2 DEF Puts
    <3>3. k \in 0 .. N /\ k <= N
      BY <1>0, <3>1
    <3> DEFINE v == Puts(log)
               w == Puts(log')
    <3>4. Sums(f, v, N) /\ Sums(g, w, N) /\ \A i \in 1 .. k : w[i] = v[i]
      BY <2>1, <2>2, <3>2
    <3> HIDE DEF v, w
    <3>5. g[k] = f[k]
      BY <1>0, <3>3, <3>4, SumsAgree
    <3> QED
      BY <3>1, <3>5
  <2>5. ASSUME NEW p \in 0 .. N, \A k \in Valid(log') : k <= p
        PROVE  g[N] = g[p]
    <3>1. \A i \in p + 1 .. N : Puts(log')[i] = 0
      <4> SUFFICES ASSUME NEW i \in p + 1 .. N PROVE Puts(log')[i] = 0
        OBVIOUS
      <4>1. i \in 1 .. N /\ ~ (i <= p)
        BY <1>0, <2>5
      <4>2. ~ log'[i].valid
        BY <1>2, <2>5, <4>1 DEF Valid
      <4> QED
        BY <1>0, <4>1, <4>2 DEF Puts
    <3> DEFINE w == Puts(log')
    <3>2. Sums(g, w, N) /\ \A i \in p + 1 .. N : w[i] = 0
      BY <2>2, <3>1
    <3> HIDE DEF w
    <3> QED
      BY <1>0, <3>2, SumsLevel
  <2>6. asset'.cost = g[N]
    <3>1. CASE Valid(log') = {}
      <4> g[N] = g[0] /\ g[0] = 0
        <5> 0 \in 0 .. N
          BY <1>0
        <5> QED
          BY <2>2, <2>5, <3>1 DEF Sums
      <4> QED
        BY <1>4, <3>1
    <3>2. CASE Valid(log') # {}
      <4> DEFINE p == LatestOf(log, Valid(log'))
      <4>1. p \in Valid(log') /\ \A k \in Valid(log') \ {p} : Later(log, p, k)
        BY <1>1, <1>4, <3>2, LatestExists
      <4>2. asset'.cost = log[p].cost
        BY <1>4, <3>2
      <4> HIDE DEF p
      <4>3. \A k \in Valid(log') : k <= p
        BY <1>1, <1>4, <4>1, LatestInOrder
      <4>4. p \in 0 .. N /\ p \in Valid(log)
        BY <1>0, <1>4, <4>1
      <4>5. g[N] = g[p] /\ g[p] = f[p] /\ f[p] = log[p].cost
        BY <2>1, <2>4, <2>5, <4>1, <4>3, <4>4
      <4> QED
        BY <4>2, <4>5
    <3> QED
      BY <3>1, <3>2
  <2>7. \A k \in Valid(log') : log'[k].cost = g[k]
    <3> SUFFICES ASSUME NEW k \in Valid(log') PROVE log'[k].cost = g[k]
      OBVIOUS
    <3>1. k \in 1 .. N /\ k \in Valid(log) /\ g[k] = f[k]
      BY <1>4, <2>4
    <3>2. log[k].cost = f[k]
      BY <2>1, <3>1
    <3> QED
      BY <1>2, <3>1, <3>2
  <2> QED
    BY <2>2, <2>6, <2>7
<1> QED
  BY <1>2, <1>3, <1>5, <1>6

LEMMA CostsAreIntegers == AmountOf \in [Transfers -> Nat] /\ Worths \subseteq Int
  BY InvAmounts

(* What a request leaves of an investment is an investment.                 *)
LEMMA AssetAfter ==
  ASSUME NEW a \in Asset, NEW l \in Logs
  PROVE  /\ \A w \in Worths : /\ Revalued(a, w) \in Asset /\ Revalued(a, w).cost = a.cost
                              /\ Revalued(a, w).made = a.made
         /\ \A x \in Transfers : /\ Raised(a, x) \in Asset
                                 /\ Raised(a, x).cost = a.cost + AmountOf[x]
                                 /\ Raised(a, x).made = a.made
         /\ \A n : /\ Undone(a, l, n) \in Asset /\ Undone(a, l, n).made = a.made
                   /\ Undone(a, l, n).cost = IF Valid(l) \ {n} = {} THEN 0
                                             ELSE l[LatestOf(l, Valid(l) \ {n})].cost
<1>1. \A w \in Worths : /\ Revalued(a, w) \in Asset /\ Revalued(a, w).cost = a.cost
                        /\ Revalued(a, w).made = a.made
  BY CostsAreIntegers DEF Revalued, Asset
<1>2. \A x \in Transfers : /\ Raised(a, x) \in Asset
                           /\ Raised(a, x).cost = a.cost + AmountOf[x]
                           /\ Raised(a, x).made = a.made
  BY CostsAreIntegers DEF Raised, Asset
<1>3. ASSUME NEW n
      PROVE  /\ Undone(a, l, n) \in Asset /\ Undone(a, l, n).made = a.made
             /\ Undone(a, l, n).cost = IF Valid(l) \ {n} = {} THEN 0
                                       ELSE l[LatestOf(l, Valid(l) \ {n})].cost
  <2> DEFINE S == Valid(l) \ {n}
             p == LatestOf(l, S)
             cost == IF S = {} THEN 0 ELSE l[p].cost
             worth == IF S = {} THEN 0 ELSE l[p].worth
             b == Undone(a, l, n)
  <2>1. cost \in Int /\ worth \in Int
    <3>1. CASE S = {}
      BY <3>1
    <3>2. CASE S # {}
      <4>1. p \in S
        <5> S \in SUBSET (DOMAIN l)
          BY DEF Valid
        <5> QED
          BY <3>2, LatestExists
      <4>2. p \in DOMAIN l
        BY <4>1 DEF Valid
      <4>3. l[p] \in Events
        BY <4>2, LogEntries
      <4>4. l[p].cost \in Int /\ l[p].worth \in Int
        BY <4>3 DEF Events
      <4> QED
        BY <3>2, <4>4
    <3> QED
      BY <3>1, <3>2
  <2>2. b = [a EXCEPT !.cost = cost, !.worth = worth]
    <3>1. CASE S = {}
      <4>1. b = [a EXCEPT !.cost = 0, !.worth = 0]
        BY <3>1 DEF Undone
      <4>2. cost = 0 /\ worth = 0
        BY <3>1
      <4> HIDE DEF b, cost, worth
      <4> QED
        BY <4>1, <4>2
    <3>2. CASE S # {}
      <4>1. b = [a EXCEPT !.cost = l[p].cost, !.worth = l[p].worth]
        BY <3>2 DEF Undone
      <4>2. cost = l[p].cost /\ worth = l[p].worth
        BY <3>2
      <4> HIDE DEF b, cost, worth
      <4> QED
        BY <4>1, <4>2
    <3> QED
      BY <3>1, <3>2
  <2>3. cost = IF Valid(l) \ {n} = {} THEN 0
               ELSE l[LatestOf(l, Valid(l) \ {n})].cost
    OBVIOUS
  <2> HIDE DEF cost, worth, b
  <2>4. b \in Asset /\ b.made = a.made /\ b.cost = cost
    <3> HIDE DEF p, S
    <3>1. b \in Asset
      BY <2>1, <2>2 DEF Asset
    <3>2. b.made = a.made
      BY <2>2 DEF Asset
    <3>3. b.cost = cost
      BY <2>2 DEF Asset
    <3> QED
      BY <3>1, <3>2, <3>3
  <2>5. Undone(a, l, n) \in Asset
    BY <2>4 DEF b
  <2>6. Undone(a, l, n).made = a.made
    BY <2>4 DEF b
  <2>7. Undone(a, l, n).cost = cost
    BY <2>4 DEF b
  <2>8. Undone(a, l, n).cost = IF Valid(l) \ {n} = {} THEN 0
                               ELSE l[LatestOf(l, Valid(l) \ {n})].cost
    BY <2>3, <2>7
  <2> QED
    BY <2>5, <2>6, <2>8
<1> QED
  BY <1>1, <1>2, <1>3

LEMMA StoredAsset ==
  ASSUME NEW now \in Asset, NEW read \in Asset, NEW new \in Asset
  PROVE  /\ Stored(now, read, new) \in Asset /\ Stored(now, read, new).made = now.made
         /\ now = read => Stored(now, read, new).cost = new.cost
  BY DEF Stored, Field, Asset

LEMMA SnapshotIsAnEvent ==
  ASSUME NEW a \in Asset, NEW date \in InvDays, NEW put \in Nat,
         NEW from \in Transfers \cup {NoTransfer}
  PROVE  /\ Snapshot(a, date, put, from) \in Events /\ Snapshot(a, date, put, from).valid
         /\ Snapshot(a, date, put, from).cost = a.cost /\ Snapshot(a, date, put, from).put = put
         /\ Snapshot(a, date, put, from).from = from
  BY DEF Snapshot, Asset, Events

(* What a request writes, whenever it read.                                 *)
LEMMA InvApply ==
  ASSUME InvInv, NEW rq \in Requests, NEW a \in Asset, NEW l \in Logs, asset.made,
         rq.op # "undo" => Len(log) < MaxLog, rq.op = "undo" => CanUndo(l, rq.n),
         Apply(rq, a, l)
  PROVE  /\ asset' \in Asset /\ asset'.made /\ log' \in Logs /\ Len(log') <= MaxLog
         /\ strayed' \subseteq {"overlap", "reordered"} /\ FundedOnce' /\ CostsFollow'
<1>1. asset \in Asset /\ strayed \subseteq {"overlap", "reordered"} /\ log \in Logs
  BY DEF InvInv, InvTypes
<1>2. strayed' \subseteq {"overlap", "reordered"}
  BY <1>1 DEF Apply
<1>3. strayed' = {} => /\ strayed = {} /\ asset = a /\ log = l
                       /\ rq.op = "undo" => InDateOrder(log)
  <2> SUFFICES ASSUME strayed' = {}
               PROVE  /\ strayed = {} /\ asset = a /\ log = l
                      /\ rq.op = "undo" => InDateOrder(log)
    OBVIOUS
  <2>1. (IF asset # a \/ log # l THEN {"overlap"} ELSE {}) = {}
    BY DEF Apply
  <2>2. (IF rq.op = "undo" /\ ~InDateOrder(log) THEN {"reordered"} ELSE {}) = {}
    BY DEF Apply
  <2>3. strayed = {}
    BY DEF Apply
  <2> QED
    BY <2>1, <2>2, <2>3
<1>4. CASE rq.op = "value"
  <2>1. rq.w \in Worths /\ rq.day \in InvDays
    BY <1>4 DEF Requests
  <2> DEFINE new == Revalued(a, rq.w)
             e == Snapshot(new, rq.day, 0, NoTransfer)
  <2>2. asset' = Stored(asset, a, new) /\ log' = Append(log, e)
    BY <1>4 DEF Apply
  <2>3. new \in Asset /\ new.cost = a.cost
    BY <2>1, AssetAfter
  <2> HIDE DEF new
  <2>4. /\ e \in Events /\ e.valid /\ e.cost = new.cost /\ e.put = 0
        /\ e.from = NoTransfer
    <3> 0 \in Nat /\ NoTransfer \in Transfers \cup {NoTransfer}
      OBVIOUS
    <3> QED
      BY <2>1, <2>3, SnapshotIsAnEvent
  <2> HIDE DEF e
  <2>5. asset' \in Asset /\ asset'.made /\ (asset = a => asset'.cost = new.cost)
    BY <1>1, <2>2, <2>3, StoredAsset
  <2>6. strayed' = {} => /\ strayed = {}
                         /\ asset'.cost = asset.cost + e.put /\ e.cost = asset'.cost
    BY <1>1, <1>3, <2>3, <2>4, <2>5 DEF Asset
  <2>7. log' \in Logs /\ Len(log') <= MaxLog /\ FundedOnce' /\ CostsFollow'
    BY <1>4, <2>2, <2>4, <2>6, EventAdded
  <2> QED
    BY <1>2, <2>5, <2>7
<1>5. CASE rq.op = "contribute"
  <2>1. rq.x \in Transfers /\ rq.day \in InvDays
    BY <1>5 DEF Requests
  <2> DEFINE new == Raised(a, rq.x)
             e == Snapshot(new, rq.day, AmountOf[rq.x], rq.x)
  <2>2. asset' = Stored(asset, a, new) /\ log' = Append(log, e) /\ rq.x \notin Linked(log)
    BY <1>5 DEF Apply, Unlinked
  <2>3. new \in Asset /\ new.cost = a.cost + AmountOf[rq.x] /\ AmountOf[rq.x] \in Nat
    BY <2>1, AssetAfter, CostsAreIntegers
  <2> HIDE DEF new
  <2>4. /\ e \in Events /\ e.valid /\ e.cost = new.cost /\ e.put = AmountOf[rq.x]
        /\ e.from = rq.x
    BY <2>1, <2>3, SnapshotIsAnEvent
  <2> HIDE DEF e
  <2>5. asset' \in Asset /\ asset'.made /\ (asset = a => asset'.cost = new.cost)
    BY <1>1, <2>2, <2>3, StoredAsset
  <2>6. strayed' = {} => /\ strayed = {}
                         /\ asset'.cost = asset.cost + e.put /\ e.cost = asset'.cost
    BY <1>3, <2>3, <2>4, <2>5
  <2>7. log' \in Logs /\ Len(log') <= MaxLog /\ FundedOnce' /\ CostsFollow'
    BY <1>5, <2>2, <2>4, <2>6, EventAdded
  <2> QED
    BY <1>2, <2>5, <2>7
<1>6. CASE rq.op = "undo"
  <2> DEFINE new == Undone(a, l, rq.n)
  <2>2. asset' = Stored(asset, a, new) /\ log' = [log EXCEPT ![rq.n].valid = FALSE]
    BY <1>6 DEF Apply
  <2>3. /\ new \in Asset
        /\ new.cost = IF Valid(l) \ {rq.n} = {} THEN 0
                      ELSE l[LatestOf(l, Valid(l) \ {rq.n})].cost
    BY AssetAfter
  <2> HIDE DEF new
  <2>4. asset' \in Asset /\ asset'.made /\ (asset = a => asset'.cost = new.cost)
    BY <1>1, <2>2, <2>3, StoredAsset
  <2>5. strayed' = {} =>
             /\ strayed = {} /\ InDateOrder(log) /\ CanUndo(log, rq.n)
             /\ asset'.cost = IF Valid(log) \ {rq.n} = {} THEN 0
                              ELSE log[LatestOf(log, Valid(log) \ {rq.n})].cost
    BY <1>3, <1>6, <2>3, <2>4
  <2>6. log' \in Logs /\ Len(log') <= MaxLog /\ FundedOnce' /\ CostsFollow'
    BY <2>2, <2>5, EventUndone
  <2> QED
    BY <1>2, <2>4, <2>6
<1>7. rq.op \in {"value", "contribute", "undo"}
  BY DEF Requests
<1> QED
  BY <1>4, <1>5, <1>6, <1>7

LEMMA InvStart == InvInit => InvInv
<1> SUFFICES ASSUME InvInit PROVE InvInv
  OBVIOUS
<1>1. log = <<>> /\ Len(log) = 0 /\ DOMAIN log = {} /\ log \in Logs
  BY DEF InvInit, Logs
<1>2. InvTypes
  BY <1>1, InvBound DEF InvInit, InvTypes, Asset, NoAsset, Reading
<1>3. Valid(log) = {}
  BY <1>1 DEF Valid
<1>4. CostsFollow
  <2> DEFINE f == [n \in 0 .. 0 |-> 0]
  <2>1. Sums(f, Puts(log), 0) /\ f[0] = 0
    BY DEF Sums
  <2> HIDE DEF f
  <2> QED
    BY <1>1, <1>3, <2>1 DEF CostsFollow, InvInit, NoAsset
<1> QED
  BY <1>1, <1>2, <1>3, <1>4 DEF InvInv, FundedOnce

LEMMA InvCreated ==
  ASSUME InvInv, NEW cost \in Worths, NEW worth \in Worths, NEW date \in InvDays,
         CreateInvestment(cost, worth, date)
  PROVE  InvInv'
<1>1. cost \in Nat /\ worth \in Nat
  BY InvAmounts
<1> DEFINE e == Snapshot(asset', date, cost, NoTransfer)
<1>2. asset' \in Asset /\ asset'.made /\ asset'.cost = cost /\ log' = <<e>>
  BY <1>1 DEF CreateInvestment, Asset
<1>3. e \in Events /\ e.valid /\ e.cost = cost /\ e.put = cost /\ e.from = NoTransfer
  BY <1>1, <1>2, SnapshotIsAnEvent
<1> HIDE DEF e
<1>4. log' \in Logs /\ Len(log') = 1 /\ log'[1] = e /\ DOMAIN log' = 1 .. 1
  BY <1>2, <1>3 DEF Logs
<1>5. Valid(log') = {1}
  BY <1>3, <1>4 DEF Valid
<1>6. InvTypes'
  <2>1. ~asset.made /\ inFlight = Still
    BY DEF CreateInvestment, InvInv, InvTypes
  <2>2. inFlight' = Still /\ Still \in Reading
    BY <2>1 DEF CreateInvestment, Reading
  <2>3. Len(log') <= MaxLog
    BY <1>4, InvBound
  <2>4. kept' \subseteq Transfers /\ strayed' \subseteq {"overlap", "reordered"}
    BY DEF CreateInvestment, InvInv, InvTypes
  <2> QED
    BY <1>2, <1>4, <2>2, <2>3, <2>4 DEF InvTypes
<1>7. CostsFollow'
  <2> DEFINE f == [n \in 0 .. 1 |-> IF n = 0 THEN 0 ELSE cost]
  <2>1. Puts(log')[1] = cost
    BY <1>3, <1>4 DEF Puts
  <2>2. Sums(f, Puts(log'), 1) /\ f[1] = cost
    <3>1. f \in [0 .. 1 -> Int] /\ f[0] = 0 /\ f[1] = cost
      BY <1>1
    <3> HIDE DEF f
    <3>2. \A n \in 1 .. 1 : n = 1 /\ n - 1 = 0
      OBVIOUS
    <3> QED
      BY <1>1, <2>1, <3>1, <3>2 DEF Sums
  <2> HIDE DEF f
  <2> QED
    BY <1>2, <1>3, <1>4, <1>5, <2>2 DEF CostsFollow
<1> QED
  BY <1>2, <1>5, <1>6, <1>7 DEF InvInv, FundedOnce

(* Deleting a transfer changes only where a contribution came from.         *)
LEMMA InvDeleted ==
  ASSUME InvInv, NEW x \in Transfers, DeleteTransfer(x)
  PROVE  InvInv'
<1> DEFINE N == Len(log)
<1>1. /\ log \in Logs /\ N \in Nat /\ DOMAIN log = 1 .. N
      /\ \A k \in 1 .. N : log[k] \in Events
  BY LogEntries DEF InvInv, InvTypes
<1> DEFINE e(k) == IF log[k].from = x THEN [log[k] EXCEPT !.from = NoTransfer] ELSE log[k]
<1>2. ASSUME NEW k \in 1 .. N
      PROVE  /\ e(k) \in Events /\ e(k).cost = log[k].cost /\ e(k).put = log[k].put
             /\ e(k).valid = log[k].valid /\ e(k).from \in {log[k].from, NoTransfer}
  BY <1>1, <1>2 DEF Events
<1>3. log' = [k \in 1 .. N |-> e(k)]
  BY <1>1 DEF DeleteTransfer
<1> HIDE DEF e
<1>4. /\ log' \in Logs /\ DOMAIN log' = 1 .. N /\ Len(log') = N
      /\ \A k \in 1 .. N : log'[k] = e(k)
  <2>1. log' \in [1 .. N -> Events] /\ DOMAIN log' = 1 .. N /\ \A k \in 1 .. N : log'[k] = e(k)
    BY <1>2, <1>3
  <2>2. log' \in Seq(Events)
    BY <1>1, <2>1, SeqDef
  <2>3. Len(log') \in Nat /\ DOMAIN log' = 1 .. Len(log')
    BY <2>2, LenProperties
  <2> HIDE DEF N
  <2>4. Len(log') = N
    BY <1>1, <2>1, <2>3
  <2> QED
    BY <2>1, <2>2, <2>4 DEF Logs
<1>5. Valid(log') = Valid(log) /\ Valid(log) \subseteq 1 .. N
  BY <1>1, <1>2, <1>4 DEF Valid
<1>6. Puts(log') = Puts(log)
  BY <1>2, <1>4 DEF Puts
<1>7. InvTypes'
  <2>1. asset' = asset /\ inFlight' = inFlight /\ strayed' = strayed
    BY DEF DeleteTransfer
  <2>2. kept' \subseteq Transfers
    BY DEF DeleteTransfer, InvInv, InvTypes
  <2>3. Len(log') <= MaxLog
    BY <1>4 DEF InvInv, InvTypes
  <2> QED
    BY <1>4, <2>1, <2>2, <2>3 DEF InvInv, InvTypes
<1>8. FundedOnce'
  BY <1>2, <1>4, <1>5 DEF InvInv, FundedOnce
<1>9. CostsFollow'
  <2>1. \A n \in Valid(log') : log'[n].cost = log[n].cost
    BY <1>2, <1>4, <1>5
  <2>2. strayed' = strayed /\ asset' = asset /\ Len(log') = Len(log)
    BY <1>4 DEF DeleteTransfer
  <2> QED
    BY <1>5, <1>6, <2>1, <2>2 DEF InvInv, CostsFollow
<1>10. ~asset.made => log' = <<>>
  <2> SUFFICES ASSUME ~asset.made PROVE log' = <<>>
    OBVIOUS
  <2>1. log = <<>>
    BY DEF InvInv
  <2>2. N = 0
    BY <2>1
  <2> QED
    BY <1>4, <2>2, EmptySeq DEF Logs
<1> QED
  BY <1>7, <1>8, <1>9, <1>10 DEF InvInv, DeleteTransfer

LEMMA InvStep == InvInv /\ [InvNext]_invVars => InvInv'
<1> SUFFICES ASSUME InvInv, [InvNext]_invVars PROVE InvInv'
  OBVIOUS
<1>1. ASSUME NEW cost \in Worths, NEW worth \in Worths, NEW date \in InvDays,
             CreateInvestment(cost, worth, date)
      PROVE  InvInv'
  BY <1>1, InvCreated
<1>2. ASSUME NEW rq \in Requests, Serve(rq) PROVE InvInv'
  <2>1. asset \in Asset /\ log \in Logs
    BY DEF InvInv, InvTypes
  <2>2. asset.made /\ rq.op = "undo" => CanUndo(log, rq.n)
    BY <1>2 DEF Serve, Readable
  <2>3. /\ asset' \in Asset /\ asset'.made /\ log' \in Logs /\ Len(log') <= MaxLog
        /\ strayed' \subseteq {"overlap", "reordered"} /\ FundedOnce' /\ CostsFollow'
    BY <1>2, <2>1, <2>2, InvApply DEF Serve, Readable
  <2>4. InvTypes'
    BY <1>2, <2>3 DEF Serve, InvInv, InvTypes
  <2> QED
    BY <2>3, <2>4 DEF InvInv
<1>3. ASSUME NEW rq \in Requests, ReadAsset(rq) PROVE InvInv'
  <2>1. inFlight' = [op |-> rq.op, rq |-> rq, a |-> asset, l |-> log]
    BY <1>3 DEF ReadAsset
  <2>2. UNCHANGED <<asset, log, kept, strayed>>
    BY <1>3 DEF ReadAsset
  <2>3. rq.op \in {"value", "contribute", "undo"}
    BY DEF Requests
  <2>4. asset \in Asset /\ log \in Logs
    BY DEF InvInv, InvTypes
  <2>5. inFlight' \in Reading
    BY <2>1, <2>3, <2>4 DEF Reading
  <2>6. asset.made /\ (rq.op = "undo" => CanUndo(log, rq.n))
    BY <1>3 DEF ReadAsset, Readable
  <2>7. InvTypes'
    BY <2>1, <2>2, <2>5, <2>6 DEF InvInv, InvTypes
  <2>8. FundedOnce' /\ CostsFollow'
    BY <2>2 DEF InvInv, FundedOnce, CostsFollow
  <2> QED
    BY <2>2, <2>7, <2>8 DEF InvInv
<1>4. CASE WriteAsset
  <2>1. /\ inFlight.rq \in Requests /\ inFlight.a \in Asset /\ inFlight.l \in Logs
        /\ asset.made /\ (inFlight.rq.op = "undo" => CanUndo(inFlight.l, inFlight.rq.n))
    BY <1>4 DEF WriteAsset, InvInv, InvTypes, Reading
  <2>2. /\ asset' \in Asset /\ asset'.made /\ log' \in Logs /\ Len(log') <= MaxLog
        /\ strayed' \subseteq {"overlap", "reordered"} /\ FundedOnce' /\ CostsFollow'
    BY <1>4, <2>1, InvApply DEF WriteAsset
  <2>3. inFlight' = Still /\ kept' = kept
    BY <1>4 DEF WriteAsset
  <2>4. InvTypes'
    BY <2>2, <2>3 DEF InvInv, InvTypes, Reading
  <2> QED
    BY <2>2, <2>4 DEF InvInv
<1>5. CASE RefuseAsset
  <2>1. inFlight' = Still /\ UNCHANGED <<asset, log, kept, strayed>>
    BY <1>5 DEF RefuseAsset
  <2>2. InvTypes'
    BY <2>1 DEF InvInv, InvTypes, Reading
  <2>3. FundedOnce' /\ CostsFollow'
    BY <2>1 DEF InvInv, FundedOnce, CostsFollow
  <2> QED
    BY <2>1, <2>2, <2>3 DEF InvInv
<1>6. ASSUME NEW x \in Transfers, DeleteTransfer(x) PROVE InvInv'
  BY <1>6, InvDeleted
<1>7. CASE UNCHANGED invVars
  <2>1. /\ asset' = asset /\ log' = log /\ kept' = kept
        /\ inFlight' = inFlight /\ strayed' = strayed
    BY <1>7 DEF invVars
  <2> QED
    BY <2>1 DEF InvInv, InvTypes, FundedOnce, CostsFollow
<1> QED
  BY <1>1, <1>2, <1>3, <1>4, <1>5, <1>6, <1>7 DEF InvNext

(* However many valuations, contributions and undos, and whoever deletes a  *)
(* transfer meanwhile: an investment's cost is the sum of its standing      *)
(* contributions unless two requests overlapped or an undo met events dated *)
(* out of order, and no transfer pays for two of them in any case           *)
(* (services/investments.py and the investment endpoints of api.py).        *)
THEOREM FundingIsSound == InvSpec => []FundingAddsUp
<1>1. InvInv => FundingAddsUp
  <2> SUFFICES ASSUME InvInv PROVE FundingAddsUp
    OBVIOUS
  <2>1. log \in Logs
    BY DEF InvInv, InvTypes
  <2>2. CostIsWhatWasPutIn
    BY <2>1, PutInIsTheSum DEF InvInv, CostsFollow, CostIsWhatWasPutIn
  <2> QED
    BY <2>2 DEF InvInv, FundingAddsUp
<1> QED
  BY <1>1, InvStart, InvStep, PTL DEF InvSpec

(* Whatever a request read, what it stores is an asset and a log of events. *)
THEOREM InvestmentTypes == InvSpec => []InvTypeOK
<1>1. InvInv => InvTypeOK
  <2> SUFFICES ASSUME InvInv PROVE InvTypeOK
    OBVIOUS
  <2>1. InvTypes
    BY DEF InvInv
  <2>2. inFlight = Still \/ inFlight.op \in {"value", "contribute", "undo"}
    BY <2>1 DEF InvTypes, Reading
  <2> QED
    BY <2>1, <2>2 DEF InvTypes, InvTypeOK, Asset, Logs
<1> QED
  BY <1>1, InvStart, InvStep, PTL DEF InvSpec

-----------------------------------------------------------------------------
(* The reading of a document.  A row of an invoice has the sign its words   *)
(* give it; as long as a statement ends its movements in one way, every     *)
(* amount with words of its own became a row.                               *)
ReadRow == [line : 1 .. MaxLines, amount : Int, text : Seq(1 .. MaxLines), word : Words]
SignSound(f, r) == IF f = "statement" THEN r.word = "plain"
                ELSE r.word \in {"payment", "refund"} => r.amount >= 0
LinesRead(rs) == {rs[k].line : k \in DOMAIN rs}
DrInv ==
    /\ DrTypeOK
    /\ rows \in Seq(ReadRow) /\ \A n \in DOMAIN rows : SignSound(form, rows[n])
    /\ trailing => "inline" \in layouts
    /\ layouts # {"bare", "inline"} => described \subseteq LinesRead(rows)

(* What a row adds to a total.                                              *)
InCredits == [n \in DOMAIN rows |-> IF rows[n].amount > 0 THEN Magnitude(rows[n]) ELSE 0]
InDebits == [n \in DOMAIN rows |-> IF rows[n].amount < 0 THEN Magnitude(rows[n]) ELSE 0]
InNet == [n \in DOMAIN rows |-> rows[n].amount]
InPart(c) == [n \in DOMAIN rows |-> IF Component(rows[n]) = c THEN Magnitude(rows[n]) ELSE 0]

LEMMA RowsRead ==
  ASSUME rows \in Seq(ReadRow)
  PROVE  /\ Len(rows) \in Nat /\ DOMAIN rows = 1 .. Len(rows)
         /\ \A n \in 1 .. Len(rows) : rows[n] \in ReadRow /\ rows[n].amount \in Int
         /\ {InCredits, InDebits, InNet} \subseteq [1 .. Len(rows) -> Int]
         /\ \A c : InPart(c) \in [1 .. Len(rows) -> Int]
<1>1. Len(rows) \in Nat /\ DOMAIN rows = 1 .. Len(rows)
  OBVIOUS
<1>2. \A n \in 1 .. Len(rows) : rows[n] \in ReadRow /\ rows[n].amount \in Int
  <2>1. \A n \in 1 .. Len(rows) : rows[n] \in ReadRow
    BY <1>1, ElementOfSeq
  <2> QED
    BY <2>1 DEF ReadRow
<1>3. \A n \in 1 .. Len(rows) : Magnitude(rows[n]) \in Int
  BY <1>2 DEF Magnitude
<1> QED
  BY <1>1, <1>2, <1>3 DEF InCredits, InDebits, InNet, InPart

(* The recursive definitions of the totals compute sums over the rows.      *)
LEMMA CreditsAreASum ==
  ASSUME rows \in Seq(ReadRow)
  PROVE  \E f : Sums(f, InCredits, Len(rows)) /\ Credits = f[Len(rows)]
<1> DEFINE N == Len(rows)
           t[n \in 0 .. N] ==
             IF n = 0 THEN 0 ELSE t[n - 1] + (IF rows[n].amount > 0 THEN Magnitude(rows[n]) ELSE 0)
<1>1. Credits = t[N]
  BY DEF Credits, Summed
<1>2. N \in Nat /\ InCredits \in [1 .. N -> Int]
  BY RowsRead
<1>3. PICK f : Sums(f, InCredits, N)
  BY <1>2, SumsExist
<1>4. \A n \in 0 .. N : n # 0 => InCredits[n] = (IF rows[n].amount > 0 THEN Magnitude(rows[n]) ELSE 0)
  BY RowsRead DEF InCredits, Magnitude
<1>5. f = [n \in 0 .. N |-> IF n = 0 THEN 0 ELSE f[n - 1] + (IF rows[n].amount > 0 THEN Magnitude(rows[n]) ELSE 0)]
  BY <1>2, <1>3, <1>4 DEF Sums
<1>6. t = [n \in 0 .. N |-> IF n = 0 THEN 0 ELSE t[n - 1] + (IF rows[n].amount > 0 THEN Magnitude(rows[n]) ELSE 0)]
  BY <1>5
<1> HIDE DEF t
<1>7. t = [n \in 0 .. N |-> IF n = 0 THEN 0 ELSE t[n - 1] + InCredits[n]]
  BY <1>4, <1>6
<1>8. Sums(t, InCredits, N)
  BY <1>2, <1>7, SumsChosen
<1> QED
  BY <1>1, <1>8

LEMMA DebitsAreASum ==
  ASSUME rows \in Seq(ReadRow)
  PROVE  \E f : Sums(f, InDebits, Len(rows)) /\ Debits = f[Len(rows)]
<1> DEFINE N == Len(rows)
           t[n \in 0 .. N] ==
             IF n = 0 THEN 0 ELSE t[n - 1] + (IF rows[n].amount < 0 THEN Magnitude(rows[n]) ELSE 0)
<1>1. Debits = t[N]
  BY DEF Debits, Summed
<1>2. N \in Nat /\ InDebits \in [1 .. N -> Int]
  BY RowsRead
<1>3. PICK f : Sums(f, InDebits, N)
  BY <1>2, SumsExist
<1>4. \A n \in 0 .. N : n # 0 => InDebits[n] = (IF rows[n].amount < 0 THEN Magnitude(rows[n]) ELSE 0)
  BY RowsRead DEF InDebits, Magnitude
<1>5. f = [n \in 0 .. N |-> IF n = 0 THEN 0 ELSE f[n - 1] + (IF rows[n].amount < 0 THEN Magnitude(rows[n]) ELSE 0)]
  BY <1>2, <1>3, <1>4 DEF Sums
<1>6. t = [n \in 0 .. N |-> IF n = 0 THEN 0 ELSE t[n - 1] + (IF rows[n].amount < 0 THEN Magnitude(rows[n]) ELSE 0)]
  BY <1>5
<1> HIDE DEF t
<1>7. t = [n \in 0 .. N |-> IF n = 0 THEN 0 ELSE t[n - 1] + InDebits[n]]
  BY <1>4, <1>6
<1>8. Sums(t, InDebits, N)
  BY <1>2, <1>7, SumsChosen
<1> QED
  BY <1>1, <1>8

LEMMA NetIsASum ==
  ASSUME rows \in Seq(ReadRow)
  PROVE  \E f : Sums(f, InNet, Len(rows)) /\ Net = f[Len(rows)]
<1> DEFINE N == Len(rows)
           t[n \in 0 .. N] ==
             IF n = 0 THEN 0 ELSE t[n - 1] + rows[n].amount
<1>1. Net = t[N]
  BY DEF Net, Summed
<1>2. N \in Nat /\ InNet \in [1 .. N -> Int]
  BY RowsRead
<1>3. PICK f : Sums(f, InNet, N)
  BY <1>2, SumsExist
<1>4. \A n \in 0 .. N : n # 0 => InNet[n] = rows[n].amount
  BY RowsRead DEF InNet, Magnitude
<1>5. f = [n \in 0 .. N |-> IF n = 0 THEN 0 ELSE f[n - 1] + rows[n].amount]
  BY <1>2, <1>3, <1>4 DEF Sums
<1>6. t = [n \in 0 .. N |-> IF n = 0 THEN 0 ELSE t[n - 1] + rows[n].amount]
  BY <1>5
<1> HIDE DEF t
<1>7. t = [n \in 0 .. N |-> IF n = 0 THEN 0 ELSE t[n - 1] + InNet[n]]
  BY <1>4, <1>6
<1>8. Sums(t, InNet, N)
  BY <1>2, <1>7, SumsChosen
<1> QED
  BY <1>1, <1>8

LEMMA PartIsASum ==
  ASSUME rows \in Seq(ReadRow), NEW c
  PROVE  \E f : Sums(f, InPart(c), Len(rows)) /\ In(c) = f[Len(rows)]
<1> DEFINE N == Len(rows)
           t[n \in 0 .. N] ==
             IF n = 0 THEN 0 ELSE t[n - 1] + (IF Component(rows[n]) = c THEN Magnitude(rows[n]) ELSE 0)
<1>1. In(c) = t[N]
  BY DEF In, Summed
<1>2. N \in Nat /\ InPart(c) \in [1 .. N -> Int]
  BY RowsRead
<1>3. PICK f : Sums(f, InPart(c), N)
  BY <1>2, SumsExist
<1>4. \A n \in 0 .. N : n # 0 => InPart(c)[n] = (IF Component(rows[n]) = c THEN Magnitude(rows[n]) ELSE 0)
  BY RowsRead DEF InPart, Magnitude
<1>5. f = [n \in 0 .. N |-> IF n = 0 THEN 0 ELSE f[n - 1] + (IF Component(rows[n]) = c THEN Magnitude(rows[n]) ELSE 0)]
  BY <1>2, <1>3, <1>4 DEF Sums
<1>6. t = [n \in 0 .. N |-> IF n = 0 THEN 0 ELSE t[n - 1] + (IF Component(rows[n]) = c THEN Magnitude(rows[n]) ELSE 0)]
  BY <1>5
<1> HIDE DEF t
<1>7. t = [n \in 0 .. N |-> IF n = 0 THEN 0 ELSE t[n - 1] + InPart(c)[n]]
  BY <1>4, <1>6
<1>8. Sums(t, InPart(c), N)
  BY <1>2, <1>7, SumsChosen
<1> QED
  BY <1>1, <1>8

(* Sums of which each step balances.                                        *)
Balanced(N, u, v, w, x, y) ==
    \A n \in 1 .. N : /\ {u[n], v[n], w[n], x[n], y[n]} \subseteq Int
                      /\ u[n] + v[n] = w[n] + x[n] + y[n]
LEMMA SumsBalance ==
  ASSUME NEW N \in Nat, NEW u, NEW v, NEW w, NEW x, NEW y,
         NEW f, Sums(f, u, N), NEW g, Sums(g, v, N), NEW h, Sums(h, w, N),
         NEW i, Sums(i, x, N), NEW j, Sums(j, y, N),
         Balanced(N, u, v, w, x, y)
  PROVE  f[N] + g[N] = h[N] + i[N] + j[N]
<1> DEFINE Good == {m \in 0 .. N : f[m] + g[m] = h[m] + i[m] + j[m]}
<1> SUFFICES ASSUME N \notin Good PROVE FALSE
  OBVIOUS
<1>1. 0 \in Good
  BY DEF Sums
<1>2. PICK m \in 1 .. N : m \notin Good /\ m - 1 \in 0 .. N /\ m - 1 \in Good
  <2> HIDE DEF Good
  <2> QED
    BY <1>1, LeastFailure
<1>3. /\ f[m] = f[m - 1] + u[m] /\ g[m] = g[m - 1] + v[m]
      /\ h[m] = h[m - 1] + w[m] /\ i[m] = i[m - 1] + x[m] /\ j[m] = j[m - 1] + y[m]
  BY <1>2 DEF Sums
<1>4. {f[m - 1], g[m - 1], h[m - 1], i[m - 1], j[m - 1], u[m], v[m], w[m], x[m], y[m]} \subseteq Int
  BY <1>2 DEF Sums, Balanced
<1>5. f[m - 1] + g[m - 1] = h[m - 1] + i[m - 1] + j[m - 1]
      /\ u[m] + v[m] = w[m] + x[m] + y[m]
  BY <1>2 DEF Balanced
<1>6. f[m] + g[m] = h[m] + i[m] + j[m]
  BY <1>3, <1>4, <1>5
<1> QED
  BY <1>2, <1>6

(* A row is in one total or component, in its own direction, unless it is a *)
(* fee given back.                                                          *)
LEMMA RowInOneTotal ==
  ASSUME DrInv, ~FeeCredited, NEW n \in 1 .. Len(rows)
  PROVE  IF form = "statement" THEN InCredits[n] + 0 = InDebits[n] + InNet[n] + 0
         ELSE InPart("refund")[n] + InPart("payment")[n]
                = InPart("purchase")[n] + InPart("fee")[n] + InNet[n]
<1>1. rows \in Seq(ReadRow) /\ SignSound(form, rows[n]) /\ n \in DOMAIN rows
      /\ ~(rows[n].word = "fee" /\ rows[n].amount > 0)
  BY RowsRead DEF DrInv, FeeCredited
<1>2. rows[n] \in ReadRow /\ rows[n].amount \in Int
  BY <1>1, RowsRead
<1> DEFINE a == rows[n].amount
           w == rows[n].word
<1>3. CASE form = "statement"
  BY <1>1, <1>2, <1>3 DEF InCredits, InDebits, InNet, Magnitude
<1>4. CASE form # "statement"
  <2>1. w \in Words /\ (w \in {"payment", "refund"} => a >= 0) /\ ~(w = "fee" /\ a > 0)
    BY <1>1, <1>2, <1>4 DEF ReadRow, SignSound
  <2>2. \A c : InPart(c)[n] = IF Component(rows[n]) = c THEN IF a < 0 THEN -a ELSE a ELSE 0
    BY <1>1 DEF InPart, Magnitude
  <2>3. Component(rows[n]) = IF w # "plain" THEN w ELSE IF a < 0 THEN "purchase" ELSE "payment"
    BY DEF Component
  <2>4. InNet[n] = a
    BY <1>1 DEF InNet
  <2> HIDE DEF a, w
  <2>5. a \in Int
    BY <1>2 DEF a
  <2> QED
    BY <1>4, <2>1, <2>2, <2>3, <2>4, <2>5 DEF Words
<1> QED
  BY <1>3, <1>4

LEMMA TotalsAgree ==
  ASSUME DrInv PROVE TotalFollowsTheRows
<1> SUFFICES ASSUME ~FeeCredited PROVE Reconstructed(0) = Followed(0)
  BY DEF TotalFollowsTheRows
<1> DEFINE N == Len(rows)
           z == [n \in 0 .. N |-> 0]
           nothing == [n \in 1 .. N |-> 0]
<1>1. rows \in Seq(ReadRow) /\ N \in Nat
  BY RowsRead DEF DrInv
<1>2. Sums(z, nothing, N) /\ z[N] = 0 /\ \A n \in 1 .. N : nothing[n] = 0
  BY <1>1 DEF Sums
<1> HIDE DEF z, nothing, N
<1>3. \A n \in 1 .. N : {InCredits[n], InDebits[n], InNet[n], nothing[n]} \subseteq Int
  BY <1>1, <1>2, RowsRead DEF N
<1>4. \A c : \A n \in 1 .. N : InPart(c)[n] \in Int
  BY <1>1, RowsRead DEF N
<1>5. PICK net : Sums(net, InNet, N) /\ Net = net[N]
  BY <1>1, NetIsASum DEF N
<1>6. CASE form = "statement"
  <2>1. PICK c : Sums(c, InCredits, N) /\ Credits = c[N]
    BY <1>1, CreditsAreASum DEF N
  <2>2. PICK d : Sums(d, InDebits, N) /\ Debits = d[N]
    BY <1>1, DebitsAreASum DEF N
  <2>3. \A n \in 1 .. N : InCredits[n] + nothing[n] = InDebits[n] + InNet[n] + nothing[n]
    BY <1>2, <1>6, RowInOneTotal DEF N
  <2>4. Balanced(N, InCredits, nothing, InDebits, InNet, nothing)
    BY <1>3, <2>3 DEF Balanced
  <2>5. c[N] + z[N] = d[N] + net[N] + z[N]
    BY <1>1, <1>2, <1>5, <2>1, <2>2, <2>4, SumsBalance
  <2>6. {c[N], d[N], net[N]} \subseteq Int
    BY <1>1, <1>5, <2>1, <2>2 DEF Sums
  <2> QED
    BY <1>2, <1>5, <1>6, <2>1, <2>2, <2>5, <2>6 DEF Reconstructed, Followed
<1>7. CASE form # "statement"
  <2>1. PICK r : Sums(r, InPart("refund"), N) /\ In("refund") = r[N]
    BY <1>1, PartIsASum DEF N
  <2>2. PICK y : Sums(y, InPart("payment"), N) /\ In("payment") = y[N]
    BY <1>1, PartIsASum DEF N
  <2>3. PICK p : Sums(p, InPart("purchase"), N) /\ In("purchase") = p[N]
    BY <1>1, PartIsASum DEF N
  <2>4. PICK f : Sums(f, InPart("fee"), N) /\ In("fee") = f[N]
    BY <1>1, PartIsASum DEF N
  <2>5. Balanced(N, InPart("refund"), InPart("payment"), InPart("purchase"),
                 InPart("fee"), InNet)
    BY <1>3, <1>4, <1>7, RowInOneTotal DEF N, Balanced
  <2>6. r[N] + y[N] = p[N] + f[N] + net[N]
    BY <1>1, <1>5, <2>1, <2>2, <2>3, <2>4, <2>5, SumsBalance
  <2>7. {r[N], y[N], p[N], f[N], net[N]} \subseteq Int
    BY <1>1, <1>5, <2>1, <2>2, <2>3, <2>4 DEF Sums
  <2> QED
    BY <1>5, <1>7, <2>1, <2>2, <2>3, <2>4, <2>6, <2>7 DEF Reconstructed, Followed
<1> QED
  BY <1>6, <1>7

LEMMA DrStart == DrInit => DrInv
<1> SUFFICES ASSUME DrInit PROVE DrInv
  OBVIOUS
<1>1. rows \in Seq(ReadRow) /\ DOMAIN rows = {} /\ pending \in Seq(1 .. MaxLines)
  BY DEF DrInit
<1>4. /\ form \in {"statement", "invoice"} /\ at = 0 /\ day = 0 /\ sign = 0
      /\ trailing \in BOOLEAN /\ layouts = {} /\ described = {}
  BY DEF DrInit
<1>2. DrTypeOK
  <2>1. \A n \in DOMAIN rows : rows[n].amount \in Int /\ rows[n].line \in 1 .. MaxLines
    BY <1>1
  <2> QED
    BY <1>1, <2>1, ReadingBounds, <1>4 DEF DrTypeOK
<1>3. \A n \in DOMAIN rows : SignSound(form, rows[n])
  BY <1>1
<1> QED
  BY <1>1, <1>2, <1>3 DEF DrInit, DrInv

(* Text added to the last row changes nothing else of the rows.             *)
LEMMA AttachedRows ==
  ASSUME DrInv
  PROVE  /\ Attached \in Seq(ReadRow) /\ LinesRead(Attached) = LinesRead(rows)
         /\ \A n \in DOMAIN Attached : SignSound(form, Attached[n])
<1>1. rows \in Seq(ReadRow) /\ pending \in Seq(1 .. MaxLines)
      /\ \A n \in DOMAIN rows : SignSound(form, rows[n])
  BY DEF DrInv, DrTypeOK
<1>2. CASE rows = <<>> \/ pending = <<>>
  BY <1>1, <1>2 DEF Attached
<1>3. CASE ~(rows = <<>> \/ pending = <<>>)
  <2> DEFINE N == Len(rows)
             last == [rows[N] EXCEPT !.text = @ \o pending]
  <2>1. N \in DOMAIN rows /\ DOMAIN rows = 1 .. N /\ rows[N] \in ReadRow
    BY <1>1, <1>3, RowsRead
  <2>2. last \in ReadRow /\ last.line = rows[N].line /\ last.amount = rows[N].amount
        /\ last.word = rows[N].word
    <3>1. rows[N].text \in Seq(1 .. MaxLines)
      BY <2>1 DEF ReadRow
    <3>2. rows[N].text \o pending \in Seq(1 .. MaxLines)
      BY <1>1, <3>1, ConcatProperties
    <3> QED
      BY <2>1, <3>2 DEF ReadRow
  <2>3. Attached = [rows EXCEPT ![N] = last]
    BY <1>3 DEF Attached
  <2> HIDE DEF last
  <2>4. Attached \in Seq(ReadRow) /\ DOMAIN Attached = DOMAIN rows
    BY <1>1, <2>1, <2>2, <2>3
  <2>5. \A n \in DOMAIN rows : /\ Attached[n].line = rows[n].line
                              /\ Attached[n].amount = rows[n].amount
                              /\ Attached[n].word = rows[n].word
    BY <2>1, <2>2, <2>3
  <2> QED
    BY <1>1, <2>4, <2>5 DEF LinesRead, SignSound
<1> QED
  BY <1>2, <1>3

(* A line that closes no movement of a statement.                           *)
LEMMA LineRead ==
  ASSUME DrInv, form' = form, at' \in 0 .. MaxLines, day' \in {0, 1}, sign' \in {-1, 0, 1},
         pending' \in Seq(1 .. MaxLines), trailing' = FALSE \/ trailing' = trailing,
         rows' \in Seq(ReadRow), \A n \in DOMAIN rows' : SignSound(form, rows'[n]),
         LinesRead(rows) \subseteq LinesRead(rows'),
         layouts' = layouts, described' = described
  PROVE  DrInv'
<1>1. \A n \in DOMAIN rows' : rows'[n].amount \in Int /\ rows'[n].line \in 1 .. MaxLines
  <2>1. \A n \in DOMAIN rows' : rows'[n] \in ReadRow
    OBVIOUS
  <2> QED
    BY <2>1 DEF ReadRow
<1>2. trailing' \in BOOLEAN /\ (trailing' => "inline" \in layouts')
  <2>1. trailing \in BOOLEAN /\ (trailing => "inline" \in layouts)
    BY DEF DrInv, DrTypeOK
  <2>2. CASE trailing' = FALSE
    BY <2>2
  <2>3. CASE trailing' = trailing
    BY <2>1, <2>3
  <2> QED
    BY <2>2, <2>3
<1>3. DrTypeOK'
  BY <1>1, <1>2 DEF DrInv, DrTypeOK
<1>4. layouts' # {"bare", "inline"} => described' \subseteq LinesRead(rows')
  BY DEF DrInv
<1>5. \A n \in DOMAIN rows' : SignSound(form', rows'[n])
  OBVIOUS
<1> QED
  BY <1>2, <1>3, <1>4, <1>5 DEF DrInv

(* A movement is added to rows of the same lines.                           *)
LEMMA RowAppended ==
  ASSUME NEW b, b \in Seq(ReadRow), NEW r \in ReadRow
  PROVE  /\ Append(b, r) \in Seq(ReadRow)
         /\ LinesRead(Append(b, r)) = LinesRead(b) \cup {r.line}
         /\ \A n \in DOMAIN Append(b, r) :
               \/ Append(b, r)[n] = r
               \/ n \in DOMAIN b /\ Append(b, r)[n] = b[n]
<1> DEFINE N == Len(b)
<1>1. N \in Nat /\ DOMAIN b = 1 .. N
  OBVIOUS
<1>2. /\ Append(b, r) \in Seq(ReadRow) /\ DOMAIN Append(b, r) = 1 .. N + 1
      /\ Append(b, r)[N + 1] = r /\ \A n \in 1 .. N : Append(b, r)[n] = b[n]
  BY <1>1, AppendProperties
<1>3. \A n \in 1 .. N + 1 : n = N + 1 \/ n \in 1 .. N
  BY <1>1
<1>4. N + 1 \in 1 .. N + 1 /\ \A n \in 1 .. N : n \in 1 .. N + 1
  BY <1>1
<1> DEFINE a == Append(b, r)
<1> HIDE DEF a, N
<1>5. LinesRead(a) = LinesRead(b) \cup {r.line}
  <2>1. LinesRead(a) \subseteq LinesRead(b) \cup {r.line}
    BY <1>1, <1>2, <1>3 DEF LinesRead, a
  <2>2. LinesRead(b) \subseteq LinesRead(a) /\ r.line \in LinesRead(a)
    BY <1>1, <1>2, <1>4 DEF LinesRead, a
  <2> QED
    BY <2>1, <2>2
<1> QED
  BY <1>1, <1>2, <1>3, <1>5 DEF a

LEMMA AmountRead ==
  ASSUME DrInv, NEW layout \in {"bare", "inline"}, NEW disclosure \in BOOLEAN,
         AmountLine(layout, disclosure)
  PROVE  DrInv'
<1> DEFINE base == IF trailing THEN Attached ELSE rows
           own == IF layout = "inline" THEN <<at + 1>> ELSE <<>>
           text == (IF trailing THEN <<>> ELSE pending) \o own
           kept1 == text # <<>> /\ ~disclosure /\ sign # 0
           r == [line |-> at + 1, amount |-> sign, text |-> text, word |-> "plain"]
<1>1. /\ form = "statement" /\ form' = form /\ at < MaxLines /\ at' = at + 1
      /\ day' = day /\ sign' = sign
  BY DEF AmountLine, StatementLine
<1>2. /\ at \in 0 .. MaxLines /\ day \in {0, 1} /\ sign \in {-1, 0, 1} /\ trailing \in BOOLEAN
      /\ pending \in Seq(1 .. MaxLines) /\ layouts \subseteq {"bare", "inline"}
      /\ described \subseteq 1 .. MaxLines
      /\ rows \in Seq(ReadRow) /\ \A n \in DOMAIN rows : SignSound(form, rows[n])
  BY DEF DrInv, DrTypeOK
<1>3. at' \in 1 .. MaxLines /\ at' \in 0 .. MaxLines
  BY <1>1, <1>2, ReadingBounds
<1>4. CASE day = 0
  BY <1>1, <1>2, <1>3, <1>4, LineRead DEF AmountLine
<1>5. CASE day # 0
  <2>1. /\ rows' = IF kept1 THEN Append(base, r) ELSE base
        /\ pending' = <<>> /\ trailing' = (kept1 /\ Trails(layout))
        /\ layouts' = layouts \cup {layout}
        /\ described' = IF pending \o own # <<>> /\ ~disclosure /\ sign # 0
                        THEN described \cup {at'} ELSE described
    BY <1>1, <1>5 DEF AmountLine
  <2>2. base \in Seq(ReadRow) /\ LinesRead(base) = LinesRead(rows)
        /\ \A n \in DOMAIN base : SignSound(form, base[n])
    BY <1>2, AttachedRows
  <2>3. own \in Seq(1 .. MaxLines) /\ text \in Seq(1 .. MaxLines)
    <3>0. <<>> \in Seq(1 .. MaxLines) /\ <<at + 1>> \in Seq(1 .. MaxLines)
      BY <1>1, <1>3
    <3>1. own \in Seq(1 .. MaxLines)
      BY <3>0
    <3> HIDE DEF own
    <3>2. (IF trailing THEN <<>> ELSE pending) \in Seq(1 .. MaxLines)
      BY <1>2, <3>0
    <3> QED
      BY <3>1, <3>2, ConcatProperties
  <2>4. (~trailing => text = pending \o own) /\ (layout = "inline" => text # <<>>)
    <3>1. layout = "inline" => Len(own) = 1
      OBVIOUS
    <3> HIDE DEF own
    <3>2. (IF trailing THEN <<>> ELSE pending) \in Seq(1 .. MaxLines)
      BY <1>2, <<>> \in Seq(1 .. MaxLines)
    <3>3. Len(text) = Len(IF trailing THEN <<>> ELSE pending) + Len(own)
      BY <2>3, <3>2, ConcatProperties
    <3>4. Len(IF trailing THEN <<>> ELSE pending) \in Nat
      BY <3>2
    <3>5. layout = "inline" => Len(text) # 0
      BY <3>1, <3>3, <3>4
    <3> QED
      BY <3>5, Len(<<>>) = 0
  <2> HIDE DEF base, own, text
  <2>5. r \in ReadRow /\ SignSound(form, r) /\ r.line = at'
    BY <1>1, <1>2, <1>3, <2>3 DEF ReadRow, Words, SignSound
  <2> HIDE DEF r
  <2>6. rows' \in Seq(ReadRow) /\ LinesRead(rows') = LinesRead(rows) \cup (IF kept1 THEN {at'} ELSE {})
        /\ \A n \in DOMAIN rows' : SignSound(form, rows'[n])
    BY <2>1, <2>2, <2>5, RowAppended
  <2>7. trailing' => layout = "inline"
    BY <2>1 DEF Trails
  <2>8. layouts' # {"bare", "inline"} => described' \subseteq LinesRead(rows')
    <3> SUFFICES ASSUME layouts' # {"bare", "inline"}
                 PROVE  described' \subseteq LinesRead(rows')
      OBVIOUS
    <3>1. layouts # {"bare", "inline"} /\ described \subseteq LinesRead(rows)
      BY <1>2, <2>1 DEF DrInv
    <3>2. layout = "bare" => ~trailing
      BY <1>2, <2>1 DEF DrInv
    <3>3. pending \o own # <<>> => text # <<>>
      BY <2>4, <3>2
    <3> QED
      BY <2>1, <2>6, <3>1, <3>3
  <2>9. \A n \in DOMAIN rows' : rows'[n].amount \in Int /\ rows'[n].line \in 1 .. MaxLines
    <3>1. \A n \in DOMAIN rows' : rows'[n] \in ReadRow
      BY <2>6
    <3> QED
      BY <3>1 DEF ReadRow
  <2>10. trailing' \in BOOLEAN /\ (trailing' => "inline" \in layouts')
    <3>1. trailing' = TRUE \/ trailing' = FALSE
      BY <2>1 DEF Trails
    <3> QED
      BY <2>1, <2>7, <3>1
  <2>11. described' \subseteq 1 .. MaxLines /\ layouts' \subseteq {"bare", "inline"}
         /\ pending' \in Seq(1 .. MaxLines)
    BY <1>2, <1>3, <2>1
  <2>12. DrTypeOK'
    BY <1>1, <1>2, <1>3, <2>9, <2>10, <2>11 DEF DrTypeOK
  <2>13. \A n \in DOMAIN rows' : SignSound(form', rows'[n])
    BY <1>1, <2>6
  <2> QED
    BY <2>6, <2>8, <2>10, <2>12, <2>13 DEF DrInv
<1> QED
  BY <1>4, <1>5

LEMMA StatementRead ==
  ASSUME DrInv,
         \/ \E direction \in {1, -1} :
               SectionHeader(direction) \/ \E d \in {0, 1} : DayHeader(d, direction)
         \/ BalanceLine \/ FooterLine \/ TextLine
  PROVE  DrInv'
<1>1. /\ form' = form /\ at < MaxLines /\ at' = at + 1
      /\ layouts' = layouts /\ described' = described
  BY DEF SectionHeader, DayHeader, BalanceLine, FooterLine, TextLine, StatementLine
<1>2. /\ at \in 0 .. MaxLines /\ day \in {0, 1} /\ sign \in {-1, 0, 1}
      /\ pending \in Seq(1 .. MaxLines)
      /\ rows \in Seq(ReadRow) /\ \A n \in DOMAIN rows : SignSound(form, rows[n])
  BY DEF DrInv, DrTypeOK
<1>3. at' \in 0 .. MaxLines /\ at' \in 1 .. MaxLines /\ <<>> \in Seq(1 .. MaxLines)
  BY <1>1, <1>2, ReadingBounds
<1>4. rows' = rows \/ rows' = Attached
  BY DEF SectionHeader, DayHeader, BalanceLine, FooterLine, TextLine, Boundary
<1>5. rows' \in Seq(ReadRow) /\ (\A n \in DOMAIN rows' : SignSound(form, rows'[n]))
      /\ LinesRead(rows) \subseteq LinesRead(rows')
  BY <1>2, <1>4, AttachedRows
<1>6. trailing' = FALSE \/ trailing' = trailing
  BY DEF SectionHeader, DayHeader, BalanceLine, FooterLine, TextLine, Boundary
<1>7. day' \in {0, 1} /\ sign' \in {-1, 0, 1}
  BY <1>2 DEF SectionHeader, DayHeader, BalanceLine, FooterLine, TextLine
<1>8. pending' \in Seq(1 .. MaxLines)
  <2>1. Append(pending, at') \in Seq(1 .. MaxLines)
    BY <1>2, <1>3, AppendProperties
  <2> QED
    BY <1>2, <1>3, <2>1 DEF SectionHeader, DayHeader, BalanceLine, FooterLine, TextLine, Boundary
<1> QED
  BY <1>1, <1>3, <1>5, <1>6, <1>7, <1>8, LineRead

LEMMA InvoiceRead ==
  ASSUME DrInv,
         \/ StartRow \/ ContinueRow
         \/ \E dated \in BOOLEAN :
               SkipRow(dated) \/ \E word \in Words, a \in Amounts : EndRow(word, a, dated)
  PROVE  DrInv'
<1>1. /\ form = "invoice" /\ form' = form /\ at < MaxLines /\ at' = at + 1
      /\ sign' = sign /\ trailing' = trailing /\ layouts' = layouts /\ described' = described
  BY DEF StartRow, ContinueRow, SkipRow, EndRow, InvoiceLine
<1>2. /\ at \in 0 .. MaxLines /\ day \in {0, 1} /\ sign \in {-1, 0, 1}
      /\ pending \in Seq(1 .. MaxLines)
      /\ rows \in Seq(ReadRow) /\ \A n \in DOMAIN rows : SignSound(form, rows[n])
  BY DEF DrInv, DrTypeOK
<1>3. at' \in 0 .. MaxLines /\ at' \in 1 .. MaxLines /\ <<>> \in Seq(1 .. MaxLines)
      /\ <<at'>> \in Seq(1 .. MaxLines)
  BY <1>1, <1>2, ReadingBounds
<1>4. day' \in {0, 1}
  BY <1>2 DEF StartRow, ContinueRow, SkipRow, EndRow, Closed
<1>5. pending' \in Seq(1 .. MaxLines)
  <2>1. Append(pending, at') \in Seq(1 .. MaxLines)
    BY <1>2, <1>3, AppendProperties
  <2> QED
    BY <1>2, <1>3, <2>1 DEF StartRow, ContinueRow, SkipRow, EndRow, Closed
<1>6. /\ rows' \in Seq(ReadRow) /\ \A n \in DOMAIN rows' : SignSound(form, rows'[n])
      /\ LinesRead(rows) \subseteq LinesRead(rows')
  <2>1. CASE rows' = rows
    BY <1>2, <2>1
  <2>2. CASE \E dated \in BOOLEAN, word \in Words, a \in Amounts : EndRow(word, a, dated)
    <3> PICK dated \in BOOLEAN, word \in Words, a \in Amounts : EndRow(word, a, dated)
      BY <2>2
    <3> DEFINE r == [line |-> at', amount |-> Normalized(word, a), text |-> Joined(dated),
                     word |-> word]
    <3>0. Joined(dated) \in Seq(1 .. MaxLines)
      <4>1. Append(pending, at') \in Seq(1 .. MaxLines)
        BY <1>2, <1>3, AppendProperties
      <4> QED
        BY <1>1, <1>3, <4>1 DEF Joined
    <3>1. Normalized(word, a) \in Int
          /\ (word \in {"payment", "refund"} => Normalized(word, a) >= 0)
      BY ReadingBounds DEF Normalized
    <3>2. r \in ReadRow /\ SignSound(form, r)
      BY <1>1, <1>2, <1>3, <3>0, <3>1 DEF ReadRow, SignSound
    <3>3. rows' = Append(rows, r)
      BY DEF EndRow
    <3> HIDE DEF r
    <3> QED
      BY <1>2, <3>2, <3>3, RowAppended
  <2> QED
    BY <2>1, <2>2 DEF StartRow, ContinueRow, SkipRow
<1> QED
  BY <1>1, <1>2, <1>3, <1>4, <1>5, <1>6, LineRead

LEMMA DrStep == DrInv /\ [DrNext]_drVars => DrInv'
<1> SUFFICES ASSUME DrInv, [DrNext]_drVars PROVE DrInv'
  OBVIOUS
<1>1. CASE UNCHANGED drVars
  BY <1>1 DEF drVars, DrInv, DrTypeOK
<1> QED
  BY <1>1, AmountRead, StatementRead, InvoiceRead DEF DrNext

(* Whatever the lines of a document: the total it is compared with is the   *)
(* one its rows lead to, each of them counted once and in its direction     *)
(* unless a fee was given back, and in a statement that ends its movements  *)
(* in one way every amount with words becomes a row, unless they are those  *)
(* of a disclosure (the readers of importer.py, reconciliation.py).         *)
THEOREM DocumentsAreRead == DrSpec => []NothingIsMisread
<1>1. DrInv => NothingIsMisread
  <2> SUFFICES ASSUME DrInv PROVE NothingIsMisread
    OBVIOUS
  <2>1. UniformLayoutReadsEverything
    <3>1. Cardinality({"bare", "inline"}) # 1
      <4>1. Cardinality({"bare"}) = 1 /\ IsFiniteSet({"bare"})
        BY FS_Singleton
      <4>2. {"bare", "inline"} = {"bare"} \cup {"inline"} /\ "inline" \notin {"bare"}
        OBVIOUS
      <4>3. Cardinality({"bare"} \cup {"inline"}) = 1 + 1
        BY <4>1, <4>2, FS_AddElement
      <4> QED
        BY <4>2, <4>3
    <3> QED
      BY <3>1 DEF DrInv, LinesRead, UniformLayoutReadsEverything
  <2> QED
    BY <2>1, TotalsAgree DEF NothingIsMisread
<1> QED
  BY <1>1, DrStart, DrStep, PTL DEF DrSpec

-----------------------------------------------------------------------------
(* A fund's holding.  Days quoted, and positions in the order recorded.     *)
Days(q) == {q[n] : n \in DOMAIN q}
PositionRow == [units : Nat, day : QuotaDays, delta : Int]
InDayOrder(ps) == \A k, n \in DOMAIN ps : k <= n => ps[k].day <= ps[n].day
\* A movement starts from the row recorded before it.
FollowsOn(ps) == \A n \in DOMAIN ps : ps[n].delta # 0 =>
                     n - 1 \in DOMAIN ps /\ ps[n].units = ps[n - 1].units + ps[n].delta

(* A movement in progress leaves no negative position, and has read the     *)
(* latest one if none was recorded since.                                   *)
MovingSound ==
    moving = NoMove \/
    /\ moving \in [delta : Deltas, day : QuotaDays, units : Nat, seen : Nat]
    /\ moving.units + moving.delta >= 0
    /\ moving.seen <= Len(positions)
    /\ moving.seen = Len(positions) => positions # <<>> /\ moving.units = LatestPosition.units
(* A pass values a day quoted, the latest if none was ingested since.       *)
PassesSound ==
    \A w \in Passes : pass[w].step = "valuing" =>
        /\ pass[w].day \in Days(quotes)
        /\ pass[w].seen \in Nat /\ pass[w].seen <= Len(quotes)
        /\ pass[w].seen = Len(quotes) => pass[w].day = LatestQuote
FqInv ==
    /\ FqTypeOK /\ positions \in Seq(PositionRow)
    /\ MovingSound /\ PassesSound
    /\ "backdated" \notin unordered => InDayOrder(positions)
    /\ unordered \cap {"backdated", "overlap"} = {} => FollowsOn(positions)
    /\ VariationsAddUp

LEMMA GreatestNumber ==
  ASSUME NEW B \in Nat, NEW S \in SUBSET (0 .. B), S # {}
  PROVE  \E m \in S : \A k \in S : k <= m
<1> DEFINE T == {B - x : x \in S}
<1>1. T \in SUBSET Nat /\ T # {}
  <2>1. \A x \in S : B - x \in Nat
    OBVIOUS
  <2>2. PICK x \in S : TRUE
    OBVIOUS
  <2>3. B - x \in T
    OBVIOUS
  <2> QED
    BY <2>1, <2>3
<1>2. PICK t \in T : \A k \in T : t <= k
  <2> HIDE DEF T
  <2> QED
    BY <1>1, LeastNumber
<1>3. PICK m \in S : t = B - m
  OBVIOUS
<1>4. \A k \in S : B - m <= B - k
  BY <1>2, <1>3
<1>5. m \in 0 .. B /\ \A k \in S : k \in 0 .. B
  OBVIOUS
<1>6. \A k \in S : k <= m
  BY <1>4, <1>5
<1> QED
  BY <1>6

LEMMA GreatestIs ==
  ASSUME NEW S \in SUBSET QuotaDays, S # {}
  PROVE  /\ Greatest(S) \in S /\ Greatest(S) \in QuotaDays
         /\ \A e \in S : e <= Greatest(S)
<1>1. LastQuotaDay \in Nat /\ S \in SUBSET (0 .. LastQuotaDay)
  BY FundDays DEF QuotaDays
<1>2. \E m \in S : \A k \in S : k <= m
  BY <1>1, GreatestNumber
<1> QED
  BY <1>2 DEF Greatest

LEMMA PositionRows ==
  ASSUME NEW ps, ps \in Seq(PositionRow)
  PROVE  /\ Len(ps) \in Nat /\ DOMAIN ps = 1 .. Len(ps)
         /\ \A n \in DOMAIN ps : ps[n] \in PositionRow
         /\ \A n \in DOMAIN ps : /\ ps[n].units \in Nat /\ ps[n].delta \in Int
                                 /\ ps[n].day \in QuotaDays /\ ps[n].day \in Nat
<1>1. Len(ps) \in Nat /\ DOMAIN ps = 1 .. Len(ps)
  OBVIOUS
<1>2. \A n \in DOMAIN ps : ps[n] \in PositionRow
  BY <1>1, ElementOfSeq
<1>3. QuotaDays \subseteq Nat
  BY FundDays DEF QuotaDays
<1> QED
  BY <1>1, <1>2, <1>3 DEF PositionRow

LatestAt(n) == \A k \in DOMAIN positions \ {n} :
                  \/ positions[n].day > positions[k].day
                  \/ (positions[n].day = positions[k].day /\ n > k)

LEMMA LatestPositionExists ==
  ASSUME positions \in Seq(PositionRow), positions # <<>>
  PROVE  \E n \in DOMAIN positions : LatestAt(n)
<1> DEFINE N == Len(positions)
           D == {positions[n].day : n \in DOMAIN positions}
<1>1. N \in Nat /\ DOMAIN positions = 1 .. N /\ 1 \in DOMAIN positions
      /\ \A n \in DOMAIN positions : positions[n].day \in QuotaDays /\ positions[n].day \in Nat
  BY PositionRows
<1>2. D \in SUBSET QuotaDays /\ D # {}
  BY <1>1
<1>3. Greatest(D) \in D /\ \A e \in D : e <= Greatest(D)
  <2> HIDE DEF D
  <2> QED
    BY <1>2, GreatestIs
<1> DEFINE M == {n \in DOMAIN positions : positions[n].day = Greatest(D)}
<1>4. M \in SUBSET (0 .. N) /\ M # {}
  <2>1. PICK n \in DOMAIN positions : positions[n].day = Greatest(D)
    BY <1>3
  <2>2. n \in M
    BY <2>1
  <2>3. M \subseteq DOMAIN positions
    OBVIOUS
  <2> HIDE DEF M
  <2> QED
    BY <1>1, <2>2, <2>3
<1>5. PICK n \in M : \A k \in M : k <= n
  <2> HIDE DEF M
  <2> QED
    BY <1>1, <1>4, GreatestNumber
<1>6. n \in DOMAIN positions /\ n \in Nat /\ positions[n].day = Greatest(D)
  BY <1>1
<1>8. \A k \in DOMAIN positions : positions[k].day = Greatest(D) => k <= n
  BY <1>5
<1>7. \A k \in DOMAIN positions \ {n} :
         \/ positions[n].day > positions[k].day
         \/ (positions[n].day = positions[k].day /\ n > k)
  <2> SUFFICES ASSUME NEW k \in DOMAIN positions \ {n}
               PROVE  \/ positions[n].day > positions[k].day
                      \/ (positions[n].day = positions[k].day /\ n > k)
    OBVIOUS
  <2>1. positions[k].day \in Nat /\ positions[k].day <= positions[n].day /\ k \in Nat
    BY <1>1, <1>3, <1>6
  <2>2. positions[n].day \in Nat
    BY <1>1, <1>6
  <2>3. CASE positions[k].day = positions[n].day
    <3>1. k <= n /\ k # n
      BY <1>6, <1>8, <2>3
    <3> QED
      BY <1>6, <2>1, <2>3, <3>1
  <2> QED
    BY <2>1, <2>2, <2>3
<1> QED
  BY <1>6, <1>7 DEF LatestAt

LEMMA LatestPositionIs ==
  ASSUME positions \in Seq(PositionRow), positions # <<>>
  PROVE  \E n \in DOMAIN positions : LatestPosition = positions[n] /\ LatestAt(n)
<1> DEFINE c == CHOOSE n \in DOMAIN positions : LatestAt(n)
<1>1. c \in DOMAIN positions /\ LatestAt(c)
  BY LatestPositionExists
<1>2. LatestPosition = positions[c]
  BY DEF LatestPosition, LatestAt
<1> QED
  BY <1>1, <1>2

(* In positions recorded in the order of their days it is the last one.     *)
LEMMA LatestPositionIsLast ==
  ASSUME positions \in Seq(PositionRow), positions # <<>>, InDayOrder(positions)
  PROVE  LatestPosition = positions[Len(positions)]
<1> DEFINE N == Len(positions)
<1>1. PICK n \in DOMAIN positions : LatestPosition = positions[n] /\ LatestAt(n)
  BY LatestPositionIs
<1>2. N \in DOMAIN positions /\ DOMAIN positions = 1 .. N /\ N \in Nat
      /\ \A k \in DOMAIN positions : positions[k].day \in Nat
  BY PositionRows
<1>3. n <= N /\ n \in Nat /\ positions[n].day <= positions[N].day
  BY <1>2 DEF InDayOrder
<1>4. n = N
  BY <1>1, <1>2, <1>3 DEF LatestAt
<1> QED
  BY <1>1, <1>4

(* The units reckoned from the rows are those of the last row.              *)
LEMMA ReckonedIsLast ==
  ASSUME positions \in Seq(PositionRow), positions # <<>>, FollowsOn(positions)
  PROVE  Reckoned = positions[Len(positions)].units
<1> DEFINE N == Len(positions)
           upTo[n \in 0 .. N] ==
             IF n = 0 THEN 0
             ELSE IF positions[n].delta = 0 THEN positions[n].units
                  ELSE upTo[n - 1] + positions[n].delta
           f == [n \in 0 .. N |-> IF n = 0 THEN 0 ELSE positions[n].units]
<1>1. N \in Nat /\ N # 0 /\ DOMAIN positions = 1 .. N
      /\ \A n \in DOMAIN positions : positions[n].units \in Nat /\ positions[n].delta \in Int
  BY PositionRows
<1>2. Reckoned = upTo[N]
  BY DEF Reckoned
<1>3. \A n \in 1 .. N : positions[n].delta # 0 =>
         n - 1 \in 1 .. N /\ positions[n].units = positions[n - 1].units + positions[n].delta
  BY <1>1 DEF FollowsOn
<1>4. f = [n \in 0 .. N |-> IF n = 0 THEN 0
                            ELSE IF positions[n].delta = 0 THEN positions[n].units
                                 ELSE f[n - 1] + positions[n].delta]
  <2>1. \A n \in 0 .. N : f[n] = IF n = 0 THEN 0
                            ELSE IF positions[n].delta = 0 THEN positions[n].units
                                 ELSE f[n - 1] + positions[n].delta
    <3> SUFFICES ASSUME NEW n \in 0 .. N, n # 0, positions[n].delta # 0
                 PROVE  positions[n].units = f[n - 1] + positions[n].delta
      OBVIOUS
    <3>1. n \in 1 .. N /\ n - 1 \in 1 .. N
          /\ positions[n].units = positions[n - 1].units + positions[n].delta
      BY <1>1, <1>3
    <3> QED
      BY <3>1
  <2>2. f = [n \in 0 .. N |-> f[n]]
    OBVIOUS
  <2> HIDE DEF f
  <2> QED
    BY <2>1, <2>2
<1>5. upTo = [n \in 0 .. N |-> IF n = 0 THEN 0
                            ELSE IF positions[n].delta = 0 THEN positions[n].units
                                 ELSE upTo[n - 1] + positions[n].delta]
  <2> HIDE DEF f
  <2> QED
    BY <1>4
<1> HIDE DEF upTo
<1> DEFINE Good == {m \in 0 .. N : upTo[m] = f[m]}
<1> SUFFICES ASSUME N \notin Good PROVE FALSE
  BY <1>1, <1>2
<1>6. \A n \in 0 .. N : upTo[n] = IF n = 0 THEN 0
                            ELSE IF positions[n].delta = 0 THEN positions[n].units
                                 ELSE upTo[n - 1] + positions[n].delta
  BY <1>5
<1>7. \A n \in 0 .. N : f[n] = IF n = 0 THEN 0
                            ELSE IF positions[n].delta = 0 THEN positions[n].units
                                 ELSE f[n - 1] + positions[n].delta
  <2> HIDE DEF f
  <2> QED
    BY <1>4
<1> HIDE DEF f
<1>8. 0 \in Good /\ \E m \in 0 .. N : m \notin Good
  BY <1>1, <1>6, <1>7
<1>9. PICK m \in 1 .. N : m \notin Good /\ m - 1 \in 0 .. N /\ m - 1 \in Good
  <2> HIDE DEF Good
  <2> QED
    BY <1>1, <1>8, LeastFailure
<1>10. m \in 0 .. N /\ m # 0 /\ upTo[m - 1] = f[m - 1] /\ upTo[m] # f[m]
  BY <1>9
<1> QED
  BY <1>6, <1>7, <1>10

LEMMA FqStart == FqInit => FqInv
<1> SUFFICES ASSUME FqInit PROVE FqInv
  OBVIOUS
<1>1. /\ published = 0 /\ quotes = <<>> /\ positions = <<>> /\ moving = NoMove /\ unordered = {}
      /\ valuations = [d \in {} |-> NotValued] /\ pass = [w \in Passes |-> NotRunning]
      /\ heartbeat = [running |-> FALSE, ok |-> FALSE]
  BY DEF FqInit
<1>2. DOMAIN positions = {} /\ DOMAIN quotes = {} /\ DOMAIN valuations = {}
      /\ quotes \in Seq(QuotaDays) /\ positions \in Seq(PositionRow)
  BY <1>1
<1>3. published \in 0 .. LastQuotaDay /\ moving.delta \in Deltas \cup {0}
      /\ heartbeat \in [running : BOOLEAN, ok : BOOLEAN] /\ DOMAIN pass = Passes
  BY <1>1, FundDays DEF NoMove
<1>4. FqTypeOK
  BY <1>1, <1>2, <1>3 DEF FqTypeOK
<1>5. PassesSound
  BY <1>1 DEF PassesSound, NotRunning
<1>6. InDayOrder(positions) /\ FollowsOn(positions) /\ VariationsAddUp
  BY <1>2 DEF InDayOrder, FollowsOn, VariationsAddUp
<1> QED
  BY <1>1, <1>2, <1>4, <1>5, <1>6 DEF FqInv, MovingSound

(* The rows and the movement stay.                                          *)
LEMMA MovingStays ==
  ASSUME MovingSound, UNCHANGED <<positions, moving>>
  PROVE  MovingSound'
  BY DEF MovingSound, LatestPosition

(* A step of one process that changes neither rows nor valuations.          *)
LEMMA PassMoves ==
  ASSUME FqInv, NEW w \in Passes, NEW p, pass' = [pass EXCEPT ![w] = p],
         quotes' = quotes, p.step # "valuing" \/
            /\ p.day \in Days(quotes) /\ p.seen = Len(quotes) /\ p.day = LatestQuote
  PROVE  PassesSound' /\ DOMAIN pass' = Passes
<1>1. DOMAIN pass = Passes /\ Len(quotes) \in Nat
  BY DEF FqInv, FqTypeOK
<1>2. LatestQuote' = LatestQuote
  BY DEF LatestQuote
<1>3. \A v \in Passes : pass'[v] = IF v = w THEN p ELSE pass[v]
  BY <1>1
<1>4. PassesSound
  BY DEF FqInv
<1> QED
  BY <1>1, <1>2, <1>3, <1>4 DEF PassesSound

LEMMA LatestQuoteIs ==
  ASSUME quotes \in Seq(QuotaDays), quotes # <<>>
  PROVE  /\ Days(quotes) \in SUBSET QuotaDays
         /\ LatestQuote \in Days(quotes) /\ \A d \in Days(quotes) : d <= LatestQuote
<1>1. Len(quotes) \in Nat /\ DOMAIN quotes = 1 .. Len(quotes) /\ 1 \in DOMAIN quotes
      /\ \A n \in DOMAIN quotes : quotes[n] \in QuotaDays
  OBVIOUS
<1>2. Days(quotes) \in SUBSET QuotaDays /\ quotes[1] \in Days(quotes)
  BY <1>1 DEF Days
<1>3. LatestQuote = Greatest(Days(quotes))
  BY DEF LatestQuote, Days
<1> QED
  BY <1>2, <1>3, GreatestIs

LEMMA OtherPass ==
  ASSUME FqInv, NEW w \in Passes,
         \/ StartPass(w) \/ ReadHousehold(w) \/ FinishPass(w) \/ AbortPass(w) \/ KillPass(w)
  PROVE  FqInv'
<1>1. UNCHANGED <<published, quotes, positions, valuations, moving, unordered>>
  BY DEF StartPass, ReadHousehold, FinishPass, AbortPass, KillPass
<1>2. PICK p : /\ pass' = [pass EXCEPT ![w] = p]
               /\ p.step # "valuing" \/
                     /\ p.day \in Days(quotes) /\ p.seen = Len(quotes) /\ p.day = LatestQuote
  <2>1. CASE ReadHousehold(w)
    <3>1. quotes \in Seq(QuotaDays) /\ quotes # <<>>
      BY <2>1 DEF FqInv, FqTypeOK, ReadHousehold
    <3>2. LatestQuote \in Days(quotes)
      BY <3>1, LatestQuoteIs
    <3> DEFINE p == [step |-> "valuing", day |-> LatestQuote, units |-> LatestPosition.units,
                     seen |-> Len(quotes)]
    <3>3. pass' = [pass EXCEPT ![w] = p]
      BY <2>1 DEF ReadHousehold
    <3>4. p.day = LatestQuote /\ p.seen = Len(quotes)
      OBVIOUS
    <3> HIDE DEF p
    <3> QED
      BY <3>2, <3>3, <3>4
  <2>2. CASE StartPass(w)
    <3>1. pass' = [pass EXCEPT ![w] = [step |-> "started"]]
      BY <2>2 DEF StartPass
    <3>2. [step |-> "started"].step # "valuing"
      OBVIOUS
    <3> QED
      BY <3>1, <3>2
  <2>3. CASE FinishPass(w) \/ AbortPass(w) \/ KillPass(w)
    BY <2>3 DEF FinishPass, AbortPass, KillPass, NotRunning
  <2> QED
    BY <2>1, <2>2, <2>3
<1>3. PassesSound' /\ DOMAIN pass' = Passes
  BY <1>1, <1>2, PassMoves
<1>4. heartbeat' \in [running : BOOLEAN, ok : BOOLEAN]
  <2>1. heartbeat \in [running : BOOLEAN, ok : BOOLEAN]
    BY DEF FqInv, FqTypeOK
  <2>2. heartbeat' \in {heartbeat, [heartbeat EXCEPT !.running = TRUE],
                       [running |-> FALSE, ok |-> TRUE], [running |-> FALSE, ok |-> FALSE]}
    BY DEF StartPass, ReadHousehold, FinishPass, AbortPass, KillPass
  <2>3. /\ [heartbeat EXCEPT !.running = TRUE] \in [running : BOOLEAN, ok : BOOLEAN]
        /\ [running |-> FALSE, ok |-> TRUE] \in [running : BOOLEAN, ok : BOOLEAN]
        /\ [running |-> FALSE, ok |-> FALSE] \in [running : BOOLEAN, ok : BOOLEAN]
    BY <2>1
  <2> DEFINE Beats == [running : BOOLEAN, ok : BOOLEAN]
             up == [heartbeat EXCEPT !.running = TRUE]
             good == [running |-> FALSE, ok |-> TRUE]
             bad == [running |-> FALSE, ok |-> FALSE]
  <2> HIDE DEF Beats, up, good, bad
  <2>4. heartbeat' \in {heartbeat, up, good, bad} /\ heartbeat \in Beats /\ up \in Beats
        /\ good \in Beats /\ bad \in Beats
    BY <2>1, <2>2, <2>3 DEF Beats, up, good, bad
  <2>5. heartbeat' \in Beats
    BY <2>4
  <2> QED
    BY <2>5 DEF Beats
<1>5. FqTypeOK'
  BY <1>1, <1>3, <1>4 DEF FqInv, FqTypeOK
<1>6. MovingSound'
  BY <1>1, MovingStays DEF FqInv
<1>7. VariationsAddUp'
  BY <1>1 DEF FqInv, VariationsAddUp
<1> QED
  BY <1>1, <1>3, <1>5, <1>6, <1>7 DEF FqInv

LEMMA PublishedQuota == FqInv /\ PublishQuota => FqInv'
<1> SUFFICES ASSUME FqInv, PublishQuota PROVE FqInv'
  OBVIOUS
<1>1. UNCHANGED <<quotes, positions, valuations, pass, heartbeat, moving, unordered>>
      /\ published < LastQuotaDay /\ published' = published + 1
  BY DEF PublishQuota
<1>2. published' \in 0 .. LastQuotaDay
  BY <1>1, FundDays DEF FqInv, FqTypeOK
<1>3. FqTypeOK'
  BY <1>1, <1>2 DEF FqInv, FqTypeOK
<1>4. MovingSound'
  BY <1>1, MovingStays DEF FqInv
<1>5. VariationsAddUp' /\ PassesSound'
  BY <1>1 DEF FqInv, VariationsAddUp, PassesSound, LatestQuote
<1> QED
  BY <1>1, <1>3, <1>4, <1>5 DEF FqInv

(* What CVM has is days up to the last one published.                       *)
LEMMA QuotedDays ==
  ASSUME published \in 0 .. LastQuotaDay
  PROVE  Quoted \subseteq QuotaDays
<1> SUFFICES ASSUME NEW d \in Quoted PROVE d \in QuotaDays
  OBVIOUS
<1>1. published # 0
  BY DEF Quoted
<1>2. PICK m : InMonth(m) # {} /\ d = Greatest(InMonth(m))
  BY <1>1 DEF Quoted
<1>3. InMonth(m) \in SUBSET QuotaDays
  BY FundDays DEF InMonth, QuotaDays
<1> QED
  BY <1>2, <1>3, GreatestIs

LEMMA QuoteIngested ==
  ASSUME FqInv, NEW w \in Passes, Ingest(w)
  PROVE  FqInv'
<1>1. /\ UNCHANGED <<published, positions, valuations, heartbeat, moving, unordered>>
      /\ pass' = [pass EXCEPT ![w] = [step |-> "ingested"]]
      /\ \/ quotes' = quotes
         \/ \E d \in Quoted : /\ \A n \in DOMAIN quotes : quotes[n] # d
                              /\ quotes' = Append(quotes, d)
  BY DEF Ingest
<1>2. /\ published \in 0 .. LastQuotaDay /\ quotes \in Seq(QuotaDays) /\ DOMAIN pass = Passes
      /\ \A n, k \in DOMAIN quotes : quotes[n] = quotes[k] => n = k
      /\ DOMAIN valuations \subseteq Days(quotes) /\ Len(quotes) \in Nat
  BY DEF FqInv, FqTypeOK, Days
<1>3. /\ quotes' \in Seq(QuotaDays) /\ Days(quotes) \subseteq Days(quotes')
      /\ \A n, k \in DOMAIN quotes' : quotes'[n] = quotes'[k] => n = k
      /\ quotes' = quotes \/ Len(quotes') = Len(quotes) + 1
  <2>1. CASE quotes' = quotes
    BY <1>2, <2>1
  <2>2. CASE quotes' # quotes
    <3>1. PICK d \in Quoted : /\ \A n \in DOMAIN quotes : quotes[n] # d
                              /\ quotes' = Append(quotes, d)
      BY <1>1, <2>2
    <3>2. d \in QuotaDays
      BY <1>2, QuotedDays
    <3> DEFINE N == Len(quotes)
    <3>3. /\ quotes' \in Seq(QuotaDays) /\ Len(quotes') = N + 1 /\ DOMAIN quotes' = 1 .. N + 1
          /\ quotes'[N + 1] = d /\ DOMAIN quotes = 1 .. N
          /\ \A n \in 1 .. N : quotes'[n] = quotes[n]
      BY <1>2, <3>1, <3>2, AppendProperties
    <3>4. \A n \in 1 .. N + 1 : n = N + 1 \/ n \in 1 .. N
      BY <1>2
    <3>5. N \in Nat /\ \A n \in 1 .. N : n \in 1 .. N + 1
      BY <1>2
    <3> HIDE DEF N
    <3>6. \A n, k \in DOMAIN quotes' : quotes'[n] = quotes'[k] => n = k
      BY <1>2, <3>1, <3>3, <3>4
    <3>7. Days(quotes) \subseteq Days(quotes')
      BY <3>3, <3>5 DEF Days
    <3> QED
      BY <3>3, <3>6, <3>7 DEF N
  <2> QED
    BY <2>1, <2>2
<1>4. \A v \in Passes : pass'[v] = IF v = w THEN [step |-> "ingested"] ELSE pass[v]
  BY <1>1, <1>2
<1>5. DOMAIN pass' = Passes
  BY <1>1, <1>2
<1>6. PassesSound'
  <2> SUFFICES ASSUME NEW v \in Passes, pass'[v].step = "valuing"
               PROVE  /\ pass'[v].day \in Days(quotes')
                      /\ pass'[v].seen \in Nat /\ pass'[v].seen <= Len(quotes')
                      /\ pass'[v].seen = Len(quotes') => pass'[v].day = LatestQuote'
    BY DEF PassesSound
  <2>1. v # w /\ pass'[v] = pass[v]
    BY <1>4
  <2>2. /\ pass[v].day \in Days(quotes) /\ pass[v].seen \in Nat /\ pass[v].seen <= Len(quotes)
        /\ pass[v].seen = Len(quotes) => pass[v].day = LatestQuote
    BY <2>1 DEF FqInv, PassesSound
  <2>3. CASE quotes' = quotes
    BY <2>1, <2>2, <2>3 DEF LatestQuote
  <2>4. CASE Len(quotes') = Len(quotes) + 1
    BY <1>2, <1>3, <2>1, <2>2, <2>4
  <2> QED
    BY <1>3, <2>3, <2>4
<1>7. DOMAIN valuations \subseteq Days(quotes')
  BY <1>2, <1>3
<1>8. FqTypeOK'
  BY <1>1, <1>3, <1>5, <1>7 DEF FqInv, FqTypeOK, Days
<1>9. MovingSound'
  BY <1>1, MovingStays DEF FqInv
<1>10. VariationsAddUp'
  BY <1>1 DEF FqInv, VariationsAddUp
<1> QED
  BY <1>1, <1>6, <1>8, <1>9, <1>10 DEF FqInv

(* A day is valued after all that were.                                     *)
LEMMA HouseholdValued ==
  ASSUME FqInv, NEW w \in Passes, ValueHousehold(w)
  PROVE  FqInv'
<1> DEFINE date == pass[w].day
<1>1. /\ UNCHANGED <<published, quotes, positions, heartbeat, moving>>
      /\ pass' = [pass EXCEPT ![w] = [step |-> "valued"]]
      /\ pass[w].step = "valuing"
      /\ IF date \in DOMAIN valuations THEN UNCHANGED <<valuations, unordered>>
         ELSE /\ valuations' = [d \in DOMAIN valuations \cup {date} |->
                  IF d = date THEN ValuationOf(date, pass[w].units) ELSE valuations[d]]
              /\ unordered' = IF Len(quotes) # pass[w].seen
                              THEN unordered \cup {"overtaken"} ELSE unordered
  BY DEF ValueHousehold
<1>2. PassesSound' /\ DOMAIN pass' = Passes
  <2>1. [step |-> "valued"].step # "valuing"
    OBVIOUS
  <2> QED
    BY <1>1, <2>1, PassMoves
<1>3. /\ quotes \in Seq(QuotaDays) /\ DOMAIN valuations \subseteq Days(quotes)
      /\ date \in Days(quotes)
      /\ pass[w].seen = Len(quotes) => date = LatestQuote
  BY <1>1 DEF FqInv, FqTypeOK, Days, PassesSound
<1>4. DOMAIN valuations' \subseteq Days(quotes)
  BY <1>1, <1>3
<1>5. unordered' \subseteq {"backdated", "overlap", "overtaken"} /\ unordered \subseteq unordered'
      /\ unordered' \subseteq unordered \cup {"overtaken"}
  BY <1>1 DEF FqInv, FqTypeOK
<1>6. FqTypeOK'
  BY <1>1, <1>2, <1>4, <1>5 DEF FqInv, FqTypeOK, Days
<1>7. MovingSound'
  BY <1>1, MovingStays DEF FqInv
<1>8. VariationsAddUp'
  <2>1. CASE date \in DOMAIN valuations
    BY <1>1, <2>1 DEF FqInv, VariationsAddUp
  <2>2. CASE date \notin DOMAIN valuations
    <3> SUFFICES ASSUME "overtaken" \notin unordered' PROVE VariationsAddUp'
      BY DEF VariationsAddUp
    <3> DEFINE V == DOMAIN valuations
               Before(S, d) == {e \in S : e < d}
    <3>1. /\ date = LatestQuote /\ "overtaken" \notin unordered
          /\ \A d \in V : valuations[d].before =
               IF Before(V, d) = {} THEN Nothing ELSE valuations[Greatest(Before(V, d))].gross
      BY <1>1, <1>3, <2>2 DEF FqInv, VariationsAddUp
    <3>2. quotes # <<>> /\ Days(quotes) \in SUBSET QuotaDays /\ V \subseteq QuotaDays
          /\ QuotaDays \subseteq Nat /\ \A d \in V : d <= date /\ d # date
      <4>1. quotes # <<>>
        BY <1>3 DEF Days
      <4>2. QuotaDays \subseteq Nat
        BY FundDays DEF QuotaDays
      <4> QED
        BY <1>3, <2>2, <3>1, <4>1, <4>2, LatestQuoteIs
    <3>3. date \in Nat /\ \A d \in V : d \in Nat /\ d < date
      <4>1. date \in Nat
        BY <1>3, <3>2
      <4> HIDE DEF date
      <4>2. ASSUME NEW d \in V PROVE d \in Nat /\ d < date
        <5>1. d \in Nat /\ d <= date /\ d # date
          BY <3>2
        <5> QED
          BY <4>1, <5>1
      <4> QED
        BY <4>1, <4>2
    <3>4. /\ DOMAIN valuations' = V \cup {date}
          /\ valuations'[date] = ValuationOf(date, pass[w].units)
          /\ \A d \in V : valuations'[d] = valuations[d]
      BY <1>1, <2>2
    <3>5. Before(V \cup {date}, date) = V /\ \A d \in V : Before(V \cup {date}, d) = Before(V, d)
      BY <3>3
    <3>6. \A d \in V : Before(V, d) \in SUBSET QuotaDays /\ Before(V, d) \subseteq V
      BY <3>2
    <3>7. valuations'[date].before = IF V = {} THEN Nothing ELSE valuations[Greatest(V)].gross
      BY <3>4 DEF ValuationOf, LatestValuation
    <3>8. V # {} => Greatest(V) \in V
      BY <3>2, GreatestIs
    <3>9. \A d \in V : Before(V, d) # {} => Greatest(Before(V, d)) \in V
      BY <3>6, GreatestIs
    <3> HIDE DEF V, Before, date
    <3>10. \A d \in V \cup {date} : valuations'[d].before =
              IF Before(V \cup {date}, d) = {} THEN Nothing
              ELSE valuations'[Greatest(Before(V \cup {date}, d))].gross
      <4> SUFFICES ASSUME NEW d \in V \cup {date}
                   PROVE  valuations'[d].before =
                            IF Before(V \cup {date}, d) = {} THEN Nothing
                            ELSE valuations'[Greatest(Before(V \cup {date}, d))].gross
        OBVIOUS
      <4>1. CASE d = date
        BY <3>4, <3>5, <3>7, <3>8, <4>1
      <4>2. CASE d \in V
        <5>1. valuations'[d].before = valuations[d].before
          BY <3>4, <4>2
        <5>2. Before(V, d) # {} =>
                valuations'[Greatest(Before(V, d))] = valuations[Greatest(Before(V, d))]
          BY <3>4, <3>9, <4>2
        <5> QED
          BY <3>1, <3>5, <4>2, <5>1, <5>2
      <4> QED
        BY <4>1, <4>2
    <3> QED
      BY <3>4, <3>10 DEF VariationsAddUp, V, Before
  <2> QED
    BY <2>1, <2>2
<1>9. /\ "backdated" \notin unordered' => InDayOrder(positions)
      /\ unordered' \cap {"backdated", "overlap"} = {} => FollowsOn(positions)
  BY <1>5 DEF FqInv
<1> QED
  BY <1>1, <1>2, <1>6, <1>7, <1>8, <1>9 DEF FqInv

(* A row is recorded: in the order of days unless backdated, and from the   *)
(* row before it if it is a movement that read that row.                    *)
LEMMA RowRecorded ==
  ASSUME FqInv, NEW row \in PositionRow, Recorded(row),
         unordered \subseteq unordered', Backdated(row.day) \subseteq unordered',
         unordered' \subseteq {"backdated", "overlap", "overtaken"},
         "overtaken" \in unordered' => "overtaken" \in unordered,
         row.delta # 0 /\ "overlap" \notin unordered' =>
            positions # <<>> /\ row.units = LatestPosition.units + row.delta,
         UNCHANGED <<published, quotes, valuations, pass, heartbeat>>,
         moving' = NoMove \/ moving' = moving
  PROVE  FqInv'
<1> DEFINE N == Len(positions)
<1>1. positions \in Seq(PositionRow) /\ positions' = Append(positions, row)
  BY DEF FqInv, Recorded
<1>2. /\ N \in Nat /\ DOMAIN positions = 1 .. N
      /\ positions' \in Seq(PositionRow) /\ Len(positions') = N + 1
      /\ DOMAIN positions' = 1 .. N + 1
      /\ positions'[N + 1] = row /\ \A n \in 1 .. N : positions'[n] = positions[n]
  BY <1>1, PositionRows, AppendProperties
<1>3. /\ \A n \in 1 .. N + 1 : n \in Nat /\ (n = N + 1 \/ n \in 1 .. N)
      /\ \A n \in 1 .. N : n \in 1 .. N + 1
      /\ \A n \in DOMAIN positions : positions[n].day \in Nat /\ positions[n].units \in Nat
      /\ row.day \in Nat /\ row.delta \in Int /\ row.units \in Nat
  <2>1. \A n \in DOMAIN positions : positions[n].day \in Nat /\ positions[n].units \in Nat
    BY <1>1, PositionRows
  <2>2. row.day \in QuotaDays /\ row.delta \in Int /\ row.units \in Nat
    BY DEF PositionRow
  <2>3. row.day \in Nat
    BY <2>2, FundDays DEF QuotaDays
  <2> QED
    BY <1>2, <2>1, <2>2, <2>3
<1>4. \A n \in DOMAIN positions' : positions'[n].units \in Nat /\ positions'[n].day \in QuotaDays
  BY <1>2, PositionRows
<1>5. moving'.delta \in Deltas \cup {0}
  BY DEF FqInv, FqTypeOK, NoMove
<1>6. FqTypeOK'
  BY <1>4, <1>5 DEF FqInv, FqTypeOK
<1>7. MovingSound'
  <2>1. CASE moving' = NoMove
    BY <2>1 DEF MovingSound
  <2>2. CASE moving' = moving
    <3>1. moving = NoMove \/ (/\ moving \in [delta : Deltas, day : QuotaDays, units : Nat, seen : Nat]
                              /\ moving.units + moving.delta >= 0
                              /\ moving.seen <= N)
      BY DEF FqInv, MovingSound
    <3>2. moving \in [delta : Deltas, day : QuotaDays, units : Nat, seen : Nat] /\ moving.seen <= N
             => moving.seen <= N + 1 /\ moving.seen # N + 1
      BY <1>2
    <3> QED
      BY <1>2, <2>2, <3>1, <3>2 DEF MovingSound
  <2> QED
    BY <2>1, <2>2
<1>8. PassesSound' /\ VariationsAddUp'
  BY DEF FqInv, PassesSound, LatestQuote, VariationsAddUp
<1>9. "backdated" \notin unordered' =>
         InDayOrder(positions) /\ InDayOrder(positions')
         /\ \A n \in DOMAIN positions : positions[n].day <= row.day
  <2> SUFFICES ASSUME "backdated" \notin unordered'
               PROVE  InDayOrder(positions) /\ InDayOrder(positions')
                      /\ \A n \in DOMAIN positions : positions[n].day <= row.day
    OBVIOUS
  <2>1. InDayOrder(positions)
    BY DEF FqInv
  <2>2. \A n \in DOMAIN positions : ~(positions[n].day > row.day)
    BY DEF Backdated
  <2>3. \A n \in DOMAIN positions : positions[n].day <= row.day
    BY <1>3, <2>2
  <2>4. \A k, n \in DOMAIN positions' : k <= n => positions'[k].day <= positions'[n].day
    <3> SUFFICES ASSUME NEW k \in DOMAIN positions', NEW n \in DOMAIN positions', k <= n
                 PROVE  positions'[k].day <= positions'[n].day
      OBVIOUS
    <3>1. CASE n \in 1 .. N
      <4>1. k \in 1 .. N
        BY <1>2, <1>3, <3>1
      <4> QED
        BY <1>2, <2>1, <3>1, <4>1 DEF InDayOrder
    <3>2. CASE n = N + 1 /\ k \in 1 .. N
      BY <1>2, <2>3, <3>2
    <3>3. CASE n = N + 1 /\ k = N + 1
      BY <1>2, <1>3, <3>3
    <3> QED
      BY <1>2, <1>3, <3>1, <3>2, <3>3
  <2> QED
    BY <2>1, <2>3, <2>4 DEF InDayOrder
<1>10. ASSUME unordered' \cap {"backdated", "overlap"} = {} PROVE FollowsOn(positions')
  <2>1. FollowsOn(positions) /\ InDayOrder(positions)
    BY <1>9, <1>10 DEF FqInv
  <2>2. row.delta # 0 => N \in 1 .. N /\ row.units = positions[N].units + row.delta
    <3> SUFFICES ASSUME row.delta # 0
                 PROVE  N \in 1 .. N /\ row.units = positions[N].units + row.delta
      OBVIOUS
    <3>1. positions # <<>> /\ row.units = LatestPosition.units + row.delta
      BY <1>10
    <3>2. LatestPosition = positions[N]
      BY <1>1, <2>1, <3>1, LatestPositionIsLast
    <3> QED
      BY <1>1, <1>2, <3>1, <3>2
  <2> SUFFICES ASSUME NEW n \in DOMAIN positions', positions'[n].delta # 0
               PROVE  /\ n - 1 \in DOMAIN positions'
                      /\ positions'[n].units = positions'[n - 1].units + positions'[n].delta
    BY DEF FollowsOn
  <2>3. CASE n \in 1 .. N
    <3>1. n - 1 \in 1 .. N /\ positions[n].units = positions[n - 1].units + positions[n].delta
      BY <1>2, <2>1, <2>3 DEF FollowsOn
    <3> QED
      BY <1>2, <1>3, <2>3, <3>1
  <2>4. CASE n = N + 1
    <3>1. n - 1 = N /\ N \in 1 .. N /\ row.units = positions[N].units + row.delta
      BY <1>2, <2>2, <2>4
    <3> QED
      BY <1>2, <1>3, <2>4, <3>1
  <2> QED
    BY <1>2, <1>3, <2>3, <2>4
<1> QED
  BY <1>2, <1>6, <1>7, <1>8, <1>9, <1>10 DEF FqInv

LEMMA SnapshotRecorded ==
  ASSUME FqInv, NEW date \in QuotaDays, NEW units \in Holdings, RecordSnapshot(units, date)
  PROVE  FqInv'
<1> DEFINE row == [units |-> units, day |-> date, delta |-> 0]
<1>1. row \in PositionRow /\ row.day = date /\ row.delta = 0
  BY FundUnits DEF PositionRow
<1>2. Recorded(row) /\ unordered' = unordered \cup Backdated(date)
      /\ UNCHANGED <<published, quotes, valuations, pass, heartbeat, moving>>
  BY DEF RecordSnapshot
<1> HIDE DEF row
<1>3. Backdated(row.day) = Backdated(date) /\ Backdated(date) \subseteq {"backdated"}
  BY <1>1 DEF Backdated
<1>4. unordered \subseteq {"backdated", "overlap", "overtaken"}
  BY DEF FqInv, FqTypeOK
<1> QED
  BY <1>1, <1>2, <1>3, <1>4, RowRecorded

LEMMA MovementRecorded ==
  ASSUME FqInv, NEW date \in QuotaDays, NEW delta \in Deltas, RecordMovement(delta, date)
  PROVE  FqInv'
<1> DEFINE row == [units |-> LatestPosition.units + delta, day |-> date, delta |-> delta]
<1>1. positions # <<>> /\ positions \in Seq(PositionRow) /\ Applies(delta, LatestPosition)
  BY DEF RecordMovement, FqInv
<1>2. LatestPosition.units \in Nat
  BY <1>1, LatestPositionIs, PositionRows
<1>3. LatestPosition.units + delta \in Nat /\ delta \in Int /\ delta # 0
  BY <1>1, <1>2, FundUnits DEF Applies
<1>4. row \in PositionRow /\ row.day = date /\ row.delta = delta
      /\ row.units = LatestPosition.units + delta
  BY <1>3 DEF PositionRow
<1>5. Recorded(row) /\ unordered' = unordered \cup Backdated(date)
      /\ UNCHANGED <<published, quotes, valuations, pass, heartbeat, moving>>
  BY DEF RecordMovement
<1> HIDE DEF row
<1>6. Backdated(row.day) = Backdated(date) /\ Backdated(date) \subseteq {"backdated"}
  BY <1>4 DEF Backdated
<1>7. unordered \subseteq {"backdated", "overlap", "overtaken"}
  BY DEF FqInv, FqTypeOK
<1> QED
  BY <1>1, <1>4, <1>5, <1>6, <1>7, RowRecorded

LEMMA PositionRead ==
  ASSUME FqInv, NEW date \in QuotaDays, NEW delta \in Deltas, ReadPosition(delta, date)
  PROVE  FqInv'
<1>1. /\ positions # <<>> /\ positions \in Seq(PositionRow) /\ Applies(delta, LatestPosition)
      /\ moving' = [delta |-> delta, day |-> date, units |-> LatestPosition.units,
                    seen |-> Len(positions)]
      /\ UNCHANGED <<published, quotes, positions, valuations, pass, heartbeat, unordered>>
  BY DEF ReadPosition, FqInv
<1>2. LatestPosition.units \in Nat /\ Len(positions) \in Nat
  BY <1>1, LatestPositionIs, PositionRows
<1>3. LatestPosition' = LatestPosition
  BY <1>1 DEF LatestPosition
<1>4. MovingSound'
  BY <1>1, <1>2, <1>3, FundUnits DEF MovingSound, Applies
<1>5. FqTypeOK'
  BY <1>1 DEF FqInv, FqTypeOK
<1>6. PassesSound' /\ VariationsAddUp'
  BY <1>1 DEF FqInv, PassesSound, LatestQuote, VariationsAddUp
<1> QED
  BY <1>1, <1>4, <1>5, <1>6 DEF FqInv

LEMMA PositionWritten == FqInv /\ WritePosition => FqInv'
<1> SUFFICES ASSUME FqInv, WritePosition PROVE FqInv'
  OBVIOUS
<1> DEFINE row == [units |-> moving.units + moving.delta, day |-> moving.day,
                   delta |-> moving.delta]
<1>1. /\ moving \in [delta : Deltas, day : QuotaDays, units : Nat, seen : Nat]
      /\ moving.units + moving.delta >= 0
      /\ moving.seen = Len(positions) => positions # <<>> /\ moving.units = LatestPosition.units
  BY DEF WritePosition, FqInv, MovingSound
<1>2. /\ Recorded(row) /\ moving' = NoMove
      /\ UNCHANGED <<published, quotes, valuations, pass, heartbeat>>
      /\ unordered' = unordered \cup Backdated(moving.day)
            \cup (IF Len(positions) # moving.seen THEN {"overlap"} ELSE {})
  BY DEF WritePosition
<1>3. row \in PositionRow /\ row.day = moving.day /\ row.delta = moving.delta
      /\ row.units = moving.units + moving.delta
  <2>1. moving.units + moving.delta \in Nat /\ moving.delta \in Int /\ moving.day \in QuotaDays
    <3>1. moving.delta \in Deltas /\ moving.day \in QuotaDays /\ moving.units \in Nat
      BY <1>1
    <3>2. moving.delta \in Int
      BY <3>1, FundUnits
    <3> QED
      BY <1>1, <3>1, <3>2
  <2> QED
    BY <2>1 DEF PositionRow
<1> HIDE DEF row
<1>4. Backdated(row.day) \subseteq {"backdated"} /\ Backdated(row.day) = Backdated(moving.day)
  BY <1>3 DEF Backdated
<1>5. unordered \subseteq {"backdated", "overlap", "overtaken"}
  BY DEF FqInv, FqTypeOK
<1>6. "overlap" \notin unordered' =>
         positions # <<>> /\ row.units = LatestPosition.units + row.delta
  BY <1>1, <1>2, <1>3
<1> QED
  BY <1>2, <1>3, <1>4, <1>5, <1>6, RowRecorded

LEMMA FqStep == FqInv /\ [FqNext]_fqVars => FqInv'
<1> SUFFICES ASSUME FqInv, [FqNext]_fqVars PROVE FqInv'
  OBVIOUS
<1>1. CASE UNCHANGED fqVars
  <2>1. MovingSound' /\ PassesSound' /\ VariationsAddUp' /\ FqTypeOK'
    <3>1. UNCHANGED <<published, quotes, positions, valuations, pass, heartbeat, moving, unordered>>
      BY <1>1 DEF fqVars
    <3>2. MovingSound'
      BY <3>1, MovingStays DEF FqInv
    <3>3. PassesSound' /\ VariationsAddUp'
      BY <3>1 DEF FqInv, PassesSound, LatestQuote, VariationsAddUp
    <3>4. FqTypeOK'
      BY <3>1 DEF FqInv, FqTypeOK
    <3> QED
      BY <3>2, <3>3, <3>4
  <2> QED
    BY <1>1, <2>1 DEF fqVars, FqInv
<1> QED
  BY <1>1, PublishedQuota, OtherPass, QuoteIngested, HouseholdValued, SnapshotRecorded,
     MovementRecorded, PositionRead, PositionWritten DEF FqNext

(* However quotas are published, passes overlap, fail or are killed, and    *)
(* movements are recorded: the units are those of the last statement and    *)
(* every movement since unless a row was backdated or two movements         *)
(* overlapped, and each valuation varies from the last valued day before it *)
(* unless a pass was overtaken between two of its reads                     *)
(* (services/privilege_valuation.py).                                       *)
THEOREM HoldingsFollow == FqSpec => []HoldingsAddUp
<1>1. FqInv => HoldingsAddUp
  <2> SUFFICES ASSUME FqInv PROVE HoldingsAddUp
    OBVIOUS
  <2>1. UnitsFollowTheMovements
    BY LatestPositionIsLast, ReckonedIsLast DEF FqInv, UnitsFollowTheMovements
  <2> QED
    BY <2>1 DEF FqInv, HoldingsAddUp
<1> QED
  BY <1>1, FqStart, FqStep, PTL DEF FqSpec

-----------------------------------------------------------------------------
(* Sums over finite sets, as the projection takes them.                     *)
(* Of some finite sets one has none of the others below it: what holds of   *)
(* every set is shown of a smallest one it would fail of.                   *)
LEMMA SmallestSet ==
  ASSUME NEW S, IsFiniteSet(S), NEW Bad \in SUBSET (SUBSET S), Bad # {}
  PROVE  \E s \in Bad : \A t \in Bad : t \subseteq s => t = s
<1> DEFINE sizes == {Cardinality(s) : s \in Bad}
<1>1. \A s \in SUBSET S : IsFiniteSet(s) /\ Cardinality(s) \in Nat
  BY FS_Subset, FS_CardinalityType
<1>2. sizes \in SUBSET Nat /\ sizes # {}
  BY <1>1
<1>3. PICK n \in sizes : \A k \in sizes : n <= k
  <2> HIDE DEF sizes
  <2> QED
    BY <1>2, LeastNumber
<1>4. PICK s \in Bad : n = Cardinality(s)
  BY <1>3
<1>5. ASSUME NEW t \in Bad, t \subseteq s PROVE t = s
  <2>1. Cardinality(s) <= Cardinality(t)
    BY <1>3, <1>4
  <2>2. Cardinality(t) <= Cardinality(s) /\ (Cardinality(t) = Cardinality(s) => t = s)
    BY <1>1, <1>5, FS_Subset
  <2> QED
    BY <1>1, <2>1, <2>2
<1> QED
  BY <1>5

First(s) == CHOOSE x \in s : TRUE
SumTable(g, f, S) ==
    g = [s \in SUBSET S |-> IF s = {} THEN 0 ELSE f[First(s)] + g[s \ {First(s)}]]

LEMMA FirstIsIn == ASSUME NEW s, s # {} PROVE First(s) \in s
  BY DEF First

LEMMA SumTableExists ==
  ASSUME NEW S, IsFiniteSet(S), NEW f
  PROVE  \E g : SumTable(g, f, S)
<1> DEFINE N == Cardinality(S)
           Small(n) == {s \in SUBSET S : Cardinality(s) <= n}
           Is(g, n) == \A s \in Small(n) :
                          g[s] = IF s = {} THEN 0 ELSE f[First(s)] + g[s \ {First(s)}]
           Bad == {n \in 0 .. N : ~ \E g : Is(g, n)}
<1>1. N \in Nat /\ \A s \in SUBSET S : IsFiniteSet(s) /\ Cardinality(s) \in Nat /\ Cardinality(s) <= N
  BY FS_Subset, FS_CardinalityType
<1>2. \A s \in SUBSET S : s # {} =>
         /\ First(s) \in s /\ s \ {First(s)} \in SUBSET S
         /\ Cardinality(s \ {First(s)}) = Cardinality(s) - 1
  <2> SUFFICES ASSUME NEW s \in SUBSET S, s # {}
               PROVE  /\ First(s) \in s /\ s \ {First(s)} \in SUBSET S
                      /\ Cardinality(s \ {First(s)}) = Cardinality(s) - 1
    OBVIOUS
  <2>1. First(s) \in s
    BY FirstIsIn
  <2> QED
    BY <1>1, <2>1, FS_RemoveElement
<1>3. Bad = {}
  <2> SUFFICES ASSUME Bad # {} PROVE FALSE
    OBVIOUS
  <2>1. PICK m \in Bad : \A k \in Bad : m <= k
    <3>1. Bad \in SUBSET Nat
      BY <1>1
    <3> HIDE DEF Bad
    <3> QED
      BY <3>1, LeastNumber
  <2>2. m \in 0 .. N /\ m \in Nat
    BY <1>1
  <2>3. CASE m = 0
    <3> DEFINE g == [s \in SUBSET S |-> 0]
    <3>1. \A s \in Small(m) : s = {}
      BY <1>1, <2>3, FS_EmptySet
    <3>2. Is(g, m)
      BY <3>1
    <3> QED
      BY <3>2
  <2>4. CASE m # 0
    <3>1. m - 1 \in 0 .. N /\ m - 1 \notin Bad
      <4>1. m - 1 \in Bad => m <= m - 1
        BY <2>1
      <4> HIDE DEF Bad
      <4> QED
        BY <1>1, <2>2, <2>4, <4>1
    <3>2. PICK h : Is(h, m - 1)
      BY <3>1
    <3> DEFINE g == [s \in SUBSET S |-> IF Cardinality(s) <= m - 1 THEN h[s]
                                        ELSE f[First(s)] + h[s \ {First(s)}]]
    <3>3. ASSUME NEW s \in Small(m)
          PROVE  g[s] = IF s = {} THEN 0 ELSE f[First(s)] + g[s \ {First(s)}]
      <4> DEFINE c == Cardinality(s)
      <4>1. s \in SUBSET S /\ c \in Nat /\ c <= m
        BY <1>1
      <4>2. CASE s = {}
        <5>1. c = 0
          BY <4>2, FS_EmptySet
        <5>2. s \in Small(m - 1) /\ c <= m - 1
          BY <2>2, <2>4, <4>1, <5>1
        <5>3. g[s] = h[s]
          BY <4>1, <5>2
        <5> QED
          BY <3>2, <4>2, <5>2, <5>3
      <4>3. CASE s # {}
        <5> DEFINE u == s \ {First(s)}
        <5>1. u \in SUBSET S /\ Cardinality(u) = c - 1
          BY <1>2, <4>1, <4>3
        <5>2. g[u] = h[u]
          BY <2>2, <4>1, <5>1
        <5>3. CASE c <= m - 1
          <6>1. s \in Small(m - 1)
            BY <4>1, <5>3
          <6>2. g[s] = h[s]
            BY <4>1, <5>3
          <6>3. h[s] = f[First(s)] + h[u]
            BY <3>2, <4>3, <6>1
          <6> QED
            BY <4>3, <5>2, <6>2, <6>3
        <5>4. CASE ~ (c <= m - 1)
          <6>1. g[s] = f[First(s)] + h[u]
            BY <4>1, <5>4
          <6> QED
            BY <4>3, <5>2, <6>1
        <5> QED
          BY <5>3, <5>4
      <4> QED
        BY <4>2, <4>3
    <3>4. Is(g, m)
      <4> HIDE DEF g
      <4> QED
        BY <3>3
    <3> HIDE DEF g, Is
    <3> QED
      BY <3>4
  <2> QED
    BY <2>3, <2>4
<1>4. PICK h : Is(h, N)
  <2>1. N \in 0 .. N
    BY <1>1
  <2> HIDE DEF N, Is
  <2> QED
    BY <1>3, <2>1
<1> DEFINE g == [s \in SUBSET S |-> h[s]]
<1>5. ASSUME NEW s \in SUBSET S
      PROVE  g[s] = IF s = {} THEN 0 ELSE f[First(s)] + g[s \ {First(s)}]
  <2>1. s \in Small(N)
    BY <1>1
  <2>2. h[s] = IF s = {} THEN 0 ELSE f[First(s)] + h[s \ {First(s)}]
    BY <1>4, <2>1
  <2> QED
    BY <2>2
<1>6. SumTable(g, f, S)
  BY <1>5 DEF SumTable
<1> QED
  BY <1>6

LEMMA SumIsTabled ==
  ASSUME NEW S, IsFiniteSet(S), NEW f
  PROVE  \E g : SumTable(g, f, S) /\ SumOf(f, S) = g[S]
<1> DEFINE iter == CHOOSE h : SumTable(h, f, S)
<1>1. SumOf(f, S) = iter[S]
  BY DEF SumOf, MapThenSumSet, MapThenFoldSet, SumTable, First
<1>2. SumTable(iter, f, S)
  BY SumTableExists
<1> QED
  BY <1>1, <1>2

(* What a sum is: nothing of nothing, and of others the value of one and    *)
(* the sum of the rest.                                                     *)
LEMMA SumOfNothing == ASSUME NEW f PROVE SumOf(f, {}) = 0
<1>1. PICK g : SumTable(g, f, {}) /\ SumOf(f, {}) = g[{}]
  BY FS_EmptySet, SumIsTabled
<1> QED
  BY <1>1 DEF SumTable

LEMMA SumTablesAgree ==
  ASSUME NEW S, IsFiniteSet(S), NEW T, S \subseteq T, NEW f, NEW e, \A x \in S : f[x] = e[x],
         NEW g, SumTable(g, f, S), NEW h, SumTable(h, e, T)
  PROVE  g[S] = h[S]
<1> DEFINE Bad == {s \in SUBSET S : g[s] # h[s]}
<1> SUFFICES ASSUME Bad # {} PROVE FALSE
  OBVIOUS
<1>1. PICK s \in Bad : \A t \in Bad : t \subseteq s => t = s
  <2>1. Bad \in SUBSET (SUBSET S)
    OBVIOUS
  <2> HIDE DEF Bad
  <2> QED
    BY <2>1, SmallestSet
<1>2. s \in SUBSET S /\ s \in SUBSET T
  OBVIOUS
<1>3. /\ g[s] = IF s = {} THEN 0 ELSE f[First(s)] + g[s \ {First(s)}]
      /\ h[s] = IF s = {} THEN 0 ELSE e[First(s)] + h[s \ {First(s)}]
  BY <1>2 DEF SumTable
<1>4. CASE s = {}
  BY <1>3, <1>4
<1>5. CASE s # {}
  <2>1. First(s) \in s
    BY <1>5, FirstIsIn
  <2>2. s \ {First(s)} \notin Bad /\ s \ {First(s)} \in SUBSET S
    BY <1>1, <1>2, <2>1
  <2> QED
    BY <1>2, <1>3, <1>5, <2>1, <2>2
<1> QED
  BY <1>4, <1>5

LEMMA SumsOfSame ==
  ASSUME NEW S, IsFiniteSet(S), NEW f, NEW e, \A x \in S : f[x] = e[x]
  PROVE  SumOf(f, S) = SumOf(e, S)
<1>1. PICK g : SumTable(g, f, S) /\ SumOf(f, S) = g[S]
  BY SumIsTabled
<1>2. PICK h : SumTable(h, e, S) /\ SumOf(e, S) = h[S]
  BY SumIsTabled
<1> QED
  BY <1>1, <1>2, SumTablesAgree

LEMMA SumTakesFirst ==
  ASSUME NEW S, IsFiniteSet(S), S # {}, NEW f
  PROVE  SumOf(f, S) = f[First(S)] + SumOf(f, S \ {First(S)})
<1> DEFINE T == S \ {First(S)}
<1>1. IsFiniteSet(T) /\ T \subseteq S /\ T \in SUBSET S
  BY FS_Subset
<1> HIDE DEF T
<1>2. PICK g : SumTable(g, f, S) /\ SumOf(f, S) = g[S]
  BY SumIsTabled
<1>3. PICK h : SumTable(h, f, T) /\ SumOf(f, T) = h[T]
  BY <1>1, SumIsTabled
<1>4. h[T] = g[T]
  BY <1>1, <1>2, <1>3, SumTablesAgree
<1>5. g[S] = f[First(S)] + g[T]
  BY <1>2 DEF SumTable, T
<1> QED
  BY <1>2, <1>3, <1>4, <1>5 DEF T

LEMMA SumIsNat ==
  ASSUME NEW S, IsFiniteSet(S), NEW f, \A x \in S : f[x] \in Nat
  PROVE  SumOf(f, S) \in Nat
<1> DEFINE Bad == {s \in SUBSET S : SumOf(f, s) \notin Nat}
<1> SUFFICES ASSUME Bad # {} PROVE FALSE
  OBVIOUS
<1>1. PICK s \in Bad : \A t \in Bad : t \subseteq s => t = s
  <2>1. Bad \in SUBSET (SUBSET S)
    OBVIOUS
  <2> HIDE DEF Bad
  <2> QED
    BY <2>1, SmallestSet
<1>2. IsFiniteSet(s)
  BY FS_Subset
<1>0. s # {}
  <2>1. SumOf(f, s) # 0
    OBVIOUS
  <2> QED
    BY <2>1, SumOfNothing
<1>3. First(s) \in s /\ SumOf(f, s) = f[First(s)] + SumOf(f, s \ {First(s)})
  BY <1>0, <1>2, FirstIsIn, SumTakesFirst
<1>4. SumOf(f, s \ {First(s)}) \in Nat
  BY <1>1, <1>3
<1> QED
  BY <1>3, <1>4

LEMMA SumTakesAny ==
  ASSUME NEW S, IsFiniteSet(S), NEW f, \A x \in S : f[x] \in Nat, NEW a \in S
  PROVE  SumOf(f, S) = f[a] + SumOf(f, S \ {a})
<1> DEFINE Fails(s) == \E b \in s : SumOf(f, s) # f[b] + SumOf(f, s \ {b})
           Bad == {s \in SUBSET S : Fails(s)}
<1> SUFFICES ASSUME Bad # {} PROVE FALSE
  OBVIOUS
<1>1. PICK s \in Bad : \A t \in Bad : t \subseteq s => t = s
  <2>1. Bad \in SUBSET (SUBSET S)
    OBVIOUS
  <2> HIDE DEF Bad
  <2> QED
    BY <2>1, SmallestSet
<1>2. PICK b \in s : SumOf(f, s) # f[b] + SumOf(f, s \ {b})
  OBVIOUS
<1>3. s \in SUBSET S /\ s # {} /\ \A t \in SUBSET s : IsFiniteSet(t) /\ SumOf(f, t) \in Nat
  BY FS_Subset, SumIsNat
<1> DEFINE x == First(s)
<1>4. x \in s /\ SumOf(f, s) = f[x] + SumOf(f, s \ {x}) /\ x # b
  BY <1>2, <1>3, FirstIsIn, SumTakesFirst
<1> HIDE DEF x, Fails
<1>5. ~ Fails(s \ {x}) /\ ~ Fails(s \ {b})
  BY <1>1, <1>2, <1>3, <1>4
<1>6. SumOf(f, s \ {x}) = f[b] + SumOf(f, (s \ {x}) \ {b})
  BY <1>2, <1>4, <1>5 DEF Fails
<1>7. SumOf(f, s \ {b}) = f[x] + SumOf(f, (s \ {b}) \ {x})
  BY <1>2, <1>4, <1>5 DEF Fails
<1>8. (s \ {x}) \ {b} = (s \ {b}) \ {x}
  OBVIOUS
<1>9. f[x] \in Nat /\ f[b] \in Nat /\ SumOf(f, (s \ {x}) \ {b}) \in Nat
  BY <1>2, <1>3, <1>4
<1> QED
  BY <1>2, <1>4, <1>6, <1>7, <1>8, <1>9

LEMMA SumWithOne ==
  ASSUME NEW S, IsFiniteSet(S), NEW a, a \notin S, NEW f, \A x \in S : f[x] \in Nat, f[a] \in Nat
  PROVE  SumOf(f, S \cup {a}) = SumOf(f, S) + f[a]
<1> DEFINE T == S \cup {a}
<1>1. IsFiniteSet(T) /\ a \in T /\ T \ {a} = S /\ \A x \in T : f[x] \in Nat
  BY FS_AddElement
<1>2. SumOf(f, S) \in Nat
  BY SumIsNat
<1> HIDE DEF T
<1>3. SumOf(f, T) = f[a] + SumOf(f, T \ {a})
  BY <1>1, SumTakesAny
<1> QED
  BY <1>1, <1>2, <1>3 DEF T

LEMMA SumOfBoth ==
  ASSUME NEW S, IsFiniteSet(S), NEW T, IsFiniteSet(T), S \cap T = {},
         NEW f, \A x \in S \cup T : f[x] \in Nat
  PROVE  SumOf(f, S \cup T) = SumOf(f, S) + SumOf(f, T)
<1> DEFINE Fails(s) == SumOf(f, s \cup T) # SumOf(f, s) + SumOf(f, T)
           Bad == {s \in SUBSET S : Fails(s)}
<1> SUFFICES ASSUME Bad # {} PROVE FALSE
  OBVIOUS
<1>1. PICK s \in Bad : \A t \in Bad : t \subseteq s => t = s
  <2>1. Bad \in SUBSET (SUBSET S)
    OBVIOUS
  <2> HIDE DEF Bad
  <2> QED
    BY <2>1, SmallestSet
<1>2. \A t \in SUBSET S : IsFiniteSet(t) /\ IsFiniteSet(t \cup T) /\ SumOf(f, t) \in Nat
                          /\ SumOf(f, t \cup T) \in Nat
  BY FS_Subset, FS_Union, SumIsNat
<1>3. SumOf(f, T) \in Nat
  BY SumIsNat
<1>4. s # {}
  <2> SUFFICES ASSUME s = {} PROVE FALSE
    OBVIOUS
  <2>1. SumOf(f, s) = 0 /\ s \cup T = T
    BY SumOfNothing
  <2> QED
    BY <1>3, <2>1
<1>5. PICK a \in s : TRUE
  BY <1>4
<1> DEFINE u == s \ {a}
<1>6. ~ Fails(u)
  <2> HIDE DEF Fails
  <2> QED
    BY <1>1
<1>7. SumOf(f, s) = f[a] + SumOf(f, u)
  BY <1>2, SumTakesAny
<1>8. SumOf(f, s \cup T) = f[a] + SumOf(f, u \cup T)
  <2>1. (s \cup T) \ {a} = u \cup T /\ a \in s \cup T
    OBVIOUS
  <2>2. SumOf(f, s \cup T) = f[a] + SumOf(f, (s \cup T) \ {a})
    BY <1>2, <2>1, SumTakesAny
  <2> QED
    BY <2>1, <2>2
<1>9. f[a] \in Nat /\ SumOf(f, u) \in Nat /\ SumOf(f, u \cup T) \in Nat
  BY <1>2
<1> HIDE DEF u
<1> QED
  BY <1>3, <1>6, <1>7, <1>8, <1>9

LEMMA SumGrows ==
  ASSUME NEW S, NEW T, IsFiniteSet(T), S \subseteq T, NEW f, \A x \in T : f[x] \in Nat
  PROVE  SumOf(f, S) <= SumOf(f, T)
<1> DEFINE R == T \ S
<1>1. IsFiniteSet(S) /\ IsFiniteSet(R) /\ S \cap R = {} /\ S \cup R = T
  BY FS_Subset
<1> HIDE DEF R
<1>2. SumOf(f, S \cup R) = SumOf(f, S) + SumOf(f, R)
  BY <1>1, SumOfBoth
<1>3. SumOf(f, S) \in Nat /\ SumOf(f, R) \in Nat
  BY <1>1, SumIsNat
<1>4. SumOf(f, T) = SumOf(f, S) + SumOf(f, R)
  BY <1>1, <1>2
<1> QED
  BY <1>3, <1>4

-----------------------------------------------------------------------------
(* The projection.  A month's snapshot adds up whatever came before it.     *)
Snapshots == [opening : Nat, debt : Nat, deposit : Nat, used : Nat, balance : Nat,
              deficit : Nat, confirmed : Nat \cup {NoAmount}, atStart : BOOLEAN,
              trusted : BOOLEAN]
AddsUp(s) ==
    /\ s.balance = 0 \/ s.deficit = 0
    /\ s.confirmed = NoAmount /\ (s.debt <= s.deposit \/ s.opening = 0) =>
           s.balance - s.deficit = s.opening - s.debt + s.deposit - s.used
PjInv == PjTypeOK /\ AddsUp(snapshot)

\* The position a month closes with, from what it opened with and what moved.
ClosesWith(p, opening, debt, deposit, used) ==
    /\ p.balance \in Nat /\ p.deficit \in Nat /\ (p.balance = 0 \/ p.deficit = 0)
    /\ debt <= deposit \/ opening = 0 =>
           p.balance - p.deficit = opening - debt + deposit - used

LEMMA RealisedAddsUp ==
  ASSUME NEW o \in Nat, NEW d \in Nat, NEW i \in Nat, NEW u \in Nat,
         NEW p, p = Realised(o, d, i, u)
  PROVE  ClosesWith(p, o, d, i, u)
<1>1. CASE d <= i
  <2> DEFINE raw == o + i - d - u
  <2>1. Smaller(d, i) = d /\ raw \in Int
    BY <1>1 DEF Smaller
  <2>2. Realised(o, d, i, u) = Position(Larger(raw, 0), Larger(-raw, 0), u)
    BY <2>1 DEF Realised
  <2> HIDE DEF raw
  <2>3. /\ Larger(raw, 0) \in Nat /\ Larger(-raw, 0) \in Nat
        /\ (Larger(raw, 0) = 0 \/ Larger(-raw, 0) = 0) /\ Larger(raw, 0) - Larger(-raw, 0) = raw
    BY <2>1 DEF Larger
  <2> QED
    BY <1>1, <2>2, <2>3 DEF Position, ClosesWith, raw
<1>2. CASE i < d
  <2>1. Smaller(d, i) = i /\ d > i
    BY <1>2 DEF Smaller
  <2>2. Realised(o, d, i, u) = Position(0, d - i + u, u)
    BY <2>1 DEF Realised
  <2> QED
    BY <1>2, <2>2 DEF Position, ClosesWith
<1> QED
  BY <1>1, <1>2

LEMMA AnchoredIsTyped ==
  ASSUME NEW e \in Evidence, e.within # NoAmount, NEW p, p = Anchored(e)
  PROVE  p.balance \in Nat /\ p.deficit \in Nat /\ (p.balance = 0 \/ p.deficit = 0)
<1> DEFINE n == e.within + e.after
<1>1. n \in Int
  BY ProjectionRows
<1>2. Anchored(e) = Position(Larger(n, 0), Larger(-n, 0), 0)
  BY DEF Anchored
<1> HIDE DEF n
<1>3. /\ Larger(n, 0) \in Nat /\ Larger(-n, 0) \in Nat
      /\ (Larger(n, 0) = 0 \/ Larger(-n, 0) = 0)
  BY <1>1 DEF Larger
<1> QED
  BY <1>2, <1>3 DEF Position

LEMMA SnapshotIsSound ==
  ASSUME NEW e \in Evidence, NEW b, b.trusted \in BOOLEAN, b.balance \in Nat, b.deficit \in Nat,
         b.confirmed \in Nat \cup {NoAmount}, NEW n, n = SnapshotOf(e, b)
  PROVE  n \in Snapshots /\ AddsUp(n)
<1> DEFINE o == Opening(e, b)
           d == Carried(b)
           closed == IF e.within # NoAmount THEN Anchored(e)
                     ELSE Realised(o, d, e.deposit, e.used)
<1>1. /\ e.deposit \in Nat /\ e.used \in Nat /\ e.seen \in Nat \cup {NoAmount}
      /\ e.within \in Nat \cup {NoAmount}
  BY ProjectionRows
<1>2. o \in Nat
  BY <1>1, ProjectionAmounts DEF Opening
<1>3. d \in Nat
  BY DEF Carried
<1>4. n = [opening |-> o, debt |-> d, deposit |-> e.deposit, used |-> e.used,
           balance |-> closed.balance, deficit |-> closed.deficit, confirmed |-> e.within,
           atStart |-> e.seen # NoAmount,
           trusted |-> e.seen # NoAmount \/ b.trusted \/ e.within # NoAmount]
  BY DEF SnapshotOf
<1> HIDE DEF o, d
<1>5. /\ closed.balance \in Nat /\ closed.deficit \in Nat
      /\ closed.balance = 0 \/ closed.deficit = 0
      /\ e.within = NoAmount /\ (d <= e.deposit \/ o = 0) =>
             closed.balance - closed.deficit = o - d + e.deposit - e.used
  <2>1. CASE e.within = NoAmount
    <3>1. closed = Realised(o, d, e.deposit, e.used)
      BY <2>1
    <3> HIDE DEF closed
    <3>2. ClosesWith(closed, o, d, e.deposit, e.used)
      BY <1>1, <1>2, <1>3, <3>1, RealisedAddsUp
    <3> QED
      BY <2>1, <3>2 DEF ClosesWith
  <2>2. CASE e.within # NoAmount
    <3>1. closed = Anchored(e)
      BY <2>2
    <3> QED
      BY <2>2, <3>1, AnchoredIsTyped
  <2> QED
    BY <2>1, <2>2
<1> HIDE DEF closed
<1>6. n \in Snapshots
  BY <1>1, <1>2, <1>3, <1>4, <1>5 DEF Snapshots
<1>7. AddsUp(n)
  BY <1>4, <1>5 DEF AddsUp
<1> QED
  BY <1>6, <1>7

LEMMA MonthsAreNat ==
  ASSUME PjTypeOK
  PROVE  /\ LastMonth \in Nat /\ month \in Nat /\ month < LastMonth /\ month \in Months
         /\ Start \in Months /\ month >= 1
  BY ProjectionBounds DEF PjTypeOK, Months, Start

LEMMA PjStart == PjInit => PjInv
<1> SUFFICES ASSUME PjInit PROVE PjInv
  OBVIOUS
<1>1. PICK e \in Evidence : snapshot = SnapshotOf(e, NoSnapshot)
  BY DEF PjInit
<1>2. snapshot \in Snapshots /\ AddsUp(snapshot)
  <2>1. /\ NoSnapshot.trusted \in BOOLEAN /\ NoSnapshot.balance \in Nat
        /\ NoSnapshot.deficit \in Nat /\ NoSnapshot.confirmed \in Nat \cup {NoAmount}
    BY DEF NoSnapshot
  <2> QED
    BY <1>1, <2>1, SnapshotIsSound
<1>3. NoBill.terms \in BillTerms /\ NoBill = [status |-> "new", terms |-> NoBill.terms]
  BY ProjectionRows DEF NoBill
<1>4. bills \in [Bills -> [status : {"new", "pending", "paid", "cancelled"}, terms : BillTerms]]
  BY <1>3 DEF PjInit
<1>5. credits \in Seq(CreditRows)
  BY DEF PjInit
<1>6. month \in 1 .. LastToday /\ edits \in 0 .. MaxEdits
  BY ProjectionBounds DEF PjInit
<1>7. parcels \subseteq Parcels /\ IsFiniteSet(parcels)
  BY FS_EmptySet DEF PjInit
<1> QED
  BY <1>2, <1>4, <1>5, <1>6, <1>7 DEF PjInv, PjTypeOK, Snapshots

LEMMA PjStep == PjInv /\ [PjNext]_pjVars => PjInv'
<1> SUFFICES ASSUME PjInv, [PjNext]_pjVars PROVE PjInv'
  OBVIOUS
<1> DEFINE BillRows == [status : {"new", "pending", "paid", "cancelled"}, terms : BillTerms]
<1>0. /\ month \in 1 .. LastToday /\ bills \in [Bills -> BillRows]
      /\ parcels \subseteq Parcels /\ IsFiniteSet(parcels) /\ credits \in Seq(CreditRows)
      /\ snapshot \in Snapshots /\ AddsUp(snapshot) /\ edits \in 0 .. MaxEdits
      /\ MaxEdits \in Nat /\ LastToday \in Nat /\ LastMonth \in Nat /\ LastToday < LastMonth
  BY ProjectionBounds DEF PjInv, PjTypeOK, Snapshots
<1>1. PjInv' <=>
        /\ month' \in 1 .. LastToday /\ bills' \in [Bills -> BillRows]
        /\ parcels' \subseteq Parcels /\ IsFiniteSet(parcels') /\ credits' \in Seq(CreditRows)
        /\ snapshot' \in Snapshots /\ AddsUp(snapshot') /\ edits' \in 0 .. MaxEdits
  BY DEF PjInv, PjTypeOK, Snapshots
<1>2. Edit => edits' \in 0 .. MaxEdits
  BY <1>0 DEF Edit
<1> HIDE DEF BillRows
<1>3. ASSUME UNCHANGED pjVars PROVE PjInv'
  BY <1>0, <1>1, <1>3 DEF pjVars
<1>4. ASSUME CreateBill PROVE PjInv'
  <2>1. PICK b \in Bills, t \in BillTerms :
           bills' = [bills EXCEPT ![b] = [status |-> "pending", terms |-> t]]
    BY <1>4 DEF CreateBill
  <2>2. [status |-> "pending", terms |-> t] \in BillRows
    BY DEF BillRows
  <2>3. bills' \in [Bills -> BillRows]
    BY <1>0, <2>1, <2>2
  <2> QED
    BY <1>0, <1>1, <1>2, <1>4, <2>3 DEF CreateBill
<1>5. ASSUME NEW b \in Bills, NEW from, NEW to \in {"pending", "paid", "cancelled"},
             ChangeBill(b, from, to)
      PROVE  PjInv'
  <2>1. [bills[b] EXCEPT !.status = to] \in BillRows
    BY <1>0 DEF BillRows
  <2>2. bills' = [bills EXCEPT ![b] = [bills[b] EXCEPT !.status = to]]
    BY <1>5 DEF ChangeBill
  <2>3. bills' \in [Bills -> BillRows]
    BY <1>0, <2>1, <2>2
  <2> QED
    BY <1>0, <1>1, <1>2, <1>5, <2>3 DEF ChangeBill
<1>6. ASSUME Observe PROVE PjInv'
  <2>0. PICK g \in Goods, amount \in PartValues : \E k \in 1 .. PartsOf[g] :
          \E booked \in {1, k}, competence \in {k, NoCompetence} :
            /\ k <= month + 1
            /\ parcels' = parcels \cup {[of |-> g, current |-> k, booked |-> booked,
                                         competence |-> competence, amount |-> amount]}
    BY <1>6 DEF Observe
  <2>1. PICK k \in 1 .. PartsOf[g] :
          \E booked \in {1, k}, competence \in {k, NoCompetence} :
            /\ k <= month + 1
            /\ parcels' = parcels \cup {[of |-> g, current |-> k, booked |-> booked,
                                         competence |-> competence, amount |-> amount]}
    BY <2>0
  <2>2. PICK booked \in {1, k}, competence \in {k, NoCompetence} :
            /\ k <= month + 1
            /\ parcels' = parcels \cup {[of |-> g, current |-> k, booked |-> booked,
                                         competence |-> competence, amount |-> amount]}
    BY <2>1
  <2> DEFINE r == [of |-> g, current |-> k, booked |-> booked,
                   competence |-> competence, amount |-> amount]
  <2>3. PartsOf[g] \in Nat
    BY ProjectionRows
  <2>4. k \in Nat /\ k \in Months /\ 1 \in Months
    BY <1>0, <2>2, <2>3 DEF Months
  <2>5. r \in Parcels
    BY <2>2, <2>4 DEF Parcels
  <2> HIDE DEF r
  <2>6. parcels' \subseteq Parcels /\ IsFiniteSet(parcels')
    BY <1>0, <2>2, <2>5, FS_AddElement DEF r
  <2> QED
    BY <1>0, <1>1, <1>2, <1>6, <2>6 DEF Observe
<1>7. ASSUME ExcludeParcel PROVE PjInv'
  <2>1. parcels' \subseteq Parcels /\ IsFiniteSet(parcels')
    BY <1>0, <1>7, FS_Subset DEF ExcludeParcel
  <2> QED
    BY <1>0, <1>1, <1>2, <1>7, <2>1 DEF ExcludeParcel
<1>8. ASSUME RecordCredit PROVE PjInv'
  <2>1. PICK amount \in Pays, marked \in BOOLEAN :
          credits' = Append(credits, [month |-> Start, amount |-> amount,
                                      marked |-> marked, counts |-> TRUE])
    BY <1>8 DEF RecordCredit
  <2>2. Start \in Months
    BY MonthsAreNat DEF PjInv
  <2>3. [month |-> Start, amount |-> amount, marked |-> marked, counts |-> TRUE] \in CreditRows
    BY <2>2 DEF CreditRows
  <2>4. credits' \in Seq(CreditRows)
    BY <1>0, <2>1, <2>3, AppendProperties
  <2> QED
    BY <1>0, <1>1, <1>2, <1>8, <2>4 DEF RecordCredit
<1>9. ASSUME ExcludeCredit PROVE PjInv'
  <2>1. PICK n \in DOMAIN credits : credits' = [credits EXCEPT ![n].counts = FALSE]
    BY <1>9 DEF ExcludeCredit
  <2>2. credits' = [credits EXCEPT ![n] = [credits[n] EXCEPT !.counts = FALSE]]
    BY <2>1
  <2>3. credits[n] \in CreditRows
    BY <1>0
  <2>4. [credits[n] EXCEPT !.counts = FALSE] \in CreditRows
    BY <2>3 DEF CreditRows
  <2>5. credits' \in Seq(CreditRows)
    BY <1>0, <2>2, <2>4, ExceptSeq
  <2> QED
    BY <1>0, <1>1, <1>2, <1>9, <2>5 DEF ExcludeCredit
<1>10. ASSUME TurnMonth PROVE PjInv'
  <2>1. PICK e \in Evidence : snapshot' = SnapshotOf(e, snapshot)
    BY <1>10 DEF TurnMonth
  <2>2. /\ snapshot.trusted \in BOOLEAN /\ snapshot.balance \in Nat /\ snapshot.deficit \in Nat
        /\ snapshot.confirmed \in Nat \cup {NoAmount}
    BY <1>0 DEF Snapshots
  <2>3. snapshot' \in Snapshots /\ AddsUp(snapshot')
    BY <2>1, <2>2, SnapshotIsSound
  <2>4. month' \in 1 .. LastToday
    BY <1>0, <1>10 DEF TurnMonth
  <2> QED
    BY <1>0, <1>1, <1>10, <2>3, <2>4 DEF TurnMonth
<1> QED
  BY <1>3, <1>4, <1>5, <1>6, <1>7, <1>8, <1>9, <1>10 DEF PjNext, PayBill, UnpayBill, CancelBill

-----------------------------------------------------------------------------
(* Positions, and the month that follows one: the projection's formula, the *)
(* validator's and that of the invariants on the first month are one.       *)
Positions == {p \in [balance : Nat, deficit : Nat, used : Nat] : p.balance = 0 \/ p.deficit = 0}
Gains(p, n, amount) == n.balance - n.deficit = p.balance - p.deficit + amount
\* The validator's month, and that of the invariants.
Checked(p, result, earned) ==
    LET opening == IF p.deficit = 0 THEN p.balance ELSE 0
        available == result + earned
        net == opening - p.deficit + available IN
    Position(Larger(net, 0), Larger(-net, 0),
             IF p.deficit = 0 THEN Smaller(opening, Larger(-available, 0)) ELSE 0)

LEMMA PositionIs ==
  ASSUME NEW b \in Nat, NEW d \in Nat, NEW u \in Nat, b = 0 \/ d = 0, NEW p, p = Position(b, d, u)
  PROVE  p \in Positions /\ p.balance = b /\ p.deficit = d /\ p.used = u
  BY DEF Position, Positions

LEMMA PositionsAreTyped ==
  ASSUME NEW p \in Positions
  PROVE  /\ p.balance \in Nat /\ p.deficit \in Nat /\ p.used \in Nat
         /\ p.balance = 0 \/ p.deficit = 0
         /\ p = Position(p.balance, p.deficit, p.used)
  BY DEF Positions, Position

LEMMA SettleIs ==
  ASSUME NEW p \in Positions, NEW result \in Int, NEW earned \in Int,
         NEW n, n = Settle(p, result, earned)
  PROVE  /\ n \in Positions /\ Gains(p, n, result + earned) /\ n = Checked(p, result, earned)
         /\ n = Consumed(IF p.deficit > 0 THEN 0 ELSE p.balance, result + earned - p.deficit)
<1>1. PICK b \in Nat, d \in Nat : b = p.balance /\ d = p.deficit /\ (b = 0 \/ d = 0)
  BY PositionsAreTyped
<1>2. PICK all \in Int : all = result + earned
  OBVIOUS
<1>3. n = IF d > 0
          THEN IF all >= 0
               THEN LET repaid == Smaller(d, all) IN
                    Position(IF repaid = d THEN all - repaid ELSE 0, d - repaid, 0)
               ELSE Position(0, d - all, 0)
          ELSE IF all >= 0 THEN Position(b + all, 0, 0)
               ELSE LET used == Smaller(b, -all) IN Position(b - used, -all - used, used)
  BY <1>1, <1>2 DEF Settle
<1>4. Checked(p, result, earned) =
        Position(Larger((IF d = 0 THEN b ELSE 0) - d + all, 0),
                 Larger(-((IF d = 0 THEN b ELSE 0) - d + all), 0),
                 IF d = 0 THEN Smaller(IF d = 0 THEN b ELSE 0, Larger(-all, 0)) ELSE 0)
  BY <1>1, <1>2 DEF Checked
<1>5. Consumed(IF p.deficit > 0 THEN 0 ELSE p.balance, result + earned - p.deficit) =
        Consumed(IF d > 0 THEN 0 ELSE b, all - d)
  BY <1>1, <1>2
<1> DEFINE Is(x, y, u) == /\ n = Position(x, y, u)
                          /\ Checked(p, result, earned) = Position(x, y, u)
                          /\ Consumed(IF d > 0 THEN 0 ELSE b, all - d) = Position(x, y, u)
                          /\ x \in Nat /\ y \in Nat /\ u \in Nat /\ (x = 0 \/ y = 0)
                          /\ x - y = b - d + all
<1>6. ASSUME d > 0 /\ all >= d PROVE \E x, y, u : Is(x, y, u)
  <2>1. Smaller(d, all) = d
    BY <1>6 DEF Smaller
  <2>2. n = Position(all - d, 0, 0)
    BY <1>3, <1>6, <2>1
  <2>3. /\ Larger(0 - d + all, 0) = all - d /\ Larger(-(0 - d + all), 0) = 0
        /\ Smaller(0, Larger(-(all - d), 0)) = 0 /\ Larger(-(all - d), 0) = 0
    BY <1>6 DEF Larger, Smaller
  <2>4. Checked(p, result, earned) = Position(all - d, 0, 0)
    BY <1>4, <1>6, <2>3
  <2>5. Consumed(0, all - d) = Position(all - d, 0, 0)
    BY <1>6, <2>3 DEF Consumed
  <2>6. Is(all - d, 0, 0)
    BY <1>1, <1>6, <2>2, <2>4, <2>5
  <2> HIDE DEF Is
  <2> QED
    BY <2>6
<1>7. ASSUME d > 0 /\ all < d PROVE \E x, y, u : Is(x, y, u)
  <2>1. n = Position(0, d - all, 0)
    <3>1. CASE all >= 0
      <4>1. Smaller(d, all) = all /\ all # d
        BY <1>7, <3>1 DEF Smaller
      <4> QED
        BY <1>3, <1>7, <3>1, <4>1
    <3>2. CASE ~ (all >= 0)
      BY <1>3, <1>7, <3>2
    <3> QED
      BY <3>1, <3>2
  <2>2. /\ Larger(0 - d + all, 0) = 0 /\ Larger(-(0 - d + all), 0) = d - all
        /\ Larger(-(all - d), 0) = d - all /\ Smaller(0, d - all) = 0
    BY <1>7 DEF Larger, Smaller
  <2>3. Checked(p, result, earned) = Position(0, d - all, 0)
    BY <1>4, <1>7, <2>2
  <2>4. Consumed(0, all - d) = Position(0, d - all, 0)
    BY <1>7, <2>2 DEF Consumed
  <2>5. Is(0, d - all, 0)
    BY <1>1, <1>7, <2>1, <2>3, <2>4
  <2> HIDE DEF Is
  <2> QED
    BY <2>5
<1>8. ASSUME d = 0 /\ all >= 0 PROVE \E x, y, u : Is(x, y, u)
  <2>1. n = Position(b + all, 0, 0)
    BY <1>3, <1>8
  <2>2. /\ Larger(b - d + all, 0) = b + all /\ Larger(-(b - d + all), 0) = 0
        /\ Larger(-all, 0) = 0 /\ Smaller(b, 0) = 0 /\ Larger(-(all - d), 0) = 0
    BY <1>8 DEF Larger, Smaller
  <2>3. Checked(p, result, earned) = Position(b + all, 0, 0)
    BY <1>4, <1>8, <2>2
  <2>4. Consumed(b, all - d) = Position(b + all, 0, 0)
    BY <1>8, <2>2 DEF Consumed
  <2>5. Is(b + all, 0, 0)
    BY <1>1, <1>8, <2>1, <2>3, <2>4
  <2> HIDE DEF Is
  <2> QED
    BY <2>5
<1>9. ASSUME d = 0 /\ all < 0 PROVE \E x, y, u : Is(x, y, u)
  <2>1. PICK u \in Nat : u = Smaller(b, -all) /\ u <= b /\ u <= -all /\ (u = b \/ u = -all)
    BY <1>9 DEF Smaller
  <2>2. n = Position(b - u, -all - u, u)
    BY <1>3, <1>9, <2>1
  <2>3. /\ Larger(b - d + all, 0) = b - u /\ Larger(-(b - d + all), 0) = -all - u
        /\ Larger(-all, 0) = -all /\ Larger(-(all - d), 0) = -all
    BY <1>9, <2>1 DEF Larger
  <2>4. Checked(p, result, earned) = Position(b - u, -all - u, u)
    BY <1>4, <1>9, <2>1, <2>3
  <2>5. Consumed(b, all - d) = Position(b - u, -all - u, u)
    BY <1>9, <2>1, <2>3 DEF Consumed
  <2>6. /\ b - u \in Nat /\ -all - u \in Nat /\ (b - u = 0 \/ -all - u = 0)
        /\ (b - u) - (-all - u) = b - d + all
    BY <1>9, <2>1
  <2>7. Is(b - u, -all - u, u)
    BY <1>9, <2>2, <2>4, <2>5, <2>6
  <2> HIDE DEF Is
  <2> QED
    BY <2>7
<1>10. PICK x, y, u : Is(x, y, u)
  <2> HIDE DEF Is
  <2> QED
    BY <1>1, <1>6, <1>7, <1>8, <1>9
<1>11. n \in Positions /\ n.balance = x /\ n.deficit = y
  BY <1>10, PositionIs
<1>12. Gains(p, n, result + earned)
  BY <1>1, <1>2, <1>10, <1>11 DEF Gains
<1> QED
  BY <1>5, <1>10, <1>11, <1>12

(* A table of months, each from the one before it.                          *)
Chain(f, a, z, seed, T) == f = [k \in a .. z |-> IF k = a THEN seed ELSE T[k][f[k - 1]]]

LEMMA ChainExists ==
  ASSUME NEW a \in Nat, NEW z \in Nat, a <= z, NEW P, NEW seed \in P,
         NEW T, \A k \in a + 1 .. z : T[k] \in [P -> P]
  PROVE  \E f \in [a .. z -> P] : Chain(f, a, z, seed, T)
<1> DEFINE N == z - a
           Reaches(e) == \E f \in [a .. e -> P] : Chain(f, a, e, seed, T)
           Good == {n \in 0 .. N : Reaches(a + n)}
<1>1. N \in Nat /\ N \in 0 .. N /\ a + N = z
  OBVIOUS
<1> SUFFICES ASSUME N \notin Good PROVE FALSE
  <2>1. N \in Good => Reaches(z)
    <3> HIDE DEF Reaches
    <3> QED
      BY <1>1
  <2> QED
    BY <2>1
<1>2. 0 \in Good
  <2> DEFINE f == [k \in a .. a |-> seed]
  <2>1. f \in [a .. a -> P]
    OBVIOUS
  <2>2. Chain(f, a, a, seed, T)
    <3>1. ASSUME NEW k \in a .. a PROVE k = a
      OBVIOUS
    <3> QED
      BY <3>1 DEF Chain
  <2>3. Reaches(a)
    <3> HIDE DEF f
    <3> QED
      BY <2>1, <2>2
  <2>4. a + 0 = a /\ 0 \in 0 .. N
    BY <1>1
  <2> HIDE DEF Reaches
  <2> QED
    BY <2>3, <2>4
<1> HIDE DEF N
<1>3. PICK m \in 1 .. N : m \notin Good /\ m - 1 \in 0 .. N /\ m - 1 \in Good
  <2> HIDE DEF Good
  <2> QED
    BY <1>1, <1>2, LeastFailure
<1> DEFINE y == a + m
<1>5. /\ y \in a + 1 .. z /\ y - 1 \in a .. y - 1 /\ a + (m - 1) = y - 1 /\ y \in Nat
      /\ a .. y = (a .. y - 1) \cup {y}
  BY <1>1, <1>3
<1> HIDE DEF y
<1>4. PICK f \in [a .. y - 1 -> P] : Chain(f, a, y - 1, seed, T)
  <2>1. Reaches(y - 1)
    <3> HIDE DEF Reaches
    <3> QED
      BY <1>3, <1>5
  <2> QED
    BY <2>1
<1> DEFINE g == [k \in a .. y |-> IF k = y THEN T[y][f[y - 1]] ELSE f[k]]
<1>6. g \in [a .. y -> P]
  BY <1>4, <1>5
<1>7. ASSUME NEW k \in a .. y PROVE g[k] = IF k = a THEN seed ELSE T[k][g[k - 1]]
  <2>1. CASE k = y
    <3>1. y # a /\ y - 1 \in a .. y /\ y - 1 # y
      BY <1>5
    <3>2. g[y - 1] = f[y - 1]
      BY <3>1
    <3> QED
      BY <2>1, <3>1, <3>2
  <2>2. CASE k # y
    <3>1. k \in a .. y - 1
      BY <1>5, <2>2
    <3>2. f[k] = IF k = a THEN seed ELSE T[k][f[k - 1]]
      BY <1>4, <1>5, <3>1 DEF Chain
    <3>3. k # a => k - 1 \in a .. y /\ k - 1 # y
      BY <1>5, <3>1
    <3> QED
      BY <2>2, <3>2, <3>3
  <2> QED
    BY <2>1, <2>2
<1>8. Chain(g, a, y, seed, T)
  <2>1. g = [k \in a .. y |-> g[k]]
    OBVIOUS
  <2> HIDE DEF g
  <2> QED
    BY <1>7, <2>1 DEF Chain
<1>9. m \in Good
  <2>1. Reaches(y)
    <3> HIDE DEF g
    <3> QED
      BY <1>6, <1>8
  <2> HIDE DEF Reaches
  <2> QED
    BY <1>3, <2>1 DEF y
<1> QED
  BY <1>3, <1>9

LEMMA ChainsAreTyped ==
  ASSUME NEW a \in Nat, NEW z \in Nat, NEW P, NEW seed \in P,
         NEW T, \A k \in a + 1 .. z : T[k] \in [P -> P], NEW f, Chain(f, a, z, seed, T),
         NEW m \in a .. z
  PROVE  f[m] \in P
<1> DEFINE N == z - a
           Good == {n \in 0 .. N : f[a + n] \in P}
<1> SUFFICES ASSUME m - a \notin Good PROVE FALSE
  OBVIOUS
<1>1. N \in Nat /\ m - a \in 0 .. N
  OBVIOUS
<1>2. \A k \in a .. z : f[k] = IF k = a THEN seed ELSE T[k][f[k - 1]]
  BY DEF Chain
<1>3. 0 \in Good
  BY <1>1, <1>2
<1> HIDE DEF N
<1>4. PICK n \in 1 .. N : n \notin Good /\ n - 1 \in 0 .. N /\ n - 1 \in Good
  <2> HIDE DEF Good
  <2> QED
    BY <1>1, <1>3, LeastFailure
<1>5. a + n \in a + 1 .. z /\ a + n # a /\ (a + n) - 1 = a + (n - 1)
  BY <1>1, <1>4 DEF N
<1>6. f[a + n] = T[a + n][f[a + (n - 1)]]
  BY <1>2, <1>5
<1> QED
  BY <1>4, <1>5, <1>6

(* What a month may owe is a natural number, and a salary one of the pays.  *)
LEMMA CommitmentsAreNat ==
  ASSUME PjTypeOK, NEW m
  PROVE  /\ IsFiniteSet(Owing) /\ ObligationsIn(m) \in Nat
         /\ \A b \in Bills : IsFiniteSet(FallingIn(bills[b].terms, m))
                             /\ BillValue * Cardinality(FallingIn(bills[b].terms, m)) \in Nat
<1>1. ASSUME NEW b \in Bills
      PROVE  /\ IsFiniteSet(FallingIn(bills[b].terms, m))
             /\ BillValue * Cardinality(FallingIn(bills[b].terms, m)) \in Nat
  <2>1. PICK t \in BillTerms : t = bills[b].terms
    BY DEF PjTypeOK
  <2>2. t.count \in Nat /\ t.count - 1 \in Int
    BY ProjectionRows
  <2>3. IsFiniteSet(Occurrences(t))
    <3>1. IsFiniteSet({0})
      BY FS_Singleton
    <3>2. IsFiniteSet(0 .. t.count - 1)
      BY <2>2, FS_Interval
    <3> QED
      BY <3>1, <3>2 DEF Occurrences
  <2>4. IsFiniteSet(FallingIn(t, m)) /\ Cardinality(FallingIn(t, m)) \in Nat
    BY <2>3, FS_Subset, FS_CardinalityType DEF FallingIn
  <2> QED
    BY <2>1, <2>4, ProjectionAmounts
<1>2. IsFiniteSet(Owing) /\ Owing \subseteq Bills
  BY ProjectionRows, FS_Subset DEF Owing
<1> DEFINE f == [b \in Bills |-> BillValue * Cardinality(FallingIn(bills[b].terms, m))]
<1>3. \A b \in Owing : f[b] \in Nat
  BY <1>1, <1>2
<1>4. SumOf(f, Owing) \in Nat
  <2> HIDE DEF f
  <2> QED
    BY <1>2, <1>3, SumIsNat
<1> QED
  BY <1>1, <1>2, <1>4 DEF ObligationsIn

(* Of rows that were observed one was seen last.                            *)
LEMMA SeenLastExists ==
  ASSUME NEW S, S \subseteq Parcels, IsFiniteSet(S), S # {}
  PROVE  \E r \in S : ~ \E s \in S : SeenAfter(s, r)
<1> DEFINE Last(s, r) == r \in s /\ ~ \E q \in s : SeenAfter(q, r)
           Bad == {s \in SUBSET S : s # {} /\ ~ \E r \in s : Last(s, r)}
<1>0. \A r \in S : r.booked \in Nat /\ r.current \in Nat
  BY ProjectionBounds DEF Parcels, Months
<1>1. CASE Bad = {}
  BY <1>1
<1>2. CASE Bad # {}
  <2>1. PICK s \in Bad : \A t \in Bad : t \subseteq s => t = s
    <3>1. Bad \in SUBSET (SUBSET S)
      OBVIOUS
    <3> HIDE DEF Bad
    <3> QED
      BY <1>2, <3>1, SmallestSet
  <2>2. PICK x \in s : TRUE
    BY <2>1
  <2> DEFINE u == s \ {x}
  <2>3. CASE u = {}
    <3>1. Last(s, x)
      BY <1>0, <2>1, <2>3 DEF SeenAfter
    <3> QED
      BY <2>1, <3>1
  <2>4. CASE u # {}
    <3>1. u \notin Bad /\ u \in SUBSET S
      BY <2>1
    <3>2. PICK y \in u : Last(u, y)
      BY <2>4, <3>1
    <3>3. CASE ~ SeenAfter(x, y)
      <4>1. Last(s, y)
        BY <3>2, <3>3
      <4> QED
        BY <2>1, <4>1
    <3>4. CASE SeenAfter(x, y)
      <4>1. ASSUME NEW q \in s, SeenAfter(q, x) PROVE FALSE
        <5>1. /\ q.booked \in Nat /\ q.current \in Nat /\ x.booked \in Nat /\ x.current \in Nat
              /\ y.booked \in Nat /\ y.current \in Nat
          BY <1>0, <2>1, <3>1
        <5>2. q \in u /\ SeenAfter(q, y)
          BY <3>4, <4>1, <5>1 DEF SeenAfter
        <5> QED
          BY <3>2, <5>2
      <4>2. Last(s, x)
        BY <4>1
      <4> QED
        BY <2>1, <4>2
    <3> QED
      BY <3>3, <3>4
  <2> QED
    BY <2>3, <2>4
<1> QED
  BY <1>1, <1>2

LEMMA LastSeenIs ==
  ASSUME PjTypeOK, NEW k, \E r \in parcels : Series(r) = k
  PROVE  /\ LastSeen(k) \in parcels /\ Series(LastSeen(k)) = k
         /\ ~ \E s \in parcels : Series(s) = k /\ SeenAfter(s, LastSeen(k))
<1> DEFINE S == {r \in parcels : Series(r) = k}
<1>1. S \subseteq Parcels /\ IsFiniteSet(S) /\ S # {}
  BY FS_Subset DEF PjTypeOK
<1>2. PICK r \in S : ~ \E s \in S : SeenAfter(s, r)
  <2> HIDE DEF S
  <2> QED
    BY <1>1, SeenLastExists
<1>3. \E q \in parcels : Series(q) = k /\ ~ \E s \in parcels : Series(s) = k /\ SeenAfter(s, q)
  BY <1>2
<1> QED
  BY <1>3 DEF LastSeen

LEMMA ImageIsFinite ==
  ASSUME NEW S, IsFiniteSet(S), NEW f
  PROVE  IsFiniteSet({f[x] : x \in S})
<1> DEFINE T == {f[x] : x \in S}
           g == [x \in S |-> f[x]]
<1>1. g \in Surjection(S, T)
  BY DEF Surjection
<1> HIDE DEF T, g
<1>2. IsFiniteSet(T)
  BY <1>1, FS_Surjection
<1> QED
  BY <1>2 DEF T

LEMMA InstallmentsAreNat ==
  ASSUME PjTypeOK, NEW m
  PROVE  /\ IsFiniteSet(Forecasting(m)) /\ Forecasting(m) \subseteq parcels
         /\ InstallmentsIn(m) \in Nat
<1> DEFINE K == {Series(r) : r \in parcels}
           L == {LastSeen(k) : k \in K}
           f == [r \in Forecasting(m) |-> r.amount]
<1>1. IsFiniteSet(K) /\ \A k \in K : \E r \in parcels : Series(r) = k
  <2> DEFINE e == [r \in parcels |-> Series(r)]
  <2>1. IsFiniteSet({e[r] : r \in parcels})
    <3> HIDE DEF e
    <3> QED
      BY ImageIsFinite DEF PjTypeOK
  <2>2. K = {e[r] : r \in parcels}
    OBVIOUS
  <2> QED
    BY <2>1, <2>2
<1>2. IsFiniteSet(L) /\ L \subseteq parcels
  <2>1. \A k \in K : LastSeen(k) \in parcels
    BY <1>1, LastSeenIs
  <2> DEFINE e == [k \in K |-> LastSeen(k)]
  <2>2. IsFiniteSet({e[k] : k \in K})
    <3> HIDE DEF e, K
    <3> QED
      BY <1>1, ImageIsFinite
  <2>3. L = {e[k] : k \in K}
    OBVIOUS
  <2> QED
    BY <2>1, <2>2, <2>3
<1>3. IsFiniteSet(Forecasting(m)) /\ Forecasting(m) \subseteq L
  BY <1>2, FS_Subset DEF Forecasting
<1>4. ASSUME NEW r \in Forecasting(m) PROVE f[r] \in Nat
  <2>1. r \in Parcels /\ f[r] = r.amount
    BY <1>2, <1>3 DEF PjTypeOK
  <2> QED
    BY <2>1, ProjectionAmounts DEF Parcels
<1>5. SumOf(f, Forecasting(m)) \in Nat
  <2> HIDE DEF f
  <2> QED
    BY <1>3, <1>4, SumIsNat
<1> QED
  BY <1>2, <1>3, <1>5 DEF InstallmentsIn

LEMMA SalaryIsNat ==
  ASSUME PjTypeOK, NEW m
  PROVE  SalaryIn(m) \in Nat
<1>1. ASSUME Cardinality(LikeSalary(m)) = 1
      PROVE  credits[CHOOSE n \in LikeSalary(m) : TRUE].amount \in Nat
  <2>1. LikeSalary(m) # {}
    BY <1>1, FS_EmptySet
  <2>2. PICK n \in LikeSalary(m) : n = CHOOSE k \in LikeSalary(m) : TRUE
    BY <2>1
  <2>3. credits[n] \in CreditRows
    BY DEF LikeSalary, PjTypeOK
  <2> QED
    BY <2>2, <2>3, ProjectionAmounts DEF CreditRows
<1> QED
  BY <1>1, ProjectionAmounts DEF SalaryIn

LEMMA ResultIsInt ==
  ASSUME PjTypeOK, NEW m \in Shown
  PROVE  Result(m) \in Int
<1>1. CardDue[m] \in Nat
  BY MonthsAreNat, ProjectionAmounts DEF Shown, Start
<1> QED
  BY <1>1, CommitmentsAreNat, InstallmentsAreNat, SalaryIsNat, ProjectionAmounts DEF Result

LEMMA EarnedIsNat ==
  ASSUME NEW p \in Positions
  PROVE  Earned(p) \in Nat
<1>1. p.balance \in Nat /\ RatePercent \in Nat
  BY PositionsAreTyped, ProjectionAmounts
<1>2. PICK n \in Nat : n = p.balance * RatePercent + 50
  BY <1>1
<1>3. n \div 100 \in Nat
  OBVIOUS
<1> QED
  BY <1>2, <1>3 DEF Earned

\* The equation of a month of the projection, and of the validator's.
NextMonth(g, m) == Settle(g[m - 1], Result(m), Earned(g[m - 1]))
NextChecked(g, m) == Checked(g[m - 1], Result(m), Earned(g[m - 1]))

LEMMA SeedIsPosition == ASSUME PjInv PROVE Seed \in Positions
<1>1. PICK s \in Snapshots : s = snapshot /\ (s.balance = 0 \/ s.deficit = 0)
  BY DEF PjInv, PjTypeOK, Snapshots, AddsUp
<1>2. s.balance \in Nat /\ s.deficit \in Nat
  BY DEF Snapshots
<1> QED
  BY <1>1, <1>2, PositionIs DEF Seed

LEMMA MonthIsSound ==
  ASSUME PjInv, NEW g, NEW m \in Shown, g[m - 1] \in Positions
  PROVE  /\ NextMonth(g, m) \in Positions /\ NextMonth(g, m) = NextChecked(g, m)
         /\ Gains(g[m - 1], NextMonth(g, m), Result(m) + Earned(g[m - 1]))
<1>1. Result(m) \in Int /\ Earned(g[m - 1]) \in Int
  BY ResultIsInt, EarnedIsNat DEF PjInv
<1>2. PICK p \in Positions, result \in Int, earned \in Int :
        p = g[m - 1] /\ result = Result(m) /\ earned = Earned(g[m - 1])
  BY <1>1
<1>3. PICK n : n = Settle(p, result, earned)
  OBVIOUS
<1>4. n \in Positions /\ Gains(p, n, result + earned) /\ n = Checked(p, result, earned)
  BY <1>3, SettleIs
<1> QED
  BY <1>2, <1>3, <1>4 DEF NextMonth, NextChecked

LEMMA MonthsBefore ==
  ASSUME PjInv, NEW m \in month .. LastMonth, m # month
  PROVE  m \in Shown /\ m - 1 \in month .. LastMonth /\ m \in Nat
  BY MonthsAreNat DEF PjInv, Shown, Start

LEMMA ShownAfter ==
  ASSUME PjInv, NEW m \in Shown
  PROVE  m \in month .. LastMonth /\ m # month
  BY MonthsAreNat DEF PjInv, Shown, Start

(* What holds of the current month, and of each month shown if of the one   *)
(* before, holds of all.                                                    *)
LEMMA MonthByMonth ==
  ASSUME PjInv, NEW Good, month \in Good, \A m \in Shown : m - 1 \in Good => m \in Good
  PROVE  month .. LastMonth \subseteq Good
<1>1. PICK a \in Nat, N \in Nat : a = month /\ N = LastMonth - month
  BY MonthsAreNat DEF PjInv
<1> DEFINE Ns == {n \in 0 .. N : a + n \in Good}
<1> SUFFICES ASSUME NEW m \in month .. LastMonth, m \notin Good PROVE FALSE
  OBVIOUS
<1>2. m - a \in 0 .. N /\ a + (m - a) = m /\ a + 0 = a /\ 0 \in 0 .. N
  BY <1>1, MonthsAreNat DEF PjInv
<1>3. 0 \in Ns /\ m - a \notin Ns
  BY <1>1, <1>2
<1>4. PICK n \in 1 .. N : n \notin Ns /\ n - 1 \in 0 .. N /\ n - 1 \in Ns
  <2> HIDE DEF Ns
  <2> QED
    BY <1>1, <1>2, <1>3, LeastFailure
<1>5. a + n \in Shown /\ (a + n) - 1 = a + (n - 1) /\ n \in 0 .. N
  BY <1>1, <1>4, MonthsAreNat DEF PjInv, Shown, Start
<1> QED
  BY <1>4, <1>5

LEMMA ForecastIsTyped ==
  ASSUME PjInv, NEW g, \A m \in month .. LastMonth : g[m] = IF m = month THEN Seed ELSE NextMonth(g, m)
  PROVE  \A m \in month .. LastMonth : g[m] \in Positions
<1> DEFINE Good == {m \in month .. LastMonth : g[m] \in Positions}
<1>1. month \in Good
  BY SeedIsPosition, MonthsAreNat DEF PjInv
<1>2. ASSUME NEW m \in Shown, m - 1 \in Good PROVE m \in Good
  BY <1>2, ShownAfter, MonthIsSound
<1>3. month .. LastMonth \subseteq Good
  <2> HIDE DEF Good
  <2> QED
    BY <1>1, <1>2, MonthByMonth
<1> QED
  BY <1>3

LEMMA ProjectedIs ==
  ASSUME PjInv
  PROVE  Projected = [m \in month .. LastMonth |-> IF m = month THEN Seed ELSE NextMonth(Projected, m)]
<1> DEFINE T == [k \in Shown |-> [p \in Positions |-> Settle(p, Result(k), Earned(p))]]
<1>1. ASSUME NEW k \in Shown PROVE T[k] \in [Positions -> Positions]
  <2>1. ASSUME NEW p \in Positions PROVE Settle(p, Result(k), Earned(p)) \in Positions
    <3>1. Result(k) \in Int /\ Earned(p) \in Int
      BY ResultIsInt, EarnedIsNat DEF PjInv
    <3> QED
      BY <3>1, SettleIs
  <2> QED
    BY <2>1
<1>2. month \in Nat /\ LastMonth \in Nat /\ month <= LastMonth /\ Shown = month + 1 .. LastMonth
  BY MonthsAreNat DEF PjInv, Shown, Start
<1>3. Seed \in Positions
  BY SeedIsPosition
<1>4. PICK f \in [month .. LastMonth -> Positions] : Chain(f, month, LastMonth, Seed, T)
  <2> HIDE DEF T
  <2> QED
    BY <1>1, <1>2, <1>3, ChainExists
<1>5. ASSUME NEW m \in month .. LastMonth, m # month
      PROVE  T[m][f[m - 1]] = NextMonth(f, m)
  BY <1>5, MonthsBefore DEF NextMonth
<1>6. f = [m \in month .. LastMonth |-> IF m = month THEN Seed ELSE NextMonth(f, m)]
  <2>1. f = [m \in month .. LastMonth |-> IF m = month THEN Seed ELSE T[m][f[m - 1]]]
    BY <1>4 DEF Chain
  <2> HIDE DEF T
  <2> QED
    BY <1>5, <2>1
<1> HIDE DEF T
<1>7. Projected = CHOOSE g : g = [m \in month .. LastMonth |-> IF m = month THEN Seed ELSE NextMonth(g, m)]
  BY DEF Projected, NextMonth
<1> QED
  BY <1>6, <1>7

LEMMA ProjectedMonths ==
  ASSUME PjInv, NEW m \in month .. LastMonth
  PROVE  /\ Projected[m] = IF m = month THEN Seed ELSE NextMonth(Projected, m)
         /\ Projected[m] \in Positions
  BY ProjectedIs, ForecastIsTyped

LEMMA ValidatedIs ==
  ASSUME PjInv
  PROVE  Validated = [m \in month .. LastMonth |-> IF m = month THEN Seed ELSE NextChecked(Validated, m)]
<1>1. ASSUME NEW m \in month .. LastMonth, m # month
      PROVE  NextMonth(Projected, m) = NextChecked(Projected, m)
  BY <1>1, MonthsBefore, ProjectedMonths, MonthIsSound
<1>2. Projected = [m \in month .. LastMonth |-> IF m = month THEN Seed ELSE NextChecked(Projected, m)]
  BY <1>1, ProjectedIs
<1>3. Validated = CHOOSE g : g = [m \in month .. LastMonth |-> IF m = month THEN Seed ELSE NextChecked(g, m)]
  BY DEF Validated, NextChecked, Checked
<1> QED
  BY <1>2, <1>3

LEMMA ValidatedAgrees ==
  ASSUME PjInv
  PROVE  \A m \in month .. LastMonth : Validated[m] = Projected[m]
<1> DEFINE Good == {m \in month .. LastMonth : Validated[m] = Projected[m]}
<1>1. \A m \in month .. LastMonth : Validated[m] = IF m = month THEN Seed ELSE NextChecked(Validated, m)
  BY ValidatedIs
<1>2. month \in Good
  BY <1>1, ProjectedMonths, MonthsAreNat DEF PjInv
<1>3. ASSUME NEW m \in Shown, m - 1 \in Good PROVE m \in Good
  <2>1. m \in month .. LastMonth /\ m # month /\ m - 1 \in month .. LastMonth
    BY ShownAfter, MonthsBefore
  <2>2. Validated[m] = NextChecked(Validated, m) /\ Projected[m] = NextMonth(Projected, m)
    BY <1>1, <2>1, ProjectedMonths
  <2>3. NextChecked(Validated, m) = NextChecked(Projected, m)
    BY <1>3 DEF NextChecked
  <2>4. NextMonth(Projected, m) = NextChecked(Projected, m)
    BY <2>1, ProjectedMonths, MonthIsSound
  <2> QED
    BY <2>1, <2>2, <2>3, <2>4
<1>4. month .. LastMonth \subseteq Good
  <2> HIDE DEF Good
  <2> QED
    BY <1>2, <1>3, MonthByMonth
<1> QED
  BY <1>4

LEMMA MoneyIsConserved == PjInv => MoneyConserved
<1> SUFFICES ASSUME PjInv PROVE MoneyConserved
  OBVIOUS
<1>1. ASSUME NEW m \in Shown
      PROVE  LET p == Projected[m]  before == Projected[m - 1] IN
             /\ p.balance >= 0 /\ p.deficit >= 0 /\ (p.balance = 0 \/ p.deficit = 0)
             /\ p.balance - p.deficit = before.balance - before.deficit + Result(m) + Earned(before)
             /\ p = Validated[m]
  <2>1. m \in month .. LastMonth /\ m # month /\ m - 1 \in month .. LastMonth
    BY ShownAfter, MonthsBefore
  <2>2. PICK p \in Positions, before \in Positions :
          p = Projected[m] /\ before = Projected[m - 1]
    BY <2>1, ProjectedMonths
  <2>3. p = Validated[m]
    BY <2>1, <2>2, ValidatedAgrees
  <2>4. Gains(before, p, Result(m) + Earned(before))
    BY <2>1, <2>2, ProjectedMonths, MonthIsSound
  <2>5. /\ p.balance \in Nat /\ p.deficit \in Nat /\ (p.balance = 0 \/ p.deficit = 0)
        /\ before.balance \in Nat /\ before.deficit \in Nat
    BY PositionsAreTyped
  <2>6. Result(m) \in Int /\ Earned(before) \in Int
    BY ResultIsInt, EarnedIsNat DEF PjInv
  <2>7. p.balance - p.deficit = before.balance - before.deficit + Result(m) + Earned(before)
    BY <2>4, <2>5, <2>6 DEF Gains
  <2> QED
    BY <2>2, <2>3, <2>5, <2>7
<1>2. Projected[Start] = FirstMonth
  <2>1. Start \in Shown /\ Start - 1 = month
    BY MonthsAreNat DEF PjInv, Shown, Start
  <2>2. Projected[Start] = NextMonth(Projected, Start) /\ Projected[month] = Seed
    BY <2>1, ShownAfter, ProjectedMonths, MonthsAreNat DEF PjInv
  <2>3. Projected[Start] = Settle(Seed, Result(Start), Earned(Seed))
    BY <2>1, <2>2 DEF NextMonth
  <2>4. Seed \in Positions /\ Result(Start) \in Int /\ Earned(Seed) \in Int
    BY <2>1, SeedIsPosition, ResultIsInt, EarnedIsNat DEF PjInv
  <2>5. PICK p \in Positions, result \in Int, earned \in Int :
          p = Seed /\ result = Result(Start) /\ earned = Earned(Seed)
    BY <2>4
  <2>6. Settle(p, result, earned)
          = Consumed(IF p.deficit > 0 THEN 0 ELSE p.balance, result + earned - p.deficit)
    BY SettleIs
  <2> QED
    BY <2>3, <2>5, <2>6 DEF FirstMonth
<1> QED
  BY <1>1, <1>2 DEF MoneyConserved

LEMMA SalaryIsForecastOnce == PjInv => SalaryForecastOnce
<1> SUFFICES ASSUME PjInv, NEW m \in Shown
             PROVE  LET like == {n \in DOMAIN credits : /\ credits[n].counts /\ credits[n].month = m
                                           /\ credits[n].marked /\ credits[n].amount <= Salary + 1
                                           /\ credits[n].amount >= Salary - 1} IN
                    SumOf([n \in DOMAIN credits |-> credits[n].amount], like) = SalaryIn(m)
                      \/ ((Salary = 0 \/ Cardinality(like) # 1) /\ SalaryIn(m) = Salary)
  BY DEF SalaryForecastOnce
<1> DEFINE like == {n \in DOMAIN credits : /\ credits[n].counts /\ credits[n].month = m
                                           /\ credits[n].marked /\ credits[n].amount <= Salary + 1
                                           /\ credits[n].amount >= Salary - 1}
           f == [n \in DOMAIN credits |-> credits[n].amount]
<1>1. ASSUME NEW n \in DOMAIN credits PROVE credits[n].amount \in Nat /\ Salary \in Nat
  <2>1. credits[n] \in CreditRows
    BY DEF PjInv, PjTypeOK
  <2> QED
    BY <2>1, ProjectionAmounts DEF CreditRows
<1>2. like = LikeSalary(m)
  <2>1. ASSUME NEW n \in DOMAIN credits
        PROVE  credits[n].amount - Salary \in -1 .. 1
                 <=> credits[n].amount <= Salary + 1 /\ credits[n].amount >= Salary - 1
    BY <1>1
  <2> QED
    BY <2>1 DEF LikeSalary
<1>3. SumOf(f, like) = SalaryIn(m) \/ ((Salary = 0 \/ Cardinality(like) # 1) /\ SalaryIn(m) = Salary)
  <2>1. CASE Salary = 0 \/ Cardinality(like) # 1
    <3> HIDE DEF like, f
    <3> QED
      BY <1>2, <2>1, ProjectionAmounts DEF SalaryIn
  <2>2. CASE Salary > 0 /\ Cardinality(like) = 1
    <3>1. PICK n : like = {n}
      <4>1. like # {}
        BY <2>2, FS_EmptySet
      <4>2. PICK n \in like : TRUE
        BY <4>1
      <4>3. IsFiniteSet(like)
        <5>1. IsFiniteSet(DOMAIN credits)
          <6>1. PICK k \in Nat : DOMAIN credits = 1 .. k
            BY DEF PjInv, PjTypeOK
          <6> QED
            BY <6>1, FS_Interval
        <5> QED
          BY <5>1, FS_Subset
      <4>4. Cardinality(like \ {n}) = 0 /\ IsFiniteSet(like \ {n})
        <5> HIDE DEF like
        <5> QED
          BY <2>2, <4>2, <4>3, FS_RemoveElement
      <4>5. like \ {n} = {}
        <5> HIDE DEF like
        <5> QED
          BY <4>4, FS_EmptySet
      <4> QED
        BY <4>2, <4>5
    <3>2. n \in DOMAIN credits /\ f[n] = credits[n].amount /\ f[n] \in Nat
      BY <1>1, <3>1
    <3>3. SalaryIn(m) = f[n]
      <4>1. (CHOOSE k \in like : TRUE) = n
        BY <3>1
      <4> HIDE DEF like, f
      <4> QED
        BY <1>2, <2>2, <3>2, <4>1 DEF SalaryIn
    <3>4. SumOf(f, like) = f[n]
      <4> HIDE DEF f, like
      <4>1. PICK s : s = {n} /\ IsFiniteSet(s) /\ s \ {n} = {}
        BY FS_Singleton
      <4>2. SumOf(f, s) = f[n] + SumOf(f, s \ {n})
        BY <3>2, <4>1, SumTakesAny
      <4>3. SumOf(f, s \ {n}) = 0
        BY <4>1, SumOfNothing
      <4> QED
        BY <3>1, <3>2, <4>1, <4>2, <4>3
    <3> QED
      BY <3>3, <3>4
  <2> QED
    BY <2>1, <2>2, ProjectionAmounts
<1> QED
  BY <1>3

(* Counted in parts that share nothing, a set is counted once.              *)
LEMMA SumOfCounts ==
  ASSUME NEW S, IsFiniteSet(S), NEW v \in Nat, NEW f, NEW P, \A x \in S : IsFiniteSet(P[x]),
         \A x, y \in S : x # y => P[x] \cap P[y] = {},
         \A x \in S : f[x] = v * Cardinality(P[x])
  PROVE  SumOf(f, S) = v * Cardinality(UNION {P[x] : x \in S})
<1> DEFINE All(s) == UNION {P[x] : x \in s}
           Counted(s) == IsFiniteSet(All(s)) /\ SumOf(f, s) = v * Cardinality(All(s))
           Bad == {s \in SUBSET S : ~ Counted(s)}
<1> SUFFICES ASSUME Bad # {} PROVE FALSE
  OBVIOUS
<1>1. PICK s \in Bad : \A t \in Bad : t \subseteq s => t = s
  <2>1. Bad \in SUBSET (SUBSET S)
    OBVIOUS
  <2> HIDE DEF Bad
  <2> QED
    BY <2>1, SmallestSet
<1>2. ASSUME s = {} PROVE FALSE
  <2>0. All(s) = {}
    BY <1>2
  <2>1. IsFiniteSet(All(s)) /\ Cardinality(All(s)) = 0
    <3> HIDE DEF All
    <3> QED
      BY <2>0, FS_EmptySet
  <2>2. SumOf(f, s) = 0
    BY <1>2, SumOfNothing
  <2>3. v * 0 = 0
    OBVIOUS
  <2> QED
    BY <1>1, <2>1, <2>2, <2>3
<1>3. PICK a \in s : TRUE
  BY <1>2
<1> DEFINE u == s \ {a}
<1>4. Counted(u) /\ a \in S /\ u \subseteq S
  <2>1. u \in SUBSET S /\ u # s /\ u \subseteq s /\ a \in S
    BY <1>1, <1>3
  <2> HIDE DEF Counted, u
  <2> QED
    BY <1>1, <2>1
<1>5. All(s) = P[a] \cup All(u) /\ P[a] \cap All(u) = {}
  <2>1. s = u \cup {a}
    BY <1>3
  <2>2. All(s) = P[a] \cup All(u)
    <3> HIDE DEF u
    <3> QED
      BY <2>1
  <2>3. \A x \in u : P[a] \cap P[x] = {}
    BY <1>4
  <2> HIDE DEF u
  <2> QED
    BY <2>2, <2>3
<1>6. \A x \in s : f[x] \in Nat
  BY <1>1, FS_CardinalityType
<1>7. IsFiniteSet(s)
  BY <1>1, FS_Subset
<1>8. SumOf(f, s) = f[a] + SumOf(f, u)
  BY <1>6, <1>7, SumTakesAny
<1> HIDE DEF All, u
<1>9. /\ IsFiniteSet(All(s)) /\ Cardinality(All(s)) = Cardinality(P[a]) + Cardinality(All(u))
      /\ Cardinality(P[a]) \in Nat /\ Cardinality(All(u)) \in Nat
  <2>1. PICK p, q : p = P[a] /\ q = All(u)
    OBVIOUS
  <2>2. IsFiniteSet(p) /\ IsFiniteSet(q) /\ p \cap q = {} /\ All(s) = p \cup q
    BY <1>4, <1>5, <2>1
  <2>3. IsFiniteSet(p \cup q) /\ Cardinality(p \cup q) = Cardinality(p) + Cardinality(q) - Cardinality(p \cap q)
    BY <2>2, FS_Union
  <2>4. Cardinality(p \cap q) = 0
    BY <2>2, FS_EmptySet
  <2>5. Cardinality(p) \in Nat /\ Cardinality(q) \in Nat
    BY <2>2, FS_CardinalityType
  <2> QED
    BY <2>1, <2>2, <2>3, <2>4, <2>5
<1>10. ASSUME NEW x \in Nat, NEW y \in Nat PROVE v * (x + y) = v * x + v * y
  OBVIOUS
<1>11. Counted(s)
  BY <1>4, <1>8, <1>9, <1>10
<1> QED
  BY <1>1, <1>11

(* A sum taken over other names for the same things is the same.            *)
LEMMA SumRenamed ==
  ASSUME NEW S, IsFiniteSet(S), NEW T, NEW e, T = {e[x] : x \in S},
         \A x, y \in S : e[x] = e[y] => x = y,
         NEW f, NEW h, \A x \in S : f[x] = h[e[x]] /\ f[x] \in Nat
  PROVE  SumOf(f, S) = SumOf(h, T)
<1> DEFINE Image(s) == {e[x] : x \in s}
           Fails(s) == SumOf(f, s) # SumOf(h, Image(s))
           Bad == {s \in SUBSET S : Fails(s)}
<1> SUFFICES ASSUME Bad # {} PROVE FALSE
  OBVIOUS
<1>1. PICK s \in Bad : \A t \in Bad : t \subseteq s => t = s
  <2>1. Bad \in SUBSET (SUBSET S)
    OBVIOUS
  <2> HIDE DEF Bad
  <2> QED
    BY <2>1, SmallestSet
<1>2. ASSUME s = {} PROVE FALSE
  <2>1. SumOf(f, s) = 0
    BY <1>2, SumOfNothing
  <2>2. Image(s) = {}
    BY <1>2
  <2>3. SumOf(h, Image(s)) = 0
    BY <2>2, SumOfNothing
  <2> QED
    BY <1>1, <2>1, <2>3
<1>3. PICK a \in s : TRUE
  BY <1>2
<1> DEFINE u == s \ {a}
<1>4. SumOf(f, u) = SumOf(h, Image(u)) /\ a \in S
  <2>1. u \in SUBSET S /\ u # s /\ u \subseteq s /\ a \in S
    BY <1>1, <1>3
  <2>2. ~ Fails(u)
    <3> HIDE DEF Fails, u
    <3> QED
      BY <1>1, <2>1
  <2> QED
    BY <2>1, <2>2
<1>5. IsFiniteSet(s) /\ \A x \in s : f[x] \in Nat
  BY <1>1, FS_Subset
<1>6. SumOf(f, s) = f[a] + SumOf(f, u)
  BY <1>5, SumTakesAny
<1>7. PICK i : i = Image(s)
  OBVIOUS
<1>8. IsFiniteSet(i) /\ e[a] \in i /\ \A y \in i : h[y] \in Nat
  <2>1. IsFiniteSet(Image(s))
    BY <1>5, ImageIsFinite
  <2> QED
    BY <1>1, <1>7, <2>1
<1>9. i \ {e[a]} = Image(u)
  BY <1>1, <1>3, <1>7
<1>10. SumOf(h, i) = h[e[a]] + SumOf(h, i \ {e[a]})
  BY <1>8, SumTakesAny
<1> HIDE DEF Image, u
<1> QED
  BY <1>1, <1>4, <1>6, <1>7, <1>9, <1>10

LEMMA TimesGrows ==
  ASSUME NEW i \in Nat, NEW e \in Nat
  PROVE  i * e \in Nat /\ (e > 0 => i <= i * e)
<1>1. i * e \in Nat
  OBVIOUS
<1>2. ASSUME e > 0 PROVE i <= i * e
  <2>1. PICK d \in Nat : e = d + 1
    <3>1. e - 1 \in Nat /\ e = (e - 1) + 1
      BY <1>2
    <3> QED
      BY <3>1
  <2>2. i * e = i * d + i /\ i * d \in Nat
    BY <2>1
  <2> QED
    BY <1>1, <2>2
<1> QED
  BY <1>1, <1>2

(* The occurrences that fall in a month, of every bill that is owed.        *)
Falling(m) == {o \in Bills \X Nat : o[1] \in Owing /\ o[2] \in FallingIn(bills[o[1]].terms, m)}
\* All that a bill owes up to the horizon.
Within == {o \in Bills \X (0 .. LastMonth) :
              LET bill == bills[o[1]]  t == bill.terms IN
              /\ bill.status = "pending" /\ t.due + o[2] * t.every <= LastMonth
              /\ o[2] = 0 \/ (t.every > 0 /\ o[2] < t.count)}

LEMMA ObligationsAre ==
  ASSUME PjInv, NEW m
  PROVE  /\ IsFiniteSet(Falling(m))
         /\ ObligationsIn(m) = BillValue * Cardinality(Falling(m))
<1> DEFINE P == [b \in Bills |-> {b} \X FallingIn(bills[b].terms, m)]
           f == [b \in Bills |-> BillValue * Cardinality(FallingIn(bills[b].terms, m))]
<1>1. IsFiniteSet(Owing) /\ Owing \subseteq Bills /\ BillValue \in Nat
  BY CommitmentsAreNat, ProjectionAmounts DEF PjInv, Owing
<1>2. ASSUME NEW b \in Bills
      PROVE  IsFiniteSet(P[b]) /\ f[b] = BillValue * Cardinality(P[b])
  <2>1. PICK one, fall : one = {b} /\ fall = FallingIn(bills[b].terms, m)
    OBVIOUS
  <2>2. IsFiniteSet(one) /\ Cardinality(one) = 1 /\ IsFiniteSet(fall) /\ Cardinality(fall) \in Nat
    BY <2>1, CommitmentsAreNat, FS_Singleton, FS_CardinalityType DEF PjInv
  <2>3. IsFiniteSet(one \X fall) /\ Cardinality(one \X fall) = Cardinality(one) * Cardinality(fall)
    BY <2>2, FS_Product
  <2>4. P[b] = one \X fall /\ f[b] = BillValue * Cardinality(fall)
    BY <2>1
  <2> HIDE DEF P, f
  <2> QED
    BY <2>2, <2>3, <2>4
<1>3. \A x, y \in Owing : x # y => P[x] \cap P[y] = {}
  BY <1>1
<1>4. UNION {P[b] : b \in Owing} = Falling(m)
  <2>1. ASSUME NEW o \in UNION {P[b] : b \in Owing} PROVE o \in Falling(m)
    <3>1. PICK b \in Owing : o \in {b} \X FallingIn(bills[b].terms, m)
      BY <1>1
    <3>2. o = <<o[1], o[2]>> /\ o[1] = b /\ o[2] \in FallingIn(bills[b].terms, m)
      BY <3>1
    <3>3. o[2] \in Nat
      BY <1>1, <3>1, <3>2, ProjectionRows DEF PjInv, PjTypeOK, FallingIn, Occurrences
    <3> QED
      BY <1>1, <3>1, <3>2, <3>3 DEF Falling
  <2>2. ASSUME NEW o \in Falling(m) PROVE o \in UNION {P[b] : b \in Owing}
    <3>1. o[1] \in Owing /\ o = <<o[1], o[2]>> /\ o[2] \in FallingIn(bills[o[1]].terms, m)
      BY DEF Falling
    <3>2. o \in P[o[1]]
      BY <1>1, <3>1
    <3> HIDE DEF P
    <3> QED
      BY <3>1, <3>2
  <2> QED
    BY <2>1, <2>2
<1>5. SumOf(f, Owing) = BillValue * Cardinality(UNION {P[b] : b \in Owing})
  <2>1. \A b \in Owing : IsFiniteSet(P[b]) /\ f[b] = BillValue * Cardinality(P[b])
    BY <1>1, <1>2
  <2> HIDE DEF P, f
  <2> QED
    BY <1>1, <1>3, <2>1, SumOfCounts
<1>6. IsFiniteSet(UNION {P[b] : b \in Owing})
  <2>1. IsFiniteSet({P[b] : b \in Owing})
    <3> HIDE DEF P
    <3> QED
      BY <1>1, ImageIsFinite
  <2>2. \A b \in Owing : IsFiniteSet(P[b])
    BY <1>1, <1>2
  <2>3. \A p \in {P[b] : b \in Owing} : IsFiniteSet(p)
    <3> HIDE DEF P
    <3> QED
      BY <2>2
  <2> HIDE DEF P
  <2> QED
    BY <2>1, <2>3, FS_UNION
<1> QED
  BY <1>4, <1>5, <1>6 DEF ObligationsIn

LEMMA FallsWithin ==
  ASSUME PjInv, NEW b \in Bills, NEW i \in Nat
  PROVE  (b \in Owing /\ \E m \in Shown : i \in FallingIn(bills[b].terms, m))
           <=> <<b, i>> \in Within
<1>1. PICK t \in BillTerms : t = bills[b].terms
  BY DEF PjInv, PjTypeOK
<1>2. PICK due \in Nat, every \in Nat, count \in Nat \ {0} :
         due = t.due /\ every = t.every /\ count = t.count
  BY ProjectionRows
<1>3. PICK time \in Nat : time = i * every /\ (every > 0 => i <= time) /\ (i = 0 => time = 0)
  <2>1. i = 0 => i * every = 0
    OBVIOUS
  <2> QED
    BY <2>1, TimesGrows
<1>4. PICK s \in Nat, z \in Nat : s = Start /\ z = LastMonth /\ s <= z
  BY MonthsAreNat DEF PjInv, Start
<1>5. <<b, i>> \in Within <=>
        /\ i <= z /\ b \in Owing /\ due + time <= z
        /\ i = 0 \/ (every > 0 /\ i < count)
  BY <1>1, <1>2, <1>3, <1>4 DEF Within, Owing
<1>6. i \in Occurrences(t) <=> i = 0 \/ (every > 0 /\ i < count)
  BY <1>2 DEF Occurrences
<1>7. DueMonth(t, i) = (IF due + time > s THEN due + time ELSE s)
  BY <1>2, <1>3, <1>4 DEF DueMonth, Larger
<1>8. (\E m \in Shown : i \in FallingIn(t, m)) <=> i \in Occurrences(t) /\ DueMonth(t, i) \in s .. z
  BY <1>4 DEF FallingIn, Shown
<1>9. DueMonth(t, i) \in s .. z <=> due + time <= z
  BY <1>4, <1>7
<1>10. i = 0 \/ every > 0 => (due + time <= z => i <= z)
  BY <1>3, <1>4
<1> QED
  BY <1>1, <1>5, <1>6, <1>8, <1>9, <1>10

LEMMA BillsAreForecastOnce == PjInv => BillsForecastOnce
<1> SUFFICES ASSUME PjInv PROVE BillsForecastOnce
  OBVIOUS
<1> DEFINE f == [m \in Shown |-> ObligationsIn(m)]
           P == [m \in Shown |-> Falling(m)]
<1>1. IsFiniteSet(Shown) /\ BillValue \in Nat
  BY MonthsAreNat, FS_Interval, ProjectionAmounts DEF PjInv, Shown, Start
<1>2. \A m \in Shown : IsFiniteSet(P[m]) /\ f[m] = BillValue * Cardinality(P[m])
  BY ObligationsAre
<1>3. \A x, y \in Shown : x # y => P[x] \cap P[y] = {}
  BY DEF Falling, FallingIn
<1>4. UNION {P[m] : m \in Shown} = Within
  <2>1. ASSUME NEW o PROVE o \in UNION {P[m] : m \in Shown} <=> \E m \in Shown : o \in Falling(m)
    OBVIOUS
  <2>2. ASSUME NEW o \in Bills \X Nat
        PROVE  (\E m \in Shown : o \in Falling(m)) <=> o \in Within
    <3>1. PICK b \in Bills, i \in Nat : o = <<b, i>>
      OBVIOUS
    <3>2. \A m : o \in Falling(m) <=> b \in Owing /\ i \in FallingIn(bills[b].terms, m)
      BY <3>1 DEF Falling
    <3> QED
      BY <3>1, <3>2, FallsWithin
  <2>3. Within \subseteq Bills \X Nat /\ \A m : Falling(m) \subseteq Bills \X Nat
    BY MonthsAreNat DEF PjInv, Within, Falling
  <2> HIDE DEF P
  <2> QED
    BY <2>1, <2>2, <2>3
<1>5. SumOf(f, Shown) = BillValue * Cardinality(UNION {P[m] : m \in Shown})
  <2> HIDE DEF f, P
  <2> QED
    BY <1>1, <1>2, <1>3, SumOfCounts
<1> QED
  BY <1>4, <1>5 DEF BillsForecastOnce, Within

-----------------------------------------------------------------------------
LEMMA MaxIs ==
  ASSUME NEW S \in SUBSET Int, NEW x \in S, \A y \in S : y <= x
  PROVE  Max(S) = x
<1>1. x \in S /\ \A y \in S : x >= y
  OBVIOUS
<1>2. PICK m : m = Max(S)
  OBVIOUS
<1>3. m \in S /\ \A y \in S : m >= y
  BY <1>1, <1>2 DEF Max
<1>4. m \in Int /\ x \in Int /\ m >= x /\ x >= m
  BY <1>1, <1>3
<1> QED
  BY <1>2, <1>4

LEMMA ParcelsAreTyped ==
  ASSUME PjInv, NEW r \in parcels
  PROVE  /\ r.of \in Goods /\ r.current \in Nat /\ r.booked \in Nat /\ r.amount \in Nat
         /\ Anchor(r) \in Nat /\ Anchor(r) >= 1 /\ PartsOf[r.of] \in Nat
<1>1. r \in Parcels
  BY DEF PjInv, PjTypeOK
<1>2. r.booked \in Nat /\ r.booked >= 1 /\ (r.competence # 0 => r.competence \in Nat /\ r.competence >= 1)
  BY <1>1, ProjectionBounds DEF Parcels, Months, NoCompetence
<1> QED
  BY <1>1, <1>2, ProjectionAmounts, ProjectionRows DEF Parcels, Anchor, NoCompetence

(* A purchase recorded in order is one series, and the row of it that was   *)
(* seen last is that of its last instalment.                                *)
LEMMA LastOfGoods ==
  ASSUME PjInv, NEW r \in parcels, InOrder(r.of), NEW q, q = LastSeen(Series(r))
  PROVE  /\ q \in parcels /\ q.of = r.of /\ q.amount = r.amount /\ q.current = LastPart(r.of)
         /\ q.current > 0 /\ Anchor(q) = q.current
         /\ \A s \in parcels : s.of = r.of => Series(s) = Series(r)
<1> DEFINE mine == {p \in parcels : p.of = r.of}
<1>1. \A p, s \in mine : /\ Anchor(p) = p.current /\ p.amount = s.amount
                         /\ p.current > s.current => p.booked >= s.booked
  BY DEF InOrder
<1>2. ASSUME NEW p \in mine PROVE Series(p) = <<r.of, r.amount, 1>>
  <2>1. p.current \in Nat /\ p.current >= 1 /\ Anchor(p) = p.current
    BY <1>1, ParcelsAreTyped
  <2>2. Origin(p) = 1
    BY <2>1 DEF Origin, Larger
  <2> QED
    BY <1>1, <2>2 DEF Series
<1>3. /\ q \in parcels /\ Series(q) = Series(r)
      /\ ~ \E s \in parcels : Series(s) = Series(r) /\ SeenAfter(s, q)
  <2>1. PICK k : k = Series(r) /\ \E p \in parcels : Series(p) = k
    OBVIOUS
  <2> QED
    BY <2>1, LastSeenIs DEF PjInv
<1>4. q \in mine /\ r \in mine
  BY <1>3 DEF Series
<1>5. \A s \in mine : Series(s) = Series(r) /\ ~ SeenAfter(s, q)
  BY <1>2, <1>3, <1>4
<1>6. ASSUME NEW s \in mine PROVE s.current <= q.current
  <2>1. /\ s.current \in Nat /\ q.current \in Nat /\ s.booked \in Nat /\ q.booked \in Nat
    BY <1>4, ParcelsAreTyped
  <2>2. s.current > q.current => s.booked >= q.booked
    BY <1>1, <1>4
  <2>3. ~ SeenAfter(s, q)
    BY <1>5
  <2> QED
    BY <2>1, <2>2, <2>3 DEF SeenAfter
<1>7. q.current = LastPart(r.of) /\ q.current > 0 /\ Anchor(q) = q.current
  <2>1. q.current \in Nat /\ q.current >= 1 /\ Anchor(q) = q.current
    BY <1>1, <1>4, ParcelsAreTyped
  <2>2. PICK S : S = {0} \cup {p.current : p \in mine}
    OBVIOUS
  <2>3. S \in SUBSET Int
    BY <2>2, ParcelsAreTyped
  <2>4. q.current \in S /\ \A y \in S : y <= q.current
    BY <1>4, <1>6, <2>1, <2>2
  <2>5. Max(S) = q.current
    BY <2>3, <2>4, MaxIs
  <2> QED
    BY <2>1, <2>2, <2>5 DEF LastPart
<1> QED
  BY <1>1, <1>3, <1>4, <1>5, <1>7

LEMMA NothingRecorded ==
  ASSUME PjInv, NEW g \in Goods, LastPart(g) > 0
  PROVE  \E r \in parcels : r.of = g
<1> SUFFICES ASSUME ~ \E r \in parcels : r.of = g PROVE FALSE
  OBVIOUS
<1>1. PICK S : S = {0} \cup {r.current : r \in {p \in parcels : p.of = g}}
  OBVIOUS
<1>2. S = {0}
  BY <1>1
<1>3. S \in SUBSET Int /\ 0 \in S /\ \A y \in S : y <= 0
  BY <1>2
<1>4. PICK x \in S : x = 0
  BY <1>3
<1>5. Max(S) = x
  BY <1>3, <1>4, MaxIs
<1> QED
  BY <1>1, <1>4, <1>5 DEF LastPart

LEMMA PartsAreForecastOnce == PjInv => PartsForecastOnce
<1> SUFFICES ASSUME PjInv, \A g \in Goods : InOrder(g), NEW m \in Shown
             PROVE  InstallmentsIn(m) = SumOf(
                [g \in Goods |-> (CHOOSE r \in parcels : r.of = g).amount],
                {g \in Goods : LastPart(g) > 0 /\ m \in LastPart(g) + 1 .. PartsOf[g]})
  BY DEF PartsForecastOnce
<1> DEFINE F == Forecasting(m)
           G == {g \in Goods : LastPart(g) > 0 /\ m \in LastPart(g) + 1 .. PartsOf[g]}
           f == [r \in F |-> r.amount]
           h == [g \in Goods |-> (CHOOSE r \in parcels : r.of = g).amount]
           e == [r \in F |-> r.of]
<1>0. m \in Nat
  BY ShownAfter, MonthsBefore
<1>1. IsFiniteSet(F) /\ F \subseteq parcels
  BY InstallmentsAreNat DEF PjInv
\* What a row forecasts, when it is the last of its purchase.
<1>2. ASSUME NEW q \in parcels, q.current = LastPart(q.of), Anchor(q) = q.current, q.current > 0
      PROVE  m \in Remaining(q) <=> q.of \in G
  <2>1. PICK c \in Nat, n \in Nat : c = q.current /\ n = PartsOf[q.of] /\ q.of \in Goods
    BY ParcelsAreTyped
  <2>2. Remaining(q) = c + 1 .. c + (IF 0 > n - c THEN 0 ELSE n - c)
    BY <1>2, <2>1 DEF Remaining, Larger
  <2>3. q.of \in G <=> m \in c + 1 .. n
    BY <1>2, <2>1
  <2> QED
    BY <1>0, <2>1, <2>2, <2>3
<1>3. ASSUME NEW r \in parcels
      PROVE  /\ LastSeen(Series(r)) \in parcels /\ LastSeen(Series(r)).of = r.of
             /\ LastSeen(Series(r)).amount = r.amount
             /\ LastSeen(Series(r)) \in F <=> r.of \in G
             /\ \A s \in parcels : s.of = r.of => Series(s) = Series(r)
  <2>1. PICK q : q = LastSeen(Series(r))
    OBVIOUS
  <2>2. InOrder(r.of)
    BY ParcelsAreTyped
  <2>3. /\ q \in parcels /\ q.of = r.of /\ q.amount = r.amount /\ q.current = LastPart(r.of)
        /\ q.current > 0 /\ Anchor(q) = q.current
        /\ \A s \in parcels : s.of = r.of => Series(s) = Series(r)
    BY <2>1, <2>2, LastOfGoods
  <2>4. q \in F <=> m \in Remaining(q)
    BY <2>1 DEF Forecasting
  <2>5. m \in Remaining(q) <=> q.of \in G
    <3> HIDE DEF G
    <3> QED
      BY <1>2, <2>3
  <2> HIDE DEF F, G
  <2> QED
    BY <2>1, <2>3, <2>4, <2>5
<1>4. \A q \in F : \E r \in parcels : q = LastSeen(Series(r))
  BY DEF Forecasting
<1> HIDE DEF F
<1>5. ASSUME NEW p \in F, NEW q \in F, p.of = q.of PROVE p = q
  <2>1. PICK r \in parcels : p = LastSeen(Series(r))
    BY <1>4
  <2>2. PICK s \in parcels : q = LastSeen(Series(s))
    BY <1>4
  <2>3. r.of = s.of
    BY <1>3, <1>5, <2>1, <2>2
  <2> QED
    BY <1>3, <2>1, <2>2, <2>3
<1>6. G = {e[q] : q \in F}
  <2> HIDE DEF G
  <2>1. ASSUME NEW q \in F PROVE e[q] \in G
    BY <1>3, <1>4
  <2>2. ASSUME NEW g \in G PROVE \E q \in F : e[q] = g
    <3>1. g \in Goods /\ LastPart(g) > 0
      BY DEF G
    <3>2. PICK r \in parcels : r.of = g
      BY <3>1, NothingRecorded
    <3>3. LastSeen(Series(r)) \in F /\ LastSeen(Series(r)).of = g
      BY <1>3, <3>2
    <3> QED
      BY <3>3
  <2> HIDE DEF e
  <2> QED
    BY <2>1, <2>2
<1>7. ASSUME NEW q \in F PROVE f[q] = h[e[q]] /\ f[q] \in Nat
  <2>1. q \in parcels /\ q.of \in Goods /\ q.amount \in Nat
    BY <1>1, ParcelsAreTyped
  <2>2. PICK r \in parcels : r = CHOOSE s \in parcels : s.of = q.of /\ r.of = q.of
    BY <2>1
  <2> QED
    BY <2>1, <2>2
<1>8. SumOf(f, F) = SumOf(h, G)
  <2>1. \A p, q \in F : e[p] = e[q] => p = q
    BY <1>5
  <2>2. \A q \in F : f[q] = h[e[q]] /\ f[q] \in Nat
    BY <1>7
  <2> HIDE DEF e, f, h, G
  <2> QED
    BY <1>1, <1>6, <2>1, <2>2, SumRenamed
<1> QED
  BY <1>8 DEF InstallmentsIn, F

-----------------------------------------------------------------------------
LEMMA ForecastIsSound == PjInv => ForecastAddsUp
<1> SUFFICES ASSUME PjInv PROVE ForecastAddsUp
  OBVIOUS
<1>1. SnapshotAddsUp
  BY DEF PjInv, AddsUp, SnapshotAddsUp
<1> QED
  BY <1>1, BillsAreForecastOnce, PartsAreForecastOnce, SalaryIsForecastOnce, MoneyIsConserved
     DEF ForecastAddsUp

LEMMA PjAlways == PjSpec => []PjInv
  BY PjStart, PjStep, PTL DEF PjSpec

(* Whatever bills, instalments, credits and evidence a household has, in    *)
(* however many months: every occurrence of an unpaid bill within the       *)
(* horizon is projected once, and so is what is left of a purchase that was *)
(* recorded in order; a month has one salary; the projection, its           *)
(* validator's recalculation and that of the invariants give one position,  *)
(* which neither makes nor loses money; and a snapshot closes with what it  *)
(* opened with and what was evidenced (api.py, _forecast_*;                 *)
(* services/projection_engine.py, financial_invariants.py and               *)
(* financial_engine.py).                                                    *)
THEOREM ForecastAlwaysAddsUp == PjSpec => []ForecastAddsUp
  BY PjAlways, ForecastIsSound, PTL

-----------------------------------------------------------------------------
(* The parts side by side, as the runs step through them: each starts and   *)
(* steps as it does alone, so that what is shown of it alone holds.         *)
LEMMA PartsStart == MCInit => /\ ImInit /\ DrInit /\ IlInit /\ InvInit /\ FqInit /\ PjInit
  BY DEF MCInit

LEMMA PartsStep ==
  [MCNext]_mcVars => /\ [ImNext]_imVars /\ [DrNext]_drVars /\ [IlNext]_ilVars
                     /\ [InvNext]_invVars /\ [FqNext]_fqVars /\ [PjNext]_pjVars
<1> SUFFICES ASSUME [MCNext]_mcVars
             PROVE  /\ [ImNext]_imVars /\ [DrNext]_drVars /\ [IlNext]_ilVars
                    /\ [InvNext]_invVars /\ [FqNext]_fqVars /\ [PjNext]_pjVars
  OBVIOUS
<1> QED
  BY DEF MCNext, mcVars

LEMMA PartsAlone ==
  MCSpec => ImSpec /\ DrSpec /\ IlSpec /\ InvSpec /\ FqSpec /\ PjSpec
  BY PartsStart, PartsStep, PTL DEF MCSpec, ImSpec, DrSpec, IlSpec, InvSpec, FqSpec, PjSpec

(* Whatever part steps: batches, documents, loads, assets, quotas and what  *)
(* a projection reads stay of their types and within the limits the code    *)
(* gives them.                                                              *)
THEOREM SourcesAreTyped == MCSpec => []SourcesTypeOK
<1>1. ImSpec => []ImTypeOK
  <2>1. ImInv => ImTypeOK
    BY DEF ImInv, BatchTypes, ImRow, ImSteps, ImTypeOK
  <2> QED
    BY <2>1, ImportInit, ImportStep, PTL DEF ImSpec
<1>2. DrSpec => []DrTypeOK
  <2>1. DrInv => DrTypeOK
    BY DEF DrInv
  <2> QED
    BY <2>1, DrStart, DrStep, PTL DEF DrSpec
<1>3. FqSpec => []FqTypeOK
  <2>1. FqInv => FqTypeOK
    BY DEF FqInv
  <2> QED
    BY <2>1, FqStart, FqStep, PTL DEF FqSpec
<1>4. PjSpec => []PjTypeOK
  <2>1. PjInv => PjTypeOK
    BY DEF PjInv
  <2> QED
    BY <2>1, PjAlways, PTL
<1>5. ImTypeOK /\ DrTypeOK /\ IlTypeOK /\ InvTypeOK /\ FqTypeOK /\ PjTypeOK => SourcesTypeOK
  BY DEF SourcesTypeOK
<1> QED
  BY <1>1, <1>2, <1>3, <1>4, <1>5, InitialLoadTypes, InvestmentTypes, PartsAlone, PTL

(* What was put into investments and what the fund's quotas are worth add   *)
(* up, side by side as each does alone.                                     *)
THEOREM InvestmentsAlwaysAddUp == MCSpec => []InvestmentsAddUp
<1>1. FundingAddsUp /\ HoldingsAddUp => InvestmentsAddUp
  BY DEF InvestmentsAddUp
<1> QED
  BY <1>1, FundingIsSound, HoldingsFollow, PartsAlone, PTL

(* And so does the projection.                                              *)
THEOREM ProjectionAlwaysAddsUp == MCSpec => []ProjectionAddsUp
<1>1. ForecastAddsUp => ProjectionAddsUp
  BY DEF ProjectionAddsUp
<1> QED
  BY <1>1, ForecastAlwaysAddsUp, PartsAlone, PTL

(* The imports, the reading of documents and the initial load keep their    *)
(* promises beside the others too.                                          *)
THEOREM SourcesHold ==
  MCSpec => [](BatchesMatchBooks /\ NothingIsMisread /\ LoadedExactlyOnce)
  BY PartsAlone, BatchesAgree, DocumentsAreRead, InitialLoadOnce, PTL
=============================================================================
