------------------------------ MODULE Imports ------------------------------
(***************************************************************************)
(* Importing statements, invoices and payslips (api.py: /imports and       *)
(* /imports/batch).  A document row owns an encrypted artifact on disk;    *)
(* the row is committed with all its records, or not at all, while the     *)
(* artifact is written before and removed again when that fails.  The      *)
(* files of a batch are imported one after the other in one session, each  *)
(* in its own transaction, and the batch reports what became of each.      *)
(*                                                                         *)
(* A document's first flush bumps the household's revision row, so from    *)
(* there to its commit one import excludes every other; the search for a   *)
(* document of the same content runs before it.                            *)
(***************************************************************************)
EXTENDS Integers, Sequences, FiniteSets

CONSTANTS Importers,  \* requests being served
          Files,      \* contents, by hash
          Size,       \* the size of each
          MaxFile, MaxBatch, MaxBatchFiles, \* the limits of settings
          Unparsed,   \* files the parser cannot read until it is upgraded
          DocIds      \* bound: documents ever begun

ASSUME ImportSizes == Size \in [Files -> Nat]
ASSUME ImportLimits == {MaxFile, MaxBatch, MaxBatchFiles} \subseteq Nat
ASSUME ImportFiles == Unparsed \subseteq Files /\ DocIds \subseteq Nat

VARIABLES documents,  \* committed Document rows
          artifacts,  \* documents whose encrypted file is on disk
          reconciled, \* documents whose last reconciliation found a total
          importer,   \* what each request does
          upgraded,   \* whether the parser reads every file
          torn,       \* history: documents whose artifact failed to be saved
          faults      \* history: faults the code does not guard against

imVars == <<documents, artifacts, reconciled, importer, upgraded, torn, faults>>

Doc == [id : DocIds, file : Files, status : {"imported", "review_required"}]
Waiting == [step |-> "idle", left |-> <<>>, total |-> 0, over |-> FALSE,
            pending |-> {}, results |-> <<>>]

ImTypeOK ==
    /\ documents \subseteq Doc
    /\ artifacts \subseteq DocIds
    /\ reconciled \subseteq DocIds /\ torn \subseteq DocIds
    /\ \A s \in Importers : importer[s].step \in {"idle", "checking", "checked", "writing"}
    /\ upgraded \in BOOLEAN /\ faults \subseteq {"killed", "unacknowledged"}

-----------------------------------------------------------------------------
Known(f) == \E d \in documents : d.file = f
Parses(f) == upgraded \/ f \notin Unparsed
Current(s) == Head(importer[s].left)
Holder == {s \in Importers : importer[s].step = "writing"}
Fresh(i) == /\ i \notin artifacts
            /\ \A d \in documents : d.id # i
            /\ \A s \in Importers :
                  /\ \A p \in importer[s].pending : p.id # i
                  /\ \A n \in DOMAIN importer[s].results : importer[s].results[n].id # i

(* The next file of the request, after one that ended as the result says.  *)
Reported(m, result) ==
    [m EXCEPT !.step = "checking", !.left = Tail(@), !.results = Append(@, result)]

Kept(i) == [kept |-> TRUE, id |-> i]
Rejected(i) == [kept |-> FALSE, id |-> i]
None == 0 \* the id of a file no document was begun for

(* A file that failed takes nothing of itself into the next one's commit.  *)
(* A mutant: the batch goes on without a rollback.                         *)
NotRolledBack(m) == m
RolledBack(m) == [m EXCEPT !.pending = {}]

(* A mutant: the artifact of a file that failed is left.                   *)
Uncleaned(i) == artifacts
Cleaned(i) == artifacts \ {i}

-----------------------------------------------------------------------------
ImInit ==
    /\ documents = {} /\ artifacts = {} /\ reconciled = {}
    /\ importer = [s \in Importers |-> Waiting]
    /\ upgraded = FALSE /\ torn = {} /\ faults = {}

Upload(s, files) ==
    /\ importer[s] = Waiting
    /\ Len(files) \in 1 .. MaxBatchFiles
    /\ importer' = [importer EXCEPT ![s] = [Waiting EXCEPT !.step = "checking", !.left = files]]
    /\ UNCHANGED <<documents, artifacts, reconciled, upgraded, torn, faults>>

(* Sizes are added up file by file, and once the batch is too large no     *)
(* later file is looked at.                                                *)
Check(s) ==
    LET m == importer[s]
        f == Current(s)
        read == m.over \/ Size[f] > MaxFile
        total == IF read THEN m.total ELSE m.total + Size[f]
        over == m.over \/ total > MaxBatch
        seen == [m EXCEPT !.total = total, !.over = over] IN
    /\ m.step = "checking" /\ m.left # <<>>
    /\ importer' = [importer EXCEPT ![s] =
          IF over \/ Size[f] > MaxFile \/ Known(f)
          THEN RolledBack(Reported(seen, Rejected(None)))
          ELSE [seen EXCEPT !.step = "checked"]]
    /\ UNCHANGED <<documents, artifacts, reconciled, upgraded, torn, faults>>

NextId(i) == Fresh(i) /\ \A n \in DocIds : Fresh(n) => i <= n

(* The row is flushed before the artifact is saved under its fresh id: a   *)
(* document of the same content committed meanwhile stops it there.        *)
FlushDocument(s) ==
    /\ importer[s].step = "checked" /\ Holder = {}
    /\ IF Known(Current(s))
       THEN /\ importer' = [importer EXCEPT ![s] = RolledBack(Reported(@, Rejected(None)))]
            /\ UNCHANGED artifacts
       ELSE \E i \in DocIds :
            /\ NextId(i)
            /\ importer' = [importer EXCEPT ![s].step = "writing",
                  ![s].pending = @ \cup {[id |-> i, file |-> Current(s)]}]
            /\ artifacts' = artifacts \cup {i}
    /\ UNCHANGED <<documents, reconciled, upgraded, torn, faults>>

(* Saving the artifact may fail, before a byte of it is on disk or after:  *)
(* the row is rolled back, and what was written stays.                     *)
FailSave(s) ==
    /\ importer[s].step = "checked" /\ Holder = {} /\ ~Known(Current(s))
    /\ \E i \in DocIds : \E written \in SUBSET {i} :
          /\ NextId(i)
          /\ importer' = [importer EXCEPT ![s] = RolledBack(Reported(@, Rejected(i)))]
          /\ artifacts' = artifacts \cup written
          /\ torn' = torn \cup written
    /\ UNCHANGED <<documents, reconciled, upgraded, faults>>

Writing(s) == CHOOSE p \in importer[s].pending : p.file = Current(s)

(* What a commit makes of the session: a file the parser refuses is kept   *)
(* for review, without records and with an unknown reconciliation.         *)
Committed(s) ==
    /\ documents' = documents \cup
          {[id |-> p.id, file |-> p.file,
            status |-> IF Parses(p.file) THEN "imported" ELSE "review_required"] :
           p \in importer[s].pending}
    /\ reconciled' = reconciled \cup
          (IF Parses(Current(s)) THEN {Writing(s).id} ELSE {})

PersistDocument(s) ==
    /\ importer[s].step = "writing"
    /\ Committed(s)
    /\ importer' = [importer EXCEPT
          ![s] = [Reported(@, Kept(Writing(s).id)) EXCEPT !.pending = {}]]
    /\ UNCHANGED <<artifacts, upgraded, torn, faults>>

FailDocument(s) ==
    /\ importer[s].step = "writing"
    /\ artifacts' = Cleaned(Writing(s).id)
    /\ importer' = [importer EXCEPT ![s] = RolledBack(Reported(@, Rejected(Writing(s).id)))]
    /\ UNCHANGED <<documents, reconciled, upgraded, torn, faults>>

(* The database commits and its answer is lost: to the code a failure.     *)
LoseAnswer(s) ==
    /\ importer[s].step = "writing"
    /\ Committed(s)
    /\ artifacts' = Cleaned(Writing(s).id)
    /\ importer' = [importer EXCEPT
          ![s] = [Reported(@, Rejected(Writing(s).id)) EXCEPT !.pending = {}]]
    /\ faults' = faults \cup {"unacknowledged"}
    /\ UNCHANGED <<upgraded, torn>>

(* The batch's own audit event is written last.                            *)
Answer(s) ==
    /\ importer[s].step = "checking" /\ importer[s].left = <<>>
    /\ importer' = [importer EXCEPT ![s] = Waiting]
    /\ UNCHANGED <<documents, artifacts, reconciled, upgraded, torn, faults>>

Kill(s) ==
    /\ importer[s].step # "idle"
    /\ importer' = [importer EXCEPT ![s] = Waiting]
    /\ faults' = faults \cup {"killed"}
    /\ UNCHANGED <<documents, artifacts, reconciled, upgraded, torn>>

UpgradeParser ==
    /\ ~upgraded /\ upgraded' = TRUE
    /\ UNCHANGED <<documents, artifacts, reconciled, importer, torn, faults>>

(* A reconciliation run again reads the artifact and appends its result;   *)
(* it imports no record and leaves the document's status.                  *)
Reconcile(d) ==
    /\ d \in documents /\ d.id \in artifacts /\ Holder = {}
    /\ reconciled' = IF Parses(d.file) THEN reconciled \cup {d.id}
                     ELSE reconciled \ {d.id}
    /\ UNCHANGED <<documents, artifacts, importer, upgraded, torn, faults>>

Batches == UNION {[1 .. n -> Files] : n \in 1 .. MaxBatchFiles}

ImNext ==
    \/ \E s \in Importers :
          \/ \E files \in Batches : Upload(s, files)
          \/ Check(s) \/ FlushDocument(s) \/ FailSave(s)
          \/ PersistDocument(s) \/ FailDocument(s) \/ LoseAnswer(s)
          \/ Answer(s) \/ Kill(s)
    \/ UpgradeParser
    \/ \E d \in documents : Reconcile(d)

ImSpec == ImInit /\ [][ImNext]_imVars

-----------------------------------------------------------------------------
(* A content is one document, and, but for a process killed or a commit    *)
(* whose answer is lost, the artifacts on disk are those of the documents  *)
(* and of the imports under way: no document without its artifact, and no  *)
(* orphan of a race, of a sibling in the batch or of a file that failed,   *)
(* but for what a save that failed had written by then.                    *)
Owned == {d.id : d \in documents}
            \cup UNION {{p.id : p \in importer[s].pending} : s \in Importers}

ArtifactsMatchDocuments ==
    /\ \A d, e \in documents : d.file = e.file => d = e
    /\ faults = {} => artifacts = Owned \cup torn

(* What a batch reports of each file is what it left in the books, however *)
(* its files fail, repeat or race with another request's.                  *)
ReportMatchesBooks ==
    faults = {} =>
        \A s \in Importers : \A n \in DOMAIN importer[s].results :
            LET r == importer[s].results[n] IN
            r.id # None => (r.kept <=> \E d \in documents : d.id = r.id)

(* Both together: the books, the artifacts and the reports of a batch      *)
(* agree (import_documents of api.py).                                     *)
BatchesMatchBooks == ArtifactsMatchDocuments /\ ReportMatchesBooks

(* docs/ROADMAP.md of a file that fails before its document commits: its   *)
(* artifact "nunca fica no disco sem proveniencia".  The save is outside   *)
(* the try that removes it, so what a failing save had written stays.      *)
NoArtifactIsOrphaned == faults = {} => artifacts \subseteq Owned

(* EncryptedDocumentStore.delete: "never for an artifact whose owning row  *)
(* already committed".  The import removes it whenever the commit raises.  *)
CommittedKeepsItsArtifact == \A d \in documents : d.id \in artifacts

(* A document that reconciles has its records in the books.  A document    *)
(* kept for review by an older parser and reconciled again with a newer    *)
(* one does not, and its content cannot be imported again.                 *)
ReconciledMeansImported ==
    \A d \in documents : d.id \in reconciled => d.status = "imported"
=============================================================================
