------------------------------ MODULE InitialLoad ------------------------------
(***************************************************************************)
(* The bootstrap of a household from a manifest (cli/initial_load.py       *)
(* --apply).  A process resolves the manifest's accounts, profile,         *)
(* obligations and balances in one transaction, under an advisory lock of  *)
(* the household that its commit releases, then hands each document to the *)
(* pipeline of /api/imports, which commits on its own.  Operators start it *)
(* again after an interruption, or twice at once, and the household        *)
(* already works in the meantime.                                          *)
(*                                                                         *)
(* A row is known by its key, what _apply_obligations and _apply_balances  *)
(* look a seed up by, and by whether it agrees with the manifest.  A       *)
(* balance that another observation superseded is no longer looked at,     *)
(* until the redemption that did so is given back; that it was invalidated *)
(* makes no difference.                                                    *)
(***************************************************************************)
EXTENDS Naturals, FiniteSets

CONSTANTS
    Loads,        \* processes of the command, each started once
    Obligations,  \* seeds of the manifest
    Balances,     \* seeds of the manifest
    Statements,   \* documents of the manifest
    Closes,       \* [Statements -> the balance key whose closing it declares, or Nobody]
    Household,    \* who enters rows besides the loads
    MaxEntered,   \* bound: rows the household enters or supersedes
    Nobody

ASSUME LoadAssumption ==
    /\ Closes \in [Statements -> Balances \cup {Nobody}]
    /\ Household \notin Loads /\ Nobody \notin Loads
    /\ Statements \cap Loads = {}

Keys == Obligations \cup Balances

VARIABLES
    load,       \* [Loads -> the phase of a process and what it read]
    lock,       \* who holds pg_advisory_xact_lock of the household
    seeded,     \* obligations and balance observations
    loaded      \* the statements imported

ilVars == <<load, lock, seeded, loaded>>

IlInit ==
    /\ load = [l \in Loads |-> [phase |-> "idle", missing |-> {}, left |-> {}, new |-> {}]]
    /\ lock = Nobody
    /\ seeded = {}
    /\ loaded = {}

At(l, phase) == load[l].phase = phase
RowsOf(k) == {r \in seeded : r.key = k}
\* superseded_by_id IS NULL.
Visible(r) == r.is \in {"standing", "returned"}
Found(k) == {r \in RowsOf(k) : Visible(r)}
Row(k, by, agrees) == [key |-> k, by |-> by, agrees |-> agrees, is |-> "standing"]

\* A mutant: without the advisory lock.
NoLock == TRUE

\* main, up to the lock: a process waits while another's transaction holds it.
Unlocked == lock = Nobody

Begin(l) ==
    /\ At(l, "idle") /\ Unlocked
    /\ lock' = l
    /\ load' = [load EXCEPT ![l].phase = "locked"]
    /\ UNCHANGED <<seeded, loaded>>

(* _resolve_accounts to _apply_balances.  Of several rows of a key any one  *)
(* may be the one compared: it is skipped if it agrees, and stops the load  *)
(* with nothing written if it does not.                                     *)
Resolve(l) ==
    /\ At(l, "locked")
    /\ load' = [load EXCEPT ![l].phase = "resolved",
                            ![l].missing = {k \in Keys : Found(k) = {}}]
    /\ \A k \in Keys : Found(k) # {} => \E r \in Found(k) : r.agrees
    /\ UNCHANGED <<lock, seeded, loaded>>

Block(l) ==
    /\ At(l, "locked")
    /\ \E r \in seeded : Visible(r) /\ ~r.agrees
    /\ load' = [load EXCEPT ![l].phase = "blocked"]
    /\ lock' = Nobody
    /\ UNCHANGED <<seeded, loaded>>

Commit(l) ==
    /\ At(l, "resolved")
    /\ seeded' = seeded \cup {Row(k, l, TRUE) : k \in load[l].missing}
    /\ lock' = IF lock = l THEN Nobody ELSE lock
    /\ load' = [load EXCEPT ![l].phase = "loading", ![l].left = Statements]
    /\ UNCHANGED loaded

-----------------------------------------------------------------------------
(* _apply_documents: import_document looks for the digest, and commits the  *)
(* document with its records and the closing balance it declares.           *)
LookUp(l, d) ==
    /\ At(l, "loading") /\ load[l].new = {}
    /\ d \in load[l].left
    /\ load' = IF d \in loaded THEN [load EXCEPT ![l].left = @ \ {d}]
               ELSE [load EXCEPT ![l].new = {d}]
    /\ UNCHANGED <<lock, seeded, loaded>>

\* A closing of the document's own, whatever other observation has its key.
Declared(d) ==
    IF Closes[d] = Nobody THEN {} ELSE {Row(Closes[d], d, FALSE)}

\* uq of the digest: who commits second gets an IntegrityError nobody catches.
Import(l) ==
    /\ load[l].new # {} /\ At(l, "loading")
    /\ \E d \in load[l].new :
         IF d \in loaded
         THEN load' = [load EXCEPT ![l].phase = "dead"] /\ UNCHANGED <<seeded, loaded>>
         ELSE /\ loaded' = loaded \cup {d}
              /\ seeded' = seeded \cup Declared(d)
              /\ load' = [load EXCEPT ![l].left = @ \ {d}, ![l].new = {}]
    /\ UNCHANGED lock

Finish(l) ==
    /\ At(l, "loading") /\ load[l].left = {}
    /\ load' = [load EXCEPT ![l].phase = "finished"]
    /\ UNCHANGED <<lock, seeded, loaded>>

\* The process is interrupted: what it had not committed is gone.
Interrupt(l) ==
    /\ load[l].phase \in {"locked", "resolved", "loading"}
    /\ load' = [load EXCEPT ![l].phase = "dead"]
    /\ lock' = IF lock = l THEN Nobody ELSE lock
    /\ UNCHANGED <<seeded, loaded>>

-----------------------------------------------------------------------------
(* The household at work: it enters an obligation with the name and date of *)
(* a seed, or confirms a balance of a seed's account and date; it changes   *)
(* an obligation, or deletes one (the row stays, inactive); and it imports  *)
(* a statement.                                                             *)
MayEnter ==
    Cardinality({r \in seeded : r.by = Household \/ r.is # "standing"}) < MaxEntered
Enter(k, agrees) ==
    /\ MayEnter
    /\ seeded' = seeded \cup {Row(k, Household, agrees)}
    /\ UNCHANGED <<load, lock, loaded>>

Change(r) ==
    /\ r.key \in Obligations /\ r.agrees
    /\ seeded' = (seeded \ {r}) \cup {[r EXCEPT !.agrees = FALSE]}
    /\ UNCHANGED <<load, lock, loaded>>

(* A current balance is superseded: by one confirmed in its place, or by    *)
(* what a redemption leaves of it.  The new observation may be of another   *)
(* date, or have the key of a seed.                                         *)
Supersede(r, how) ==
    /\ MayEnter /\ r.key \in Balances /\ Visible(r)
    /\ LET left == (seeded \ {r}) \cup {[r EXCEPT !.is = how]} IN
         \/ seeded' = left
         \/ \E k \in Balances, agrees \in BOOLEAN :
                seeded' = left \cup {Row(k, Household, agrees)}
    /\ UNCHANGED <<load, lock, loaded>>
Replace(r) == Supersede(r, "replaced")
Redeem(r) == Supersede(r, "redeemed")

(* The redemption is deleted or its payment undone: what it left stays, and *)
(* is only invalidated.                                                     *)
GiveBack(r) ==
    /\ r.is = "redeemed"
    /\ seeded' = (seeded \ {r}) \cup {[r EXCEPT !.is = "returned"]}
    /\ UNCHANGED <<load, lock, loaded>>

UploadStatement(d) ==
    /\ d \notin loaded
    /\ loaded' = loaded \cup {d}
    /\ seeded' = seeded \cup Declared(d)
    /\ UNCHANGED <<load, lock>>

IlNext ==
    \/ \E l \in Loads :
         \/ Begin(l) \/ Resolve(l) \/ Block(l) \/ Commit(l)
         \/ \E d \in Statements : LookUp(l, d)
         \/ Import(l) \/ Finish(l) \/ Interrupt(l)
    \/ \E k \in Keys, agrees \in BOOLEAN : Enter(k, agrees)
    \/ \E r \in seeded : Change(r) \/ Replace(r) \/ Redeem(r) \/ GiveBack(r)
    \/ \E d \in Statements : UploadStatement(d)

IlSpec == IlInit /\ [][IlNext]_ilVars

-----------------------------------------------------------------------------
(* Properties.                                                             *)

IlTypeOK ==
    /\ \A l \in Loads :
         /\ load[l].phase \in {"idle", "locked", "resolved", "loading", "finished",
                               "blocked", "dead"}
         /\ load[l].missing \subseteq Keys
         /\ load[l].left \subseteq Statements /\ load[l].new \subseteq load[l].left
    /\ lock \in Loads \cup {Nobody}
    /\ seeded \subseteq [key : Keys, by : Loads \cup Statements \cup {Household},
                         agrees : BOOLEAN,
                         is : {"standing", "replaced", "redeemed", "returned"}]
    /\ loaded \subseteq Statements

(* However often the command is started, at once or after an interruption,  *)
(* a seed has one row that was never superseded, and a load that reports    *)
(* success leaves every seed and every document of the manifest in the      *)
(* books (_lock_household_initial_load; RUNBOOK_INITIAL_LOAD.md, section 5).*)
LoadedExactlyOnce ==
    /\ \A k \in Keys : Cardinality({r \in RowsOf(k) : r.by \in Loads /\ r.is = "standing"}) <= 1
    /\ \A l \in Loads : At(l, "finished") =>
         loaded = Statements /\ \A k \in Keys : RowsOf(k) # {}

(* A manifest applied again skips the balances it wrote instead of writing  *)
(* them twice (RUNBOOK_INITIAL_LOAD.md, section 5).  It does not hold: one  *)
(* that was superseded in the meantime is written again.                    *)
SeedGivesOneRow ==
    \A k \in Keys : Cardinality({r \in RowsOf(k) : r.by \in Loads}) <= 1

(* A load is refused only for what the household itself entered or changed: *)
(* the manifest that was interrupted can be applied again                   *)
(* (RUNBOOK_INITIAL_LOAD.md, section 5).                                    *)
RefusedOnlyForTheHousehold ==
    \A l \in Loads : At(l, "blocked") => \E r \in seeded : r.by \notin Statements /\ ~r.agrees
=============================================================================
