---------------------------- MODULE StateMigration ----------------------------
(***************************************************************************)
(* The retirement of obsolete rows of the deployment state, and their      *)
(* restoration from a backup file.                                         *)
(* Source: packages/infrastructure/src/state/preview-state-migration.ts,   *)
(* r2-objects.ts; packages/infrastructure/scripts/migrate-state.ts.        *)
(*                                                                         *)
(* One operator runs the command again and again.  Every run may plan,     *)
(* apply or restore, reads and writes one row at a time and may stop at    *)
(* any step.  Deployments change the rows that the manifest desires.       *)
(***************************************************************************)
EXTENDS Naturals, FiniteSets

CONSTANTS
  Fqn,           \* the names of rows
  Stale,         \* policy.staleFingerprints
  CurrentCount,  \* policy.currentCount
  DesiredCount,  \* policy.desiredCount
  Manifest,      \* adoption manifests: a digest and the desired resources
  MaxVersion,    \* bound on the versions of a row
  MaxDeploys,    \* bound on the changes by deployments
  MaxStops       \* bound on the runs that stop half way

ASSUME MigrationAssumption ==
  /\ Stale \subseteq Fqn
  /\ {CurrentCount, DesiredCount, MaxVersion, MaxDeploys, MaxStops} \subseteq Nat
  /\ \A m \in Manifest : m.resources \subseteq Fqn

VARIABLES
  rows,      \* the state: the rows there are, each at its version
  file,      \* the backup file
  pc,        \* the next step of the command
  phase,     \* what the command is reading the rows for
  manifest,  \* the manifest of the command
  archive,   \* the backup it has loaded
  got,       \* the rows it has read
  todo,      \* the names it has still to read, delete or write
  receipt,   \* the last receipt
  deploys,   \* changes by deployments
  changed,   \* a deployment has changed a row during the command
  stops      \* runs that stopped half way

vars == <<rows, file, pc, phase, manifest, archive, got, todo, receipt, deploys, changed, stops>>

history == <<deploys, changed, stops>>
-----------------------------------------------------------------------------

NoRows == [f \in {} |-> 0]

Rows == UNION {[names -> 0..MaxVersion] : names \in SUBSET Fqn}

With(r, f, version) == [g \in DOMAIN r \cup {f} |-> IF g = f THEN version ELSE r[g]]

Without(r, names) == [g \in DOMAIN r \ names |-> r[g]]

NoFile == [status |-> "none", digest |-> "none", rows |-> NoRows]
Torn   == [status |-> "torn", digest |-> "none", rows |-> NoRows]

Phase == {"plan", "apply", "resume", "readback", "restore", "verify"}

(* The claim of the receipt that a phase ends with.                        *)
Claim(p) == CASE p = "plan" -> "planned"
              [] p \in {"apply", "resume", "readback"} -> "retired"
              [] p \in {"restore", "verify"} -> "restored"

TypeOK ==
  /\ rows \in Rows /\ got \in Rows /\ archive \in Rows
  /\ file.status \in {"none", "torn", "saved"} /\ file.rows \in Rows
  /\ pc \in {"idle", "list", "get", "decide", "save", "write", "retire", "remove", "set", "receipt"}
  /\ phase \in Phase
  /\ manifest \in Manifest
  /\ todo \subseteq Fqn
  /\ receipt \in {"none", "planned", "retired", "restored"}
  /\ deploys \in 0..MaxDeploys /\ changed \in BOOLEAN /\ stops \in 0..MaxStops

Init ==
  /\ rows \in {r \in Rows : Stale \subseteq DOMAIN r /\ \A f \in DOMAIN r : r[f] = 0}
  /\ file = NoFile
  /\ pc = "idle" /\ phase = "plan"
  /\ manifest \in Manifest
  /\ archive = NoRows /\ got = NoRows /\ todo = {}
  /\ receipt = "none"
  /\ deploys = 0 /\ changed = FALSE /\ stops = 0

-----------------------------------------------------------------------------
(* The command.                                                            *)

(* The rows are read again, for another purpose.                           *)
ReadFor(p) == pc' = "list" /\ phase' = p

(* With its inputs in order, and the version of the state store accepted.  *)
StartCommand(p, m) ==
  /\ pc = "idle"
  /\ ReadFor(p)
  /\ manifest' = m
  /\ changed' = FALSE
  /\ UNCHANGED <<rows, file, archive, got, todo, receipt, deploys, stops>>

Plan    == \E m \in Manifest : StartCommand("plan", m) /\ UNCHANGED archive
Apply   == \E m \in Manifest : StartCommand("apply", m) /\ UNCHANGED archive

(* Restoring loads the backup before it reads anything.                    *)
Restore ==
  /\ pc = "idle"
  /\ file.status = "saved"
  /\ archive' = file.rows
  /\ ReadFor("restore")
  /\ changed' = FALSE
  /\ UNCHANGED <<rows, file, manifest, got, todo, receipt, deploys, stops>>

(* A run stops: a call fails, whether it was carried out or not, a check   *)
(* does not hold, or the process dies.                                     *)
Stop ==
  /\ pc # "idle"
  /\ stops < MaxStops
  /\ stops' = stops + 1
  /\ pc' = "idle"
  /\ UNCHANGED <<rows, file, phase, manifest, archive, got, todo, receipt, deploys, changed>>

List ==
  /\ pc = "list"
  /\ todo' = DOMAIN rows
  /\ got' = NoRows
  /\ pc' = "get"
  /\ UNCHANGED <<rows, file, phase, manifest, archive, receipt, history>>

(* The rows are read one by one; a listed row that is gone ends the run.   *)
Get ==
  /\ pc = "get"
  /\ \E f \in todo :
       IF f \in DOMAIN rows
       THEN /\ got' = With(got, f, rows[f])
            /\ todo' = todo \ {f}
            /\ UNCHANGED pc
       ELSE pc' = "idle" /\ UNCHANGED <<got, todo>>
  /\ UNCHANGED <<rows, file, phase, manifest, archive, receipt, history>>

HasRead ==
  /\ pc = "get" /\ todo = {}
  /\ pc' = "decide"
  /\ UNCHANGED <<rows, file, phase, manifest, archive, got, todo, receipt, history>>

-----------------------------------------------------------------------------
(* What the rows that were read are good for.                              *)

StaleOf(m, r) == DOMAIN r \ m.resources

CountFits(r) == Cardinality(DOMAIN r) = CurrentCount

(* Mutant: any rows in the right number will do.                           *)
PrepareByCount(m, r) == CountFits(r) /\ Cardinality(m.resources) = DesiredCount

(* The exact discontinuity the policy was written for.                     *)
PrepareResources(m, r) ==
  /\ CountFits(r)
  /\ Cardinality(m.resources) = DesiredCount
  /\ StaleOf(m, r) = Stale

(* Mutant: the backup of another manifest is as good.                      *)
ResumeAnyBackup(m, r) ==
  /\ Cardinality(DOMAIN r) = CurrentCount - Cardinality(Stale)
  /\ file.status = "saved"
  /\ PrepareResources(m, file.rows)
  /\ r = Without(file.rows, StaleOf(m, file.rows))

(* Everything has happened: the retained rows are those of the backup.     *)
ResumeRetirement(m, r) ==
  /\ Cardinality(DOMAIN r) = CurrentCount - Cardinality(Stale)
  /\ file.status = "saved" /\ file.digest = m.digest
  /\ PrepareResources(m, file.rows)
  /\ r = Without(file.rows, StaleOf(m, file.rows))

RetirementReadBack(r) ==
  /\ Cardinality(DOMAIN r) = CurrentCount - Cardinality(Stale)
  /\ DOMAIN r \cap Stale = {}

Verdict ==
  CASE phase = "plan"     -> PrepareResources(manifest, got)
    [] phase = "resume"   -> ResumeRetirement(manifest, got)
    [] phase = "readback" -> RetirementReadBack(got)
    [] phase = "verify"   -> got = archive

(* A run that only has to look earns its receipt, or ends.                 *)
Conclude ==
  /\ pc = "decide" /\ phase \notin {"apply", "restore"}
  /\ pc' = IF Verdict THEN "receipt" ELSE "idle"
  /\ UNCHANGED <<rows, file, phase, manifest, archive, got, todo, receipt, history>>

(* Only rows in the wrong number may be those of a retirement that was     *)
(* interrupted.                                                            *)
PrepareRetirement ==
  /\ pc = "decide" /\ phase = "apply"
  /\ CASE PrepareResources(manifest, got) -> pc' = "save" /\ UNCHANGED phase
       [] ~CountFits(got) -> ReadFor("resume")
       [] CountFits(got) /\ ~PrepareResources(manifest, got) -> pc' = "idle" /\ UNCHANGED phase
  /\ UNCHANGED <<rows, file, manifest, archive, got, todo, receipt, history>>

(* Mutant: restoring clears the state first.                               *)
RestoreAfterClearing ==
  /\ pc = "decide" /\ phase = "restore"
  /\ pc' = "remove"
  /\ todo' = DOMAIN got
  /\ UNCHANGED <<rows, file, phase, manifest, archive, got, receipt, history>>

(* Rows that are not in the backup go first.                               *)
PrepareRestore ==
  /\ pc = "decide" /\ phase = "restore"
  /\ pc' = "remove"
  /\ todo' = DOMAIN got \ DOMAIN archive
  /\ UNCHANGED <<rows, file, phase, manifest, archive, got, receipt, history>>

-----------------------------------------------------------------------------
(* Writing.                                                                *)

(* Writing the backup truncates the file that is there.                    *)
TruncateBackup ==
  /\ pc = "save"
  /\ file' = Torn
  /\ pc' = "write"
  /\ UNCHANGED <<rows, phase, manifest, archive, got, todo, receipt, history>>

(* Mutant: only the rows that stay are saved.                              *)
SaveRetained ==
  /\ pc = "write"
  /\ file' = [status |-> "saved", digest |-> manifest.digest,
              rows |-> Without(got, StaleOf(manifest, got))]
  /\ todo' = StaleOf(manifest, got)
  /\ pc' = "retire"
  /\ UNCHANGED <<rows, phase, manifest, archive, got, receipt, history>>

SaveBackup ==
  /\ pc = "write"
  /\ file' = [status |-> "saved", digest |-> manifest.digest, rows |-> got]
  /\ todo' = StaleOf(manifest, got)
  /\ pc' = "retire"
  /\ UNCHANGED <<rows, phase, manifest, archive, got, receipt, history>>

Done(next) == todo = {} /\ next /\ UNCHANGED <<rows, todo>>

DeleteRow ==
  \E f \in todo :
    /\ rows' = Without(rows, {f})
    /\ todo' = todo \ {f}
    /\ UNCHANGED <<pc, phase>>

RetireRows ==
  /\ pc = "retire"
  /\ DeleteRow \/ Done(ReadFor("readback"))
  /\ UNCHANGED <<file, manifest, archive, got, receipt, history>>

RemoveRows ==
  /\ pc = "remove"
  /\ \/ DeleteRow
     \/ /\ todo = {}
        /\ pc' = "set"
        /\ todo' = DOMAIN archive
        /\ UNCHANGED <<rows, phase>>
  /\ UNCHANGED <<file, manifest, archive, got, receipt, history>>

(* Mutant: rows are updated, but not created.                              *)
UpdateRows ==
  /\ pc = "set"
  /\ \/ \E f \in todo :
          /\ rows' = IF f \in DOMAIN rows THEN With(rows, f, archive[f]) ELSE rows
          /\ todo' = todo \ {f}
          /\ UNCHANGED <<pc, phase>>
     \/ Done(ReadFor("verify"))
  /\ UNCHANGED <<file, manifest, archive, got, receipt, history>>

SetRows ==
  /\ pc = "set"
  /\ \/ \E f \in todo :
          /\ rows' = With(rows, f, archive[f])
          /\ todo' = todo \ {f}
          /\ UNCHANGED <<pc, phase>>
     \/ Done(ReadFor("verify"))
  /\ UNCHANGED <<file, manifest, archive, got, receipt, history>>

WriteReceipt ==
  /\ pc = "receipt"
  /\ receipt' = Claim(phase)
  /\ pc' = "idle"
  /\ UNCHANGED <<rows, file, phase, manifest, archive, got, todo, history>>

Deployable == (UNION {m.resources : m \in Manifest}) \ Stale

NextVersion(f) == IF f \in DOMAIN rows THEN rows[f] + 1 ELSE 0

(* A deployment creates or updates a row that some manifest desires.       *)
Deploy ==
  /\ deploys < MaxDeploys
  /\ \E f \in Deployable :
       NextVersion(f) <= MaxVersion /\ rows' = With(rows, f, NextVersion(f))
  /\ deploys' = deploys + 1
  /\ changed' = TRUE
  /\ UNCHANGED <<file, pc, phase, manifest, archive, got, todo, receipt, stops>>

Step ==
  \/ List \/ Get \/ HasRead
  \/ Conclude \/ PrepareRetirement \/ PrepareRestore
  \/ TruncateBackup \/ SaveBackup \/ RetireRows \/ RemoveRows \/ SetRows
  \/ WriteReceipt

Next == Plan \/ Apply \/ Restore \/ Step \/ Stop \/ Deploy

Spec == Init /\ [][Next]_vars

(* A run goes on until it ends, and an operator who can restore will.      *)
FairSpec == Spec /\ WF_vars(Step) /\ SF_vars(Restore)
-----------------------------------------------------------------------------
(* Properties.                                                             *)

(* The state and the backup, as an archive of the stale rows.              *)
Abstract ==
  INSTANCE ReversibleRetirement
    WITH live <- Stale \cap DOMAIN rows,
         kept <- Stale \cap DOMAIN file.rows

(* The migration is reversible at every step (retire saves, then deletes): *)
(* it implements ReversibleRetirement, whatever a run leaves unfinished.   *)
Reversible == Abstract!Spec

(* Where a stale row is missing, a backup that can be loaded has it, as it *)
(* was ("The exact obsolete retained state rows were retired after full    *)
(* backup.").                                                              *)
NothingIsLost ==
  \A f \in Stale :
    \/ f \in DOMAIN rows /\ rows[f] = 0
    \/ file.status = "saved" /\ f \in DOMAIN file.rows /\ file.rows[f] = 0

(* A receipt claims only what is so, however many runs it took: no stale   *)
(* row is left and the backup is of this manifest; or, if no deployment    *)
(* came in between, the state is the one the policy accepts, or is the     *)
(* backup again ("restored exactly").                                      *)
ReceiptsAreTrue ==
  [][receipt' # receipt =>
       CASE receipt' = "planned"  -> changed \/ PrepareResources(manifest, rows)
         [] receipt' = "retired"  -> /\ DOMAIN rows \cap Stale = {}
                                     /\ file.status = "saved" /\ file.digest = manifest.digest
                                     /\ Cardinality(DOMAIN file.rows) = CurrentCount
         [] receipt' = "restored" -> changed \/ rows = file.rows]_vars

(* Retiring removes no row that a manifest desires, and restoring none     *)
(* that the backup holds, deployments in between or not.                   *)
DesiredRowsSurvive ==
  [][\A f \in DOMAIN rows \ DOMAIN rows' :
       \/ pc = "retire" /\ f \in Stale /\ f \notin manifest.resources
       \/ pc = "remove" /\ f \notin DOMAIN file.rows]_vars

(* An operator who keeps restoring gets the stale rows back, wherever      *)
(* earlier runs have stopped.                                              *)
RestoringWorks == []<>(Stale \subseteq DOMAIN rows)
=============================================================================
