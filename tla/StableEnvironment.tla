------------------------- MODULE StableEnvironment -------------------------
(* The stable infrastructure of one stage: variables of a Vercel project   *)
(* whose values are written from custody, variables that are only          *)
(* observed, the manifest that lists them, Alchemy's record of them, and   *)
(* the three commands: deploy, sync and the drift report.                  *)
(*                                                                         *)
(* Vercel never shows a value (write-only), so all that tells a value that *)
(* was written from one that somebody else has put there is updatedAt.     *)
(* Deployments by the operator and drift reports by the workflow overlap;  *)
(* Photon's binding command and the dashboard write beside both.           *)
EXTENDS Naturals, FiniteSets

CONSTANTS
  None,
  Managed,         \* the variables that validateStableAdoptionCommand requires
  Observed,        \* variables with ObservedUnknown values
  PatchRetries,    \* times: 2 around updateStableEnvironmentVariable
  ReadbackRetries, \* times: 3 around its readback
  MaxRevision, MaxCustody, MaxWrites, MaxFaults

ASSUME StableAssumption ==
  /\ Managed \cap Observed = {} /\ None \notin Managed \cup Observed
  /\ \A n \in {PatchRetries, ReadbackRetries, MaxRevision, MaxCustody, MaxWrites, MaxFaults} : n \in Nat

Resource == Managed \cup Observed

VARIABLES
  live,      \* Vercel: what is there, its metadata, its value and updatedAt
  late,      \* PATCH requests that failed for their caller and may still land
  custody,   \* the value in the stage's Config custody, by age
  inventory, \* the last inventory artifact, and the source that took it
  manifest,  \* the accepted adoption manifest
  row,       \* Alchemy's state: props and attributes of each tracked resource
  deploy,    \* the deploy or sync that runs
  drift,     \* the drift report that runs, or ran last
  writes, faults  \* foreign writes and failures so far

vercel   == <<live, late>>
artifact == <<custody, inventory, manifest>>
vars == <<vercel, artifact, row, deploy, drift, writes, faults>>

Foreign == 0             \* a value that never was in custody
Shape   == {"stable", "other"}   \* type and targets: the manageable ones, or not

Props    == [shape : Shape, revision : Nat]
Manifest == [desired : [Resource -> Props], admitted : [Observed -> Nat],
             since : Nat]   \* the age of custody when its source was new
Live     == [present : BOOLEAN, shape : Shape, value : Nat, at : Nat \ {0}]
Metadata == [present : BOOLEAN, shape : Shape, at : Nat \ {0}]
Row      == [desired : Props, at : Nat, known : BOOLEAN]  \* at = 0: not tracked
Patch    == [resource : Managed, value : Nat]
Disposition == {"accepted", "blocking", "inconclusive"}

DeployState ==
  [pc : {"idle", "next", "patch", "readback"}, sync : BOOLEAN,
   todo : SUBSET Resource, wanted : [Resource -> Props], value : Nat,
   target : Resource \cup {None}, tries : Nat, acked : Nat]

DriftState ==
  [pc : {"idle", "reading"}, wanted : Manifest, rows : [Resource -> Row],
   todo : SUBSET Resource, findings : SUBSET Disposition,
   stale : BOOLEAN]  \* a managed value was foreign, or older than the revision

TypeOK ==
  /\ live \in [Resource -> Live] /\ late \subseteq Patch
  /\ custody \in Nat /\ inventory \in [found : [Resource -> Metadata], source : Nat, since : Nat]
  /\ manifest \in Manifest
  /\ row \in [Resource -> Row]
  /\ deploy \in DeployState /\ drift \in DriftState
  /\ writes \in Nat /\ faults \in Nat

-----------------------------------------------------------------------------
MetadataOf(l) == [present |-> l.present, shape |-> l.shape, at |-> l.at]

(* buildAdoptionManifest: a managed value is named by the inventory's      *)
(* source.                                                                 *)
FromInventory(i) ==
  [desired  |-> [r \in Resource |-> [shape |-> i.found[r].shape,
                                     revision |-> IF r \in Managed THEN i.source ELSE 0]],
   admitted |-> [r \in Observed |-> i.found[r].at],
   since    |-> i.since]

NoProps   == [r \in Resource |-> [shape |-> "stable", revision |-> 0]]
Untracked == [r \in Resource |-> [desired |-> NoProps[r], at |-> 0, known |-> FALSE]]

NoDeploy ==
  [pc |-> "idle", sync |-> FALSE, todo |-> {}, wanted |-> NoProps, value |-> Foreign,
   target |-> None, tries |-> 0, acked |-> 0]

NoDrift ==
  [pc |-> "idle", rows |-> Untracked, todo |-> {}, findings |-> {},
   wanted |-> [desired |-> NoProps, admitted |-> [r \in Observed |-> 0], since |-> 0],
   stale |-> FALSE]

Init ==
  /\ live = [r \in Resource |-> [present |-> TRUE, shape |-> "stable", value |-> Foreign, at |-> 1]]
  /\ late = {} /\ custody = 1
  /\ inventory = [found |-> [r \in Resource |-> MetadataOf(live[r])], source |-> 1, since |-> 1]
  /\ manifest = FromInventory(inventory)
  /\ row = Untracked
  /\ deploy = NoDeploy /\ drift = NoDrift
  /\ writes = 0 /\ faults = 0

-----------------------------------------------------------------------------
(* Vercel, the dashboard and Photon's binding command.                     *)

ForeignWrite(r) ==
  /\ live[r].present /\ writes < MaxWrites
  /\ writes' = writes + 1
  /\ \E shape \in Shape :
       live' = [live EXCEPT ![r] = [present |-> TRUE, shape |-> shape, value |-> Foreign, at |-> @.at + 1]]
  /\ UNCHANGED <<late, artifact, row, deploy, drift, faults>>

ForeignRemoval(r) ==
  /\ live[r].present /\ writes < MaxWrites
  /\ writes' = writes + 1
  /\ live' = [live EXCEPT ![r].present = FALSE]
  /\ UNCHANGED <<late, artifact, row, deploy, drift, faults>>

(* The body of the PATCH sets the value, the type and the target.          *)
Patched(l, value) == [present |-> TRUE, shape |-> "stable", value |-> value, at |-> l.at + 1]

Land(p) ==
  /\ late' = late \ {p}
  /\ live' = IF live[p.resource].present
             THEN [live EXCEPT ![p.resource] = Patched(@, p.value)] ELSE live
  /\ UNCHANGED <<artifact, row, deploy, drift, writes, faults>>

Lose(p) ==
  /\ late' = late \ {p}
  /\ UNCHANGED <<live, artifact, row, deploy, drift, writes, faults>>

-----------------------------------------------------------------------------
(* The operator's artifacts.                                               *)

RotateCustody ==
  /\ custody < MaxCustody
  /\ custody' = custody + 1
  /\ UNCHANGED <<vercel, inventory, manifest, row, deploy, drift, writes, faults>>

(* At the source of the last inventory, or at a newer one.                 *)
TakeInventory(source) ==
  /\ source >= inventory.source
  /\ inventory' = [found  |-> [r \in Resource |-> MetadataOf(live[r])], source |-> source,
                   since  |-> IF source = inventory.source THEN inventory.since ELSE custody]
  /\ UNCHANGED <<vercel, custody, manifest, row, deploy, drift, writes, faults>>

(* A manifest lists what the inventory lists; nothing leaves it here.      *)
BuildAdoptionManifest ==
  /\ \A r \in Resource : inventory.found[r].present
  /\ manifest' = FromInventory(inventory)
  /\ UNCHANGED <<vercel, custody, inventory, row, deploy, drift, writes, faults>>

(* prepareAdoptionManifestReadmission: an observed variable that the       *)
(* inventory lists; its metadata and updatedAt are accepted as they are.   *)
Readmissible(r) == r \in Observed /\ inventory.found[r].present

Readmitted(m, r) ==
  [m EXCEPT !.desired[r].shape = inventory.found[r].shape, !.admitted[r] = inventory.found[r].at]

ReAdmit(r) ==
  /\ Readmissible(r)
  /\ manifest' = Readmitted(manifest, r)
  /\ UNCHANGED <<vercel, custody, inventory, row, deploy, drift, writes, faults>>

(* validateStableAdoptionCommand: a managed variable has its stage's shape.*)
Valid(wanted) == \A r \in Managed : wanted.desired[r].shape = "stable"

(* sameValueOwnership: what diff compares, and it compares no value, no    *)
(* updatedAt.                                                              *)
SameDesired(left, right) == left.shape = right.shape /\ left.revision = right.revision

(* The plan: what is not tracked yet, or was reconciled for other props.   *)
Planned(wanted, rows) ==
  {r \in Resource : rows[r].at = 0 \/ ~SameDesired(wanted[r], rows[r].desired)}

Tracked(rows) == {r \in Resource : rows[r].at # 0}

-----------------------------------------------------------------------------
(* deploy and sync.  One of them runs at a time; its manifest and its      *)
(* custody are those of its start.  A resource is recorded as soon as it   *)
(* has been reconciled; a failure ends the command and leaves the rest.    *)

Fault == faults < MaxFaults /\ faults' = faults + 1

Abort == deploy' = NoDeploy

Again(retries) ==
  /\ deploy.tries < retries
  /\ deploy' = [deploy EXCEPT !.tries = @ + 1]

Start(sync, todo) ==
  /\ deploy.pc = "idle" /\ Valid(manifest) /\ todo # {}
  /\ deploy' = [deploy EXCEPT !.pc = "next", !.sync = sync, !.todo = todo,
                              !.wanted = manifest.desired, !.value = custody]
  /\ UNCHANGED <<vercel, artifact, row, drift, writes, faults>>

Deploy == Start(FALSE, Planned(manifest.desired, row))
Sync   == Start(TRUE, Tracked(row))

Finished ==
  /\ deploy.pc = "next" /\ deploy.todo = {}
  /\ Abort
  /\ UNCHANGED <<vercel, artifact, row, drift, writes, faults>>

News(r) == IF deploy.sync THEN row[r].desired ELSE deploy.wanted[r]

Fits(r) == live[r].present /\ live[r].shape = News(r).shape

(* Mutant: the props of the first reconciliation are kept.                 *)
RecordedForOldProps(r, known) ==
  [row EXCEPT ![r] = [desired |-> IF @.at = 0 THEN News(r) ELSE @.desired, at |-> live[r].at, known |-> known]]

Recorded(r, known) ==
  [row EXCEPT ![r] = [desired |-> News(r), at |-> live[r].at, known |-> known]]

(* A sync leaves alone what it finds unchanged or missing.                 *)
Skip(r) ==
  /\ deploy.pc = "next" /\ deploy.sync /\ r \in deploy.todo
  /\ ~live[r].present \/ live[r].at = row[r].at
  /\ deploy' = [deploy EXCEPT !.todo = @ \ {r}]
  /\ UNCHANGED <<vercel, artifact, row, drift, writes, faults>>

(* reconcile: what has no managed value is recorded as it is observed.     *)
Reconcile(r) ==
  /\ deploy.pc = "next" /\ r \in deploy.todo
  /\ deploy.sync => live[r].present /\ live[r].at # row[r].at
  /\ IF ~Fits(r) THEN Abort /\ UNCHANGED row
     ELSE /\ deploy' = [deploy EXCEPT !.todo = @ \ {r}, !.target = IF r \in Managed THEN r ELSE None,
                                      !.pc = IF r \in Managed THEN "patch" ELSE "next"]
          /\ row' = IF r \in Managed THEN row ELSE Recorded(r, FALSE)
  /\ UNCHANGED <<vercel, artifact, drift, writes, faults>>

Request == [resource |-> deploy.target, value |-> deploy.value]

PatchAnswered ==
  /\ deploy.pc = "patch" /\ live[deploy.target].present
  /\ live' = [live EXCEPT ![deploy.target] = Patched(@, deploy.value)]
  /\ deploy' = [deploy EXCEPT !.pc = "readback", !.tries = 0, !.acked = live[deploy.target].at + 1]
  /\ UNCHANGED <<late, artifact, row, drift, writes, faults>>

(* A 429 or 5xx is retried, also where Vercel still carries the request    *)
(* out; no answer, or one that does not decode, is not.                    *)
PatchFails ==
  /\ deploy.pc = "patch" /\ Fault
  /\ \E landing \in SUBSET {Request} : late' = late \cup landing
  /\ Again(PatchRetries) \/ Abort
  /\ UNCHANGED <<live, artifact, row, drift, writes>>

PatchRefused ==
  /\ deploy.pc = "patch" /\ ~live[deploy.target].present
  /\ Abort
  /\ UNCHANGED <<vercel, artifact, row, drift, writes, faults>>

(* Mutant: any updatedAt will do.                                          *)
ConvergedInMetadata(l) == l.present /\ l.shape = "stable"

(* The readback: Vercel shows what the answer said, updatedAt included.    *)
Converged(l) == l.present /\ l.shape = "stable" /\ l.at = deploy.acked

Readback ==
  /\ deploy.pc = "readback"
  /\ IF Converged(live[deploy.target]) THEN 
       /\ row' = Recorded(deploy.target, TRUE)
       /\ deploy' = [deploy EXCEPT !.pc = "next", !.target = None, !.tries = 0, !.acked = 0]
     ELSE UNCHANGED row /\ IF deploy.tries < ReadbackRetries THEN Again(ReadbackRetries) ELSE Abort
  /\ UNCHANGED <<vercel, artifact, drift, writes, faults>>

(* A read fails, or the process dies.                                      *)
DeployFails ==
  /\ deploy.pc # "idle" /\ Fault
  /\ \/ deploy.pc = "readback" /\ Again(ReadbackRetries)
     \/ Abort
  /\ UNCHANGED <<vercel, artifact, row, drift, writes>>

-----------------------------------------------------------------------------
(* The drift report.  Plan and manifest are those of its start.            *)

(* read: ownership of the value is kept only under the updatedAt of the    *)
(* row.                                                                    *)
ReadKnown(kept, l) == kept.known /\ kept.at = l.at

ActionOf(kept, l) ==
  CASE ~l.present -> "missing"
    [] l.present /\ kept.at = l.at -> "unchanged"
    [] l.present /\ kept.at # l.at -> "drifted"

(* hasAcceptedWriteOnlyBaseline                                            *)
AcceptedBaseline(r, wanted, kept, l) ==
  /\ r \in Observed /\ l.present
  /\ ActionOf(kept, l) = "unchanged" \/ wanted.admitted[r] = l.at

(* categoryFor and dispositionFor, of what native sync observes.           *)
Classify(r, wanted, kept, l) ==
  CASE l.present /\ ~ReadKnown(kept, l) ->
         IF AcceptedBaseline(r, wanted, kept, l) THEN "accepted" ELSE "inconclusive"
    [] OTHER -> IF ActionOf(kept, l) = "unchanged" THEN "accepted" ELSE "blocking"

(* What nobody sees: a value from elsewhere, or older than the revision.   *)
Stale(r, wanted) ==
  r \in Managed /\ (live[r].value = Foreign \/ live[r].value < wanted.since)

(* The plan and the rows are read in one step, an abstraction: the code    *)
(* reads the state for the plan and again for the sync                     *)
(* (report-drift.ts:487 and :552), and a deploy may record a row in        *)
(* between.  It does so with a custody that is no older than any row the   *)
(* plan has seen.                                                          *)
StartDrift ==
  /\ drift.pc = "idle" /\ Valid(manifest)
  /\ drift' = [pc |-> "reading", wanted |-> manifest, rows |-> row, todo |-> Tracked(row),
               findings |-> IF Planned(manifest.desired, row) = {} THEN {} ELSE {"blocking"},
               stale |-> FALSE]
  /\ UNCHANGED <<vercel, artifact, row, deploy, writes, faults>>

ReadTracked(r) ==
  /\ drift.pc = "reading" /\ r \in drift.todo
  /\ drift' = [drift EXCEPT !.todo = @ \ {r}, !.rows[r] = Untracked[r],
       !.findings = @ \cup {Classify(r, drift.wanted, drift.rows[r], live[r])},
       !.stale = @ \/ Stale(r, drift.wanted)]
  /\ UNCHANGED <<vercel, artifact, row, deploy, writes, faults>>

(* unavailableNativeResult stands for everything that was observed.        *)
DriftUnavailable ==
  /\ drift.pc = "reading" /\ Fault
  /\ drift' = [drift EXCEPT !.todo = {}, !.findings = {"inconclusive"}]
  /\ UNCHANGED <<vercel, artifact, row, deploy, writes>>

Report ==
  /\ drift.pc = "reading" /\ drift.todo = {}
  /\ drift' = NoDrift
  /\ UNCHANGED <<vercel, artifact, row, deploy, writes, faults>>

(* The status of buildInfrastructureDriftReport.                           *)
Status ==
  CASE "blocking" \in drift.findings -> "failed"
    [] "blocking" \notin drift.findings /\ "inconclusive" \in drift.findings -> "inconclusive"
    [] OTHER -> "no_op"

-----------------------------------------------------------------------------
Next ==
  \/ \E r \in Resource :
       ForeignWrite(r) \/ ForeignRemoval(r) \/ Skip(r) \/ Reconcile(r) \/ ReadTracked(r)
  \/ \E p \in late : Land(p) \/ Lose(p)
  \/ RotateCustody \/ BuildAdoptionManifest
  \/ \E source \in 1..MaxRevision : TakeInventory(source)
  \/ \E r \in Observed : ReAdmit(r)
  \/ Deploy \/ Sync \/ Finished
  \/ PatchAnswered \/ PatchFails \/ PatchRefused \/ Readback \/ DeployFails
  \/ StartDrift \/ DriftUnavailable \/ Report

Spec == Init /\ [][Next]_vars

-----------------------------------------------------------------------------
(* A report that finds nothing to report is true: every managed variable   *)
(* held, when it was read, a value from custody, and none older than the   *)
(* revision that the manifest names, whoever else writes, whatever lands   *)
(* late, and with deploys and syncs under way.  Vercel shows no value, so  *)
(* the code has to conclude this from updatedAt alone.                     *)
CleanReportsAreTrue == [][Report /\ Status = "no_op" => ~drift.stale]_vars

(* A deploy that finishes leaves nothing to plan for its manifest, however *)
(* often it and the commands before it were cut off, and whatever else was *)
(* written: what reconcile records is what diff compares next time.        *)
DeploysConverge ==
  [][Finished /\ ~deploy.sync => Planned(deploy.wanted, row) = {}]_vars
=============================================================================
