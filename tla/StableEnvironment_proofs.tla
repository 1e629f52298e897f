----------------------- MODULE StableEnvironment_proofs -----------------------
(***************************************************************************)
(* A clean drift report is true, and a finished deploy leaves no plan.     *)
(***************************************************************************)
EXTENDS StableEnvironment, TLAPS

(* A value that may stand under a revision: it is from custody, and no     *)
(* older than that revision's source, for everybody who knows when that    *)
(* source was new.                                                         *)
Good(r, value, revision) ==
  /\ value # Foreign
  /\ revision <= inventory.source
  /\ revision = inventory.source => inventory.since <= value
  /\ revision = manifest.desired[r].revision => manifest.since <= value
  /\ revision = drift.wanted.desired[r].revision => drift.wanted.since <= value

(* Custody is at least as new as every source.                             *)
CustodyIsNewest ==
  /\ custody # Foreign
  /\ inventory.since <= custody /\ manifest.since <= custody /\ drift.wanted.since <= custody
  /\ \A r \in Managed : manifest.desired[r].revision <= inventory.source

(* A row that names its value and has Vercel's updatedAt is right.         *)
Vouched(r, kept) ==
  /\ kept.at <= live[r].at
  /\ kept.known /\ kept.at = live[r].at => Good(r, live[r].value, kept.desired.revision)

RowsVouch ==
  \A r \in Managed :
    row[r].desired.revision <= inventory.source /\ Vouched(r, row[r])

(* What a command writes is good under the names it may record it with.    *)
WritesAreGood ==
  deploy.pc # "idle" =>
    \A r \in Managed :
      /\ Good(r, deploy.value, deploy.wanted[r].revision)
      /\ Good(r, deploy.value, row[r].desired.revision)

(* An acknowledged updatedAt that still stands is this command's value.    *)
AcksAreOwn ==
  /\ deploy.pc \in {"patch", "readback"} => deploy.target \in Managed
  /\ deploy.pc = "readback" =>
       /\ deploy.acked <= live[deploy.target].at
       /\ live[deploy.target].at = deploy.acked => live[deploy.target].value = deploy.value

Clean == drift.findings \cap {"blocking", "inconclusive"} = {}

(* The report's rows vouch as long as they are to be read, and are those   *)
(* of its manifest unless the plan has already shown otherwise.            *)
ReportIsClean ==
  /\ \A r \in Managed : r \in drift.todo =>
       /\ Vouched(r, drift.rows[r])
       /\ Clean => drift.rows[r].desired.revision = drift.wanted.desired[r].revision
  /\ drift.stale => ~Clean

(* What a deploy has not reached is all that is left of its plan.          *)
PlanIsAhead ==
  deploy.pc # "idle" /\ ~deploy.sync =>
    Planned(deploy.wanted, row) \subseteq deploy.todo \cup {deploy.target}

NoTarget == deploy.pc \in {"idle", "next"} => deploy.target = None

IInv ==
  /\ TypeOK /\ CustodyIsNewest /\ RowsVouch /\ WritesAreGood /\ AcksAreOwn
  /\ ReportIsClean /\ PlanIsAhead /\ NoTarget

-----------------------------------------------------------------------------
(* Types.                                                                  *)

LEMMA FromInventoryType ==
  ASSUME TypeOK
  PROVE  /\ FromInventory(inventory) \in Manifest
         /\ FromInventory(inventory).since = inventory.since
         /\ \A r \in Managed : FromInventory(inventory).desired[r].revision = inventory.source
  BY DEF TypeOK, FromInventory, Manifest, Metadata, Props, Resource

LEMMA EmptyTypes ==
  /\ NoProps \in [Resource -> Props]
  /\ Untracked \in [Resource -> Row]
  /\ NoDeploy \in DeployState
  /\ NoDrift \in DriftState
  BY DEF NoProps, Untracked, NoDeploy, NoDrift, Props, Row, DeployState, DriftState, Shape,
         Manifest, Foreign, Disposition

LEMMA InitType == Init => TypeOK
  <1> SUFFICES ASSUME Init PROVE TypeOK
    OBVIOUS
  <1>1. live \in [Resource -> Live] /\ inventory \in [found : [Resource -> Metadata], source : Nat, since : Nat]
    BY DEF Init, Live, Shape, Foreign, MetadataOf, Metadata
  <1>2. manifest \in Manifest
    BY <1>1 DEF Init, FromInventory, Manifest, Metadata, Props, Resource
  <1> QED
    BY <1>1, <1>2, EmptyTypes DEF Init, TypeOK

(* The three parts of the state, each with the actions that change it.     *)
LEMMA LiveType ==
  ASSUME TypeOK, AcksAreOwn, [Next]_vars
  PROVE  /\ live' \in [Resource -> Live] /\ late' \subseteq Patch
         /\ \A r \in Resource : live'[r].at >= live[r].at
  <1> USE DEF TypeOK, Live, Patch, Foreign
  <1>1. ASSUME NEW r \in Resource, ForeignWrite(r)
        PROVE  live' \in [Resource -> Live] /\ (\A s \in Resource : live'[s].at >= live[s].at)
    BY <1>1 DEF ForeignWrite
  <1>2. ASSUME NEW r \in Resource, ForeignRemoval(r)
        PROVE  live' \in [Resource -> Live] /\ (\A s \in Resource : live'[s].at >= live[s].at)
    <2>1. live' = [live EXCEPT ![r] = [live[r] EXCEPT !.present = FALSE]]
      BY <1>2 DEF ForeignRemoval
    <2>2. [live[r] EXCEPT !.present = FALSE] \in Live /\ [live[r] EXCEPT !.present = FALSE].at = live[r].at
      OBVIOUS
    <2> QED
      BY <2>1, <2>2
  <1>3. ASSUME NEW p \in late, Land(p)
        PROVE  live' \in [Resource -> Live] /\ (\A s \in Resource : live'[s].at >= live[s].at)
    BY <1>3 DEF Land, Patched, Resource, Shape
  <1>4. ASSUME PatchAnswered
        PROVE  live' \in [Resource -> Live] /\ (\A s \in Resource : live'[s].at >= live[s].at)
    BY <1>4 DEF PatchAnswered, Patched, Resource, Shape, AcksAreOwn, DeployState
  <1>5. ASSUME PatchFails PROVE late' \subseteq Patch
    BY <1>5 DEF PatchFails, Request, AcksAreOwn, DeployState
  <1>6. ASSUME \/ \E p \in late : Lose(p)
               \/ RotateCustody \/ BuildAdoptionManifest
               \/ \E source \in 1..MaxRevision : TakeInventory(source)
               \/ \E r \in Observed : ReAdmit(r)
               \/ Deploy \/ Sync \/ Finished \/ \E r \in Resource : Skip(r) \/ Reconcile(r)
        PROVE  UNCHANGED live /\ late' \subseteq late
    BY <1>6 DEF Lose, RotateCustody, BuildAdoptionManifest, TakeInventory, ReAdmit, Deploy, Sync, Start,
                Finished, Skip, Reconcile, vercel
  <1>7. ASSUME \/ PatchRefused \/ Readback \/ DeployFails \/ StartDrift \/ DriftUnavailable \/ Report
               \/ \E r \in Resource : ReadTracked(r)
        PROVE  UNCHANGED live /\ late' \subseteq late
    BY <1>7 DEF PatchRefused, Readback, DeployFails, StartDrift, DriftUnavailable, Report, ReadTracked, vercel
  <1>8. ASSUME \/ \E r \in Resource : ForeignWrite(r) \/ ForeignRemoval(r)
               \/ PatchAnswered \/ \E p \in late : Land(p)
        PROVE  late' \subseteq late
    BY <1>8 DEF ForeignWrite, ForeignRemoval, PatchAnswered, Land
  <1>9. ASSUME PatchFails \/ UNCHANGED vars PROVE UNCHANGED live
    BY <1>9 DEF PatchFails, vars, vercel
  <1>10. UNCHANGED vars => late' = late
    BY DEF vars, vercel
  <1>11. UNCHANGED live => \A r \in Resource : live'[r].at >= live[r].at
    OBVIOUS
  <1>12. late' \subseteq Patch
    BY <1>5, <1>6, <1>7, <1>8, <1>10 DEF Next
  <1>13. live' \in [Resource -> Live] /\ (\A r \in Resource : live'[r].at >= live[r].at)
    BY <1>1, <1>2, <1>3, <1>4, <1>6, <1>7, <1>9, <1>11 DEF Next
  <1> QED
    BY <1>12, <1>13

(* Steps that take nothing but what they are named for.                    *)
External ==
  \/ \E r \in Resource : ForeignWrite(r) \/ ForeignRemoval(r)
  \/ \E p \in late : Land(p) \/ Lose(p)

Operator ==
  \/ RotateCustody \/ BuildAdoptionManifest
  \/ \E source \in 1..MaxRevision : TakeInventory(source)
  \/ \E r \in Observed : ReAdmit(r)

DeployStep ==
  \/ Deploy \/ Sync \/ Finished \/ \E r \in Resource : Skip(r) \/ Reconcile(r)
  \/ PatchAnswered \/ PatchFails \/ PatchRefused \/ Readback \/ DeployFails

DriftStep ==
  \/ StartDrift \/ DriftUnavailable \/ Report \/ \E r \in Resource : ReadTracked(r)

LEMMA Steps ==
  ASSUME [Next]_vars
  PROVE  External \/ Operator \/ DeployStep \/ DriftStep \/ UNCHANGED vars
  BY DEF Next, External, Operator, DeployStep, DriftStep

LEMMA Frames ==
  /\ External => UNCHANGED <<custody, inventory, manifest, row, deploy, drift>>
  /\ Operator => UNCHANGED <<live, late, row, deploy, drift>>
  /\ DeployStep => UNCHANGED <<custody, inventory, manifest, drift>>
  /\ DriftStep => UNCHANGED <<live, late, custody, inventory, manifest, row, deploy>>
  /\ UNCHANGED vars => UNCHANGED <<live, late, custody, inventory, manifest, row, deploy, drift>>
  <1>1. External => UNCHANGED <<custody, inventory, manifest, row, deploy, drift>>
    BY DEF External, ForeignWrite, ForeignRemoval, Land, Lose, artifact
  <1>2. Operator => UNCHANGED <<live, late, row, deploy, drift>>
    BY DEF Operator, RotateCustody, BuildAdoptionManifest, TakeInventory, ReAdmit, vercel
  <1>3. DeployStep => UNCHANGED <<custody, inventory, manifest, drift>>
    BY DEF DeployStep, Deploy, Sync, Start, Finished, Skip, Reconcile, PatchAnswered, PatchFails,
           PatchRefused, Readback, DeployFails, artifact
  <1>4. DriftStep => UNCHANGED <<live, late, custody, inventory, manifest, row, deploy>>
    BY DEF DriftStep, StartDrift, DriftUnavailable, Report, ReadTracked, vercel, artifact
  <1>5. UNCHANGED vars => UNCHANGED <<live, late, custody, inventory, manifest, row, deploy, drift>>
    BY DEF vars, vercel, artifact
  <1> QED
    BY <1>1, <1>2, <1>3, <1>4, <1>5

LEMMA ArtifactType ==
  ASSUME TypeOK, Operator
  PROVE  /\ custody' \in Nat /\ manifest' \in Manifest
         /\ inventory' \in [found : [Resource -> Metadata], source : Nat, since : Nat]
  <1>1. CASE RotateCustody
    BY <1>1 DEF RotateCustody, TypeOK
  <1>2. CASE BuildAdoptionManifest
    BY <1>2, FromInventoryType DEF BuildAdoptionManifest, TypeOK
  <1>3. CASE \E source \in 1..MaxRevision : TakeInventory(source)
    <2>1. \A r \in Resource : MetadataOf(live[r]) \in Metadata
      BY DEF TypeOK, MetadataOf, Metadata, Live
    <2> QED
      BY <1>3, <2>1, StableAssumption DEF TakeInventory, TypeOK, StableAssumption
  <1>4. CASE \E r \in Observed : ReAdmit(r)
    <2>1. PICK r \in Observed : ReAdmit(r)
      BY <1>4
    <2> DEFINE props == [manifest.desired[r] EXCEPT !.shape = inventory.found[r].shape]
    <2>2. props \in Props /\ r \in Resource /\ inventory.found[r].at \in Nat
      BY DEF TypeOK, Manifest, Props, Metadata, Resource
    <2>3. manifest' = [desired  |-> [manifest.desired EXCEPT ![r] = props],
                       admitted |-> [manifest.admitted EXCEPT ![r] = inventory.found[r].at],
                       since    |-> manifest.since]
      BY <2>1 DEF ReAdmit, Readmitted, TypeOK, Manifest
    <2> QED
      BY <2>1, <2>2, <2>3 DEF ReAdmit, TypeOK, Manifest
  <1> QED
    BY <1>1, <1>2, <1>3, <1>4 DEF Operator

LEMMA NewsType ==
  ASSUME TypeOK, NEW r \in Resource
  PROVE  News(r) \in Props
  BY DEF TypeOK, News, DeployState, Row

LEMMA RecordedFacts ==
  ASSUME TypeOK, NEW r \in Resource, NEW known \in BOOLEAN
  PROVE  /\ Recorded(r, known) \in [Resource -> Row]
         /\ Recorded(r, known)[r] = [desired |-> News(r), at |-> live[r].at, known |-> known]
         /\ \A s \in Resource : s # r => Recorded(r, known)[s] = row[s]
  BY NewsType DEF TypeOK, Recorded, Row, Live

LEMMA RowType ==
  ASSUME TypeOK, AcksAreOwn, DeployStep
  PROVE  row' \in [Resource -> Row]
  <1>1. ASSUME NEW r \in Resource, Reconcile(r) PROVE row' \in [Resource -> Row]
    BY <1>1, RecordedFacts DEF Reconcile, TypeOK
  <1>2. CASE Readback
    <2>1. deploy.target \in Resource
      BY <1>2 DEF Readback, AcksAreOwn, Resource
    <2> QED
      BY <1>2, <2>1, RecordedFacts DEF Readback, TypeOK
  <1>3. ASSUME ~Readback, ~\E r \in Resource : Reconcile(r) PROVE row' = row
    BY <1>3 DEF DeployStep, Deploy, Sync, Start, Finished, Skip, PatchAnswered, PatchFails,
           PatchRefused, DeployFails
  <1> QED
    BY <1>1, <1>2, <1>3 DEF TypeOK

-----------------------------------------------------------------------------
(* What a step of deploy or sync does, field by field.                     *)

SamePlan ==
  deploy'.value = deploy.value /\ deploy'.wanted = deploy.wanted /\ deploy'.sync = deploy.sync

Ends == deploy' = NoDeploy /\ UNCHANGED <<live, row>>

Begins ==
  /\ deploy.pc = "idle" /\ deploy'.pc = "next"
  /\ deploy'.value = custody /\ deploy'.wanted = manifest.desired /\ deploy'.target = None
  /\ ~deploy'.sync => deploy'.todo = Planned(manifest.desired, row)
  /\ UNCHANGED <<live, row>>

Continues ==
  /\ deploy.pc # "idle" /\ SamePlan
  /\ deploy'.pc = deploy.pc /\ deploy'.target = deploy.target /\ deploy'.acked = deploy.acked
  /\ deploy.sync \/ deploy'.todo = deploy.todo
  /\ UNCHANGED <<live, row>>

Takes(r) ==
  /\ deploy.pc = "next" /\ deploy'.pc = "patch" /\ deploy'.target = r
  /\ SamePlan /\ deploy'.todo = deploy.todo \ {r}
  /\ UNCHANGED <<live, row>>

Observes(r) ==
  /\ deploy.pc = "next" /\ deploy'.pc = "next" /\ deploy'.target = None
  /\ SamePlan /\ deploy'.todo = deploy.todo \ {r}
  /\ row' = Recorded(r, FALSE) /\ UNCHANGED live

Writes ==
  /\ deploy.pc = "patch" /\ deploy'.pc = "readback"
  /\ SamePlan /\ deploy'.target = deploy.target /\ deploy'.todo = deploy.todo
  /\ deploy'.acked = live[deploy.target].at + 1
  /\ live' = [live EXCEPT ![deploy.target] = Patched(@, deploy.value)] /\ UNCHANGED row

Confirms ==
  /\ deploy.pc = "readback" /\ deploy'.pc = "next" /\ deploy'.target = None
  /\ SamePlan /\ deploy'.todo = deploy.todo
  /\ live[deploy.target].at = deploy.acked
  /\ row' = Recorded(deploy.target, TRUE) /\ UNCHANGED live

LEMMA DeploySteps ==
  ASSUME TypeOK, AcksAreOwn, NoTarget, DeployStep
  PROVE  /\ deploy' \in DeployState
         /\ \/ Ends \/ Begins \/ Continues \/ Writes \/ Confirms
            \/ \E r \in Managed : Takes(r)
            \/ \E r \in Observed : Observes(r)
  <1> USE DEF SamePlan
  <1>0. /\ deploy \in DeployState /\ manifest.desired \in [Resource -> Props] /\ custody \in Nat
        /\ \A r \in Resource : live[r].at \in Nat
        /\ Planned(manifest.desired, row) \subseteq Resource /\ Tracked(row) \subseteq Resource
    BY DEF TypeOK, Manifest, Planned, Tracked, Live
  <1>1. ASSUME deploy' = NoDeploy, UNCHANGED <<live, row>>
        PROVE  deploy' \in DeployState /\ Ends
    BY <1>1, EmptyTypes DEF Ends
  <1>2. ASSUME NEW retries, Again(retries), deploy.pc # "idle", UNCHANGED <<live, row>>
        PROVE  deploy' \in DeployState /\ Continues
    BY <1>0, <1>2 DEF Again, DeployState, Continues
  <1>3. CASE Deploy
    BY <1>0, <1>3 DEF Deploy, Start, DeployState, Begins, NoTarget, vercel
  <1>4. CASE Sync
    BY <1>0, <1>4 DEF Sync, Start, DeployState, Begins, NoTarget, vercel
  <1>5. CASE Finished
    BY <1>1, <1>5 DEF Finished, Abort, vercel
  <1>6. ASSUME NEW r \in Resource, Skip(r) PROVE deploy' \in DeployState /\ Continues
    BY <1>0, <1>6 DEF Skip, DeployState, Continues, vercel
  <1>7. ASSUME NEW r \in Resource, Reconcile(r)
        PROVE  deploy' \in DeployState /\ (Ends \/ (r \in Managed /\ Takes(r)) \/ (r \in Observed /\ Observes(r)))
    <2>1. CASE ~Fits(r)
      BY <1>1, <1>7, <2>1 DEF Reconcile, Abort, vercel
    <2>2. CASE Fits(r) /\ r \in Managed
      <3>1. deploy' = [deploy EXCEPT !.todo = @ \ {r}, !.target = r, !.pc = "patch"]
        BY <1>7, <2>2 DEF Reconcile
      <3>2. deploy.pc = "next" /\ UNCHANGED <<live, row>>
        BY <1>7, <2>2 DEF Reconcile, vercel
      <3>3. deploy' \in DeployState
        BY <1>0, <3>1 DEF DeployState
      <3>4. Takes(r)
        BY <1>0, <3>1, <3>2 DEF DeployState, Takes
      <3> QED
        BY <2>2, <3>3, <3>4
    <2>3. CASE Fits(r) /\ r \notin Managed
      <3>1. r \in Observed
        BY <2>3 DEF Resource
      <3>2. deploy' = [deploy EXCEPT !.todo = @ \ {r}, !.target = None, !.pc = "next"]
        BY <1>7, <2>3 DEF Reconcile
      <3>3. deploy.pc = "next" /\ row' = Recorded(r, FALSE) /\ UNCHANGED live
        BY <1>7, <2>3 DEF Reconcile, vercel
      <3>4. deploy' \in DeployState
        BY <1>0, <3>2 DEF DeployState
      <3>5. Observes(r)
        BY <1>0, <3>2, <3>3 DEF DeployState, Observes
      <3> QED
        BY <3>1, <3>4, <3>5
    <2> QED
      BY <2>1, <2>2, <2>3
  <1>8. CASE PatchAnswered
    <2>1. deploy.target \in Resource
      BY <1>8 DEF PatchAnswered, AcksAreOwn, Resource
    <2> DEFINE n == live[deploy.target].at + 1
    <2>2. n \in Nat
      BY <1>0, <2>1
    <2>3. deploy' = [deploy EXCEPT !.pc = "readback", !.tries = 0, !.acked = n]
      BY <1>8 DEF PatchAnswered
    <2>4. /\ deploy.pc = "patch" /\ UNCHANGED row
          /\ live' = [live EXCEPT ![deploy.target] = Patched(@, deploy.value)]
      BY <1>8 DEF PatchAnswered
    <2> HIDE DEF n
    <2>5. deploy' \in DeployState
      BY <1>0, <2>2, <2>3 DEF DeployState
    <2>6. /\ deploy'.pc = "readback" /\ deploy'.acked = n /\ SamePlan
          /\ deploy'.target = deploy.target /\ deploy'.todo = deploy.todo
      BY <1>0, <2>3 DEF DeployState
    <2> QED
      BY <2>4, <2>5, <2>6 DEF Writes, n
  <1>9. CASE PatchFails
    BY <1>1, <1>2, <1>9 DEF PatchFails, Abort
  <1>10. CASE PatchRefused
    BY <1>1, <1>10 DEF PatchRefused, Abort, vercel
  <1>11. CASE Readback
    <2>1. CASE Converged(live[deploy.target])
      <3>1. deploy' = [deploy EXCEPT !.pc = "next", !.target = None, !.tries = 0, !.acked = 0]
        BY <1>11, <2>1 DEF Readback
      <3>2. /\ deploy.pc = "readback" /\ row' = Recorded(deploy.target, TRUE) /\ UNCHANGED live
            /\ live[deploy.target].at = deploy.acked
        BY <1>11, <2>1 DEF Readback, Converged, vercel
      <3>3. deploy' \in DeployState
        BY <1>0, <3>1 DEF DeployState
      <3>4. deploy'.pc = "next" /\ deploy'.target = None /\ SamePlan /\ deploy'.todo = deploy.todo
        BY <1>0, <3>1 DEF DeployState
      <3> QED
        BY <3>2, <3>3, <3>4 DEF Confirms
    <2>2. CASE ~Converged(live[deploy.target])
      BY <1>1, <1>2, <1>11, <2>2 DEF Readback, Abort, vercel
    <2> QED
      BY <2>1, <2>2
  <1>12. CASE DeployFails
    BY <1>1, <1>2, <1>12 DEF DeployFails, Abort, vercel
  <1> QED
    BY <1>3, <1>4, <1>5, <1>6, <1>7, <1>8, <1>9, <1>10, <1>11, <1>12 DEF DeployStep

-----------------------------------------------------------------------------
(* What a step of a drift report does, field by field.                     *)

Opens ==
  /\ drift'.wanted = manifest /\ drift'.rows = row /\ drift'.stale = FALSE
  /\ drift'.todo = Tracked(row)
  /\ drift'.findings = IF Planned(manifest.desired, row) = {} THEN {} ELSE {"blocking"}

Reads(r) ==
  /\ r \in drift.todo /\ drift'.wanted = drift.wanted /\ drift'.todo = drift.todo \ {r}
  /\ \A s \in Resource : s # r => drift'.rows[s] = drift.rows[s]
  /\ drift'.findings = drift.findings \cup {Classify(r, drift.wanted, drift.rows[r], live[r])}
  /\ drift'.stale = (drift.stale \/ Stale(r, drift.wanted))

GivesUp ==
  /\ drift'.wanted = drift.wanted /\ drift'.todo = {} /\ drift'.findings = {"inconclusive"}

LEMMA ClassifyType ==
  ASSUME NEW r, NEW wanted, NEW kept, NEW l
  PROVE  Classify(r, wanted, kept, l) \in Disposition
  <1>1. CASE l.present /\ ~ReadKnown(kept, l)
    BY <1>1 DEF Classify, Disposition
  <1>2. CASE ~(l.present /\ ~ReadKnown(kept, l))
    BY <1>2 DEF Classify, Disposition
  <1> QED
    BY <1>1, <1>2

LEMMA DriftSteps ==
  ASSUME TypeOK, DriftStep
  PROVE  /\ drift' \in DriftState
         /\ Opens \/ GivesUp \/ drift' = NoDrift \/ \E r \in Resource : Reads(r)
  <1>0. /\ drift \in DriftState /\ manifest \in Manifest /\ row \in [Resource -> Row]
        /\ Tracked(row) \subseteq Resource
    BY DEF TypeOK, Tracked
  <1>1. CASE StartDrift
    BY <1>0, <1>1 DEF StartDrift, DriftState, Opens, Disposition
  <1>2. ASSUME NEW r \in Resource, ReadTracked(r) PROVE drift' \in DriftState /\ Reads(r)
    <2> DEFINE found == Classify(r, drift.wanted, drift.rows[r], live[r])
               old   == Stale(r, drift.wanted)
    <2>1. found \in Disposition /\ old \in BOOLEAN
      BY ClassifyType DEF Stale
    <2>2. Untracked[r] \in Row
      BY EmptyTypes
    <2>3. drift' = [drift EXCEPT !.todo = @ \ {r}, !.rows = [@ EXCEPT ![r] = Untracked[r]],
                                 !.findings = @ \cup {found}, !.stale = @ \/ old]
      BY <1>2, Zenon DEF ReadTracked
    <2>4. r \in drift.todo
      BY <1>2 DEF ReadTracked
    <2> HIDE DEF found, old
    <2>5. drift' \in DriftState
      BY <1>0, <2>1, <2>2, <2>3 DEF DriftState
    <2>6. /\ drift'.wanted = drift.wanted /\ drift'.todo = drift.todo \ {r}
          /\ drift'.rows = [drift.rows EXCEPT ![r] = Untracked[r]]
          /\ drift'.findings = drift.findings \cup {found} /\ drift'.stale = (drift.stale \/ old)
      BY <1>0, <2>3 DEF DriftState
    <2>7. \A s \in Resource : s # r => drift'.rows[s] = drift.rows[s]
      BY <1>0, <2>6 DEF DriftState
    <2> QED
      BY <2>4, <2>5, <2>6, <2>7 DEF Reads, found, old
  <1>3. CASE DriftUnavailable
    BY <1>0, <1>3 DEF DriftUnavailable, DriftState, GivesUp, Disposition
  <1>4. CASE Report
    BY <1>4, EmptyTypes DEF Report
  <1> QED
    BY <1>1, <1>2, <1>3, <1>4 DEF DriftStep

LEMMA StepType ==
  ASSUME TypeOK, AcksAreOwn, NoTarget, [Next]_vars
  PROVE  TypeOK'
  <1>1. writes' \in Nat /\ faults' \in Nat
    <2>1. CASE External
      BY <2>1 DEF TypeOK, External, ForeignWrite, ForeignRemoval, Land, Lose
    <2>2. CASE Operator
      BY <2>2 DEF TypeOK, Operator, RotateCustody, TakeInventory, BuildAdoptionManifest, ReAdmit
    <2>3. ASSUME Deploy \/ Sync \/ Finished \/ \E r \in Resource : Skip(r) \/ Reconcile(r)
          PROVE  writes' \in Nat /\ faults' \in Nat
      BY <2>3 DEF TypeOK, Deploy, Sync, Start, Finished, Skip, Reconcile
    <2>4. ASSUME PatchAnswered \/ PatchFails \/ PatchRefused \/ Readback \/ DeployFails
          PROVE  writes' \in Nat /\ faults' \in Nat
      <3>1. PatchAnswered \/ PatchRefused \/ Readback => UNCHANGED <<writes, faults>>
        BY DEF PatchAnswered, PatchRefused, Readback
      <3>2. PatchFails \/ DeployFails => Fault /\ UNCHANGED writes
        BY DEF PatchFails, DeployFails
      <3> QED
        BY <2>4, <3>1, <3>2 DEF TypeOK, Fault
    <2>5. CASE DriftStep
      <3>1. StartDrift \/ Report => UNCHANGED <<writes, faults>>
        BY DEF StartDrift, Report
      <3>3. \A r : ReadTracked(r) => UNCHANGED <<writes, faults>>
        BY DEF ReadTracked
      <3>2. CASE DriftUnavailable
        BY <3>2 DEF TypeOK, DriftUnavailable, Fault
      <3> QED
        BY <2>5, <3>1, <3>2, <3>3 DEF DriftStep, TypeOK
    <2>6. CASE UNCHANGED vars
      BY <2>6 DEF TypeOK, vars
    <2>7. DeployStep => writes' \in Nat /\ faults' \in Nat
      BY <2>3, <2>4 DEF DeployStep
    <2> QED
      BY <2>1, <2>2, <2>5, <2>6, <2>7, Steps
  <1>2. custody' \in Nat /\ manifest' \in Manifest
        /\ inventory' \in [found : [Resource -> Metadata], source : Nat, since : Nat]
    BY Steps, Frames, ArtifactType DEF TypeOK
  <1>3. row' \in [Resource -> Row]
    BY Steps, Frames, RowType DEF TypeOK
  <1>4. deploy' \in DeployState
    BY Steps, Frames, DeploySteps DEF TypeOK
  <1>5. drift' \in DriftState
    BY Steps, Frames, DriftSteps DEF TypeOK
  <1> QED
    BY <1>1, <1>2, <1>3, <1>4, <1>5, LiveType DEF TypeOK

-----------------------------------------------------------------------------
(* Values stay good: a new source is nobody's name yet.                    *)

LEMMA Numbers ==
  ASSUME TypeOK
  PROVE  /\ custody \in Nat /\ inventory.source \in Nat /\ inventory.since \in Nat
         /\ manifest.since \in Nat /\ drift.wanted.since \in Nat /\ deploy.value \in Nat
         /\ \A r \in Resource :
              /\ manifest.desired[r].revision \in Nat /\ drift.wanted.desired[r].revision \in Nat
              /\ deploy.wanted[r].revision \in Nat /\ row[r].desired.revision \in Nat
              /\ drift.rows[r].desired.revision \in Nat
              /\ live[r].at \in Nat /\ live[r].value \in Nat /\ row[r].at \in Nat
              /\ drift.rows[r].at \in Nat
              /\ row[r].known \in BOOLEAN /\ drift.rows[r].known \in BOOLEAN
         /\ deploy.acked \in Nat
  <1>1. custody \in Nat /\ inventory.source \in Nat /\ inventory.since \in Nat
    BY DEF TypeOK
  <1>2. manifest.since \in Nat /\ \A r \in Resource : manifest.desired[r].revision \in Nat
    BY DEF TypeOK, Manifest, Props
  <1>3. /\ drift.wanted.since \in Nat
        /\ \A r \in Resource :
             /\ drift.wanted.desired[r].revision \in Nat /\ drift.rows[r].desired.revision \in Nat
             /\ drift.rows[r].at \in Nat /\ drift.rows[r].known \in BOOLEAN
    BY DEF TypeOK, DriftState, Manifest, Row, Props
  <1>4. /\ deploy.value \in Nat /\ deploy.acked \in Nat
        /\ \A r \in Resource : deploy.wanted[r].revision \in Nat
    BY DEF TypeOK, DeployState, Props
  <1>5. \A r \in Resource :
          /\ row[r].desired.revision \in Nat /\ row[r].at \in Nat /\ row[r].known \in BOOLEAN
          /\ live[r].at \in Nat /\ live[r].value \in Nat
    BY DEF TypeOK, Row, Props, Live
  <1> QED
    BY <1>1, <1>2, <1>3, <1>4, <1>5

LEMMA CustodyIsGood ==
  ASSUME CustodyIsNewest, NEW r, NEW n, n <= inventory.source
  PROVE  Good(r, custody, n)
  BY DEF CustodyIsNewest, Good

LEMMA Sources ==
  ASSUME TypeOK, [Next]_vars
  PROVE  \/ UNCHANGED <<custody, inventory, manifest, drift>>
         \/ custody' = custody + 1 /\ UNCHANGED <<inventory, manifest, drift>>
         \/ /\ manifest'.since = inventory.since
            /\ \A r \in Managed : manifest'.desired[r].revision = inventory.source
            /\ UNCHANGED <<custody, inventory, drift>>
         \/ /\ inventory'.source = inventory.source => inventory'.since = inventory.since
            /\ inventory'.source # inventory.source => inventory'.since = custody
            /\ inventory'.source >= inventory.source
            /\ UNCHANGED <<custody, manifest, drift>>
         \/ /\ manifest'.since = manifest.since
            /\ \A r \in Managed : manifest'.desired[r].revision = manifest.desired[r].revision
            /\ UNCHANGED <<custody, inventory, drift>>
         \/ /\ drift'.wanted = drift.wanted \/ drift'.wanted = manifest \/ drift'.wanted = NoDrift.wanted
            /\ UNCHANGED <<custody, inventory, manifest>>
  <1>1. CASE RotateCustody
    BY <1>1 DEF RotateCustody
  <1>2. CASE BuildAdoptionManifest
    BY <1>2, FromInventoryType DEF BuildAdoptionManifest
  <1>3. ASSUME NEW source \in 1..MaxRevision, TakeInventory(source)
        PROVE  /\ inventory'.source = inventory.source => inventory'.since = inventory.since
               /\ inventory'.source # inventory.source => inventory'.since = custody
               /\ inventory'.source >= inventory.source
               /\ UNCHANGED <<custody, manifest, drift>>
    BY <1>3 DEF TakeInventory
  <1>4. ASSUME NEW r \in Observed, ReAdmit(r)
        PROVE  /\ manifest'.since = manifest.since
               /\ \A s \in Managed : manifest'.desired[s].revision = manifest.desired[s].revision
               /\ UNCHANGED <<custody, inventory, drift>>
    <2> DEFINE props == [manifest.desired[r] EXCEPT !.shape = inventory.found[r].shape]
    <2>1. manifest' = [manifest EXCEPT !.desired = [@ EXCEPT ![r] = props],
                                       !.admitted = [@ EXCEPT ![r] = inventory.found[r].at]]
      BY <1>4 DEF ReAdmit, Readmitted, TypeOK, Manifest
    <2>2. manifest'.since = manifest.since /\ manifest'.desired = [manifest.desired EXCEPT ![r] = props]
      BY <2>1 DEF TypeOK, Manifest
    <2>3. \A s \in Managed : s # r /\ s \in Resource
      BY StableAssumption DEF StableAssumption, Resource
    <2>4. \A s \in Managed : manifest'.desired[s] = manifest.desired[s]
      BY <2>2, <2>3 DEF TypeOK, Manifest
    <2> QED
      BY <1>4, <2>2, <2>4 DEF ReAdmit
  <1>5. Operator =>
          \/ RotateCustody \/ BuildAdoptionManifest
          \/ \E source \in 1..MaxRevision : TakeInventory(source)
          \/ \E r \in Observed : ReAdmit(r)
    BY DEF Operator
  <1>6. ASSUME DriftStep
        PROVE  /\ drift'.wanted = drift.wanted \/ drift'.wanted = manifest \/ drift'.wanted = NoDrift.wanted
               /\ UNCHANGED <<custody, inventory, manifest>>
    BY <1>6, DriftSteps, Frames DEF Opens, GivesUp, Reads
  <1>7. External \/ DeployStep \/ UNCHANGED vars => UNCHANGED <<custody, inventory, manifest, drift>>
    BY Frames
  <1> QED
    BY <1>1, <1>2, <1>3, <1>4, <1>5, <1>6, <1>7, Steps

LEMMA NewestStep ==
  ASSUME TypeOK, TypeOK', CustodyIsNewest, [Next]_vars
  PROVE  CustodyIsNewest'
  <1>1. NoDrift.wanted.since = 0
    BY DEF NoDrift
  <1>2. Managed \subseteq Resource
    BY DEF Resource
  <1>3. inventory'.source \in Nat /\ inventory'.since \in Nat
    BY DEF TypeOK
  <1> QED
    BY <1>1, <1>2, <1>3, Sources, Numbers DEF CustodyIsNewest, Foreign

LEMMA GoodStep ==
  ASSUME TypeOK, TypeOK', CustodyIsNewest, [Next]_vars,
         NEW r \in Managed, NEW value \in Nat, NEW n \in Nat, Good(r, value, n)
  PROVE  Good(r, value, n)'
  <1>1. NoDrift.wanted.since = 0
    BY DEF NoDrift
  <1>2. r \in Resource
    BY DEF Resource
  <1>3. inventory'.source \in Nat /\ inventory'.since \in Nat
    BY DEF TypeOK
  <1> QED
    BY <1>1, <1>2, <1>3, Sources, Numbers DEF Good, CustodyIsNewest

(* Every write of a variable gives it a new updatedAt.                     *)
Touched(r) == live'[r].at = live[r].at + 1
Untouched(r) == live'[r].at = live[r].at /\ live'[r].value = live[r].value

LEMMA LiveSteps ==
  ASSUME TypeOK, AcksAreOwn, NoTarget, [Next]_vars, NEW r \in Resource
  PROVE  Touched(r) \/ Untouched(r)
  <1> USE DEF Touched, Untouched, TypeOK, Live
  <1>1. ASSUME NEW s \in Resource, ForeignWrite(s) PROVE Touched(r) \/ Untouched(r)
    BY <1>1 DEF ForeignWrite
  <1>2. ASSUME NEW s \in Resource, ForeignRemoval(s) PROVE Touched(r) \/ Untouched(r)
    <2>1. live' = [live EXCEPT ![s] = [live[s] EXCEPT !.present = FALSE]]
      BY <1>2 DEF ForeignRemoval
    <2>2. [live[s] EXCEPT !.present = FALSE].at = live[s].at
          /\ [live[s] EXCEPT !.present = FALSE].value = live[s].value
      OBVIOUS
    <2> QED
      BY <2>1, <2>2
  <1>3. ASSUME NEW p \in late, Land(p) PROVE Touched(r) \/ Untouched(r)
    BY <1>3 DEF Land, Patched, Resource, Patch
  <1>4. ASSUME NEW p \in late, Lose(p) PROVE UNCHANGED live
    BY <1>4 DEF Lose
  <1>5. CASE Writes
    BY <1>5 DEF Writes, Patched, Resource, AcksAreOwn
  <1>6. Operator \/ DriftStep \/ UNCHANGED vars => UNCHANGED live
    BY Frames
  <1>7. ASSUME DeployStep PROVE Writes \/ UNCHANGED live
    BY <1>7, DeploySteps DEF Ends, Begins, Continues, Takes, Observes, Confirms
  <1> QED
    BY <1>1, <1>2, <1>3, <1>4, <1>5, <1>6, <1>7, Steps DEF External

LEMMA VouchedStep ==
  ASSUME TypeOK, TypeOK', CustodyIsNewest, AcksAreOwn, NoTarget, [Next]_vars,
         NEW r \in Managed, NEW at \in Nat, NEW n \in Nat, NEW known \in BOOLEAN,
         at <= live[r].at,
         known /\ at = live[r].at => Good(r, live[r].value, n)
  PROVE  /\ at <= live'[r].at
         /\ (known /\ at = live[r].at => Good(r, live[r].value, n))'
  <1>1. r \in Resource /\ live[r].at \in Nat /\ live[r].value \in Nat
    BY Numbers DEF Resource
  <1>2. CASE Touched(r)
    BY <1>1, <1>2 DEF Touched
  <1>3. CASE Untouched(r)
    <2>1. known /\ at = live[r].at => Good(r, live[r].value, n)
      OBVIOUS
    <2>2. \A v \in Nat : Good(r, v, n) => Good(r, v, n)'
      BY GoodStep
    <2> QED
      BY <1>1, <1>3, <2>1, <2>2 DEF Untouched, Good
  <1> QED
    BY <1>1, <1>2, <1>3, LiveSteps

-----------------------------------------------------------------------------
(* The parts of the invariant, one lemma each.                             *)

LEMMA RowSteps ==
  ASSUME TypeOK, AcksAreOwn, NoTarget, [Next]_vars, NEW r \in Managed
  PROVE  \/ row'[r] = row[r]
         \/ /\ Confirms /\ DeployStep /\ r = deploy.target
            /\ row'[r] = [desired |-> News(r), at |-> live[r].at, known |-> TRUE]
  <1>1. CASE DeployStep
    <2>1. ASSUME NEW o \in Observed, Observes(o) PROVE row'[r] = row[r]
      BY <2>1, RecordedFacts, StableAssumption DEF Observes, Resource, StableAssumption
    <2>2. CASE Confirms
      <3>1. deploy.target \in Resource /\ r \in Resource
        BY <2>2 DEF Confirms, AcksAreOwn, Resource
      <3> QED
        BY <1>1, <2>2, <3>1, RecordedFacts DEF Confirms
    <2>3. Ends \/ Begins \/ Continues \/ Writes \/ (\E s \in Managed : Takes(s)) => row' = row
      BY DEF Ends, Begins, Continues, Writes, Takes
    <2> QED
      BY <1>1, <2>1, <2>2, <2>3, DeploySteps
  <1>2. CASE ~DeployStep
    BY <1>2, Steps, Frames
  <1> QED
    BY <1>1, <1>2

LEMMA RowsVouchStep ==
  ASSUME IInv, TypeOK', [Next]_vars
  PROVE  RowsVouch'
  <1> USE DEF IInv
  <1> SUFFICES ASSUME NEW r \in Managed
               PROVE  row'[r].desired.revision <= inventory'.source /\ Vouched(r, row[r])'
    BY DEF RowsVouch
  <1>1. r \in Resource /\ inventory'.source >= inventory.source /\ inventory'.source \in Nat
    BY Sources, Numbers DEF Resource, TypeOK
  <1>2. CASE row'[r] = row[r]
    <2>1. row[r].desired.revision <= inventory.source /\ Vouched(r, row[r])
      BY DEF RowsVouch
    <2>2. \A at \in Nat, n \in Nat, known \in BOOLEAN :
            at <= live[r].at /\ (known /\ at = live[r].at => Good(r, live[r].value, n)) =>
              at <= live'[r].at /\ (known /\ at = live[r].at => Good(r, live[r].value, n))'
      BY VouchedStep
    <2>3. row'[r].desired.revision <= inventory'.source
      BY <1>1, <1>2, <2>1, Numbers
    <2> QED
      BY <1>1, <1>2, <2>1, <2>2, <2>3, Numbers DEF Vouched, Good
  <1>3. CASE /\ Confirms /\ DeployStep /\ r = deploy.target
             /\ row'[r] = [desired |-> News(r), at |-> live[r].at, known |-> TRUE]
    <2>1. live' = live /\ inventory' = inventory /\ manifest' = manifest /\ drift' = drift
      BY <1>3, Frames DEF Confirms
    <2>2. Good(r, deploy.value, News(r).revision)
      BY <1>3 DEF Confirms, WritesAreGood, News
    <2>3. live[r].value = deploy.value
      BY <1>3 DEF Confirms, AcksAreOwn
    <2>4. News(r).revision <= inventory.source
      BY <2>2 DEF Good
    <2> QED
      BY <1>1, <1>3, <2>1, <2>2, <2>3, <2>4, Numbers DEF Vouched, Good
  <1> QED
    BY <1>2, <1>3, RowSteps

LEMMA WritesAreGoodStep ==
  ASSUME IInv, TypeOK', [Next]_vars
  PROVE  WritesAreGood'
  <1> USE DEF IInv
  <1> SUFFICES ASSUME deploy'.pc # "idle", NEW r \in Managed
               PROVE  /\ Good(r, deploy.value, deploy.wanted[r].revision)'
                      /\ Good(r, deploy.value, row[r].desired.revision)'
    BY DEF WritesAreGood
  <1>1. r \in Resource
    BY DEF Resource
  <1>2. CASE DeployStep
    <2>1. inventory' = inventory /\ manifest' = manifest /\ drift' = drift
      BY <1>2, Frames
    <2>2. CASE Begins
      <3>1. /\ Good(r, custody, manifest.desired[r].revision)
            /\ Good(r, custody, row[r].desired.revision)
        BY CustodyIsGood DEF CustodyIsNewest, RowsVouch
      <3> QED
        BY <2>1, <2>2, <3>1 DEF Begins, Good
    <2>3. CASE ~Begins
      <3>1. ~Ends
        BY DEF Ends, NoDeploy
      <3>2. deploy.pc # "idle" /\ SamePlan
        BY <1>2, <2>3, <3>1, DeploySteps DEF Continues, Takes, Observes, Writes, Confirms
      <3>3. /\ Good(r, deploy.value, deploy.wanted[r].revision)
            /\ Good(r, deploy.value, row[r].desired.revision)
        BY <3>2 DEF WritesAreGood
      <3>4. row'[r].desired = row[r].desired \/ row'[r].desired = deploy.wanted[r]
        <4>1. CASE row'[r] = row[r]
          BY <4>1
        <4>2. CASE row'[r] = [desired |-> News(r), at |-> live[r].at, known |-> TRUE]
          BY <4>2 DEF News
        <4> QED
          BY <4>1, <4>2, RowSteps
      <3> QED
        BY <2>1, <3>2, <3>3, <3>4 DEF SamePlan, Good
    <2> QED
      BY <2>2, <2>3
  <1>3. CASE ~DeployStep
    <2>1. deploy' = deploy /\ row' = row
      BY <1>3, Steps, Frames
    <2>2. \A v \in Nat, n \in Nat : Good(r, v, n) => Good(r, v, n)'
      BY GoodStep
    <2>3. /\ Good(r, deploy.value, deploy.wanted[r].revision)
          /\ Good(r, deploy.value, row[r].desired.revision)
      BY <2>1 DEF WritesAreGood
    <2> QED
      BY <1>1, <2>1, <2>2, <2>3, Numbers DEF Good
  <1> QED
    BY <1>2, <1>3

LEMMA NoTargetStep ==
  ASSUME TypeOK, AcksAreOwn, NoTarget, [Next]_vars
  PROVE  NoTarget'
  <1>1. CASE DeployStep
    <2>1. Ends \/ Continues \/ Begins => NoTarget'
      BY DEF Ends, Continues, Begins, NoTarget, NoDeploy
    <2>2. Writes \/ Confirms \/ (\E r \in Managed : Takes(r)) \/ (\E r \in Observed : Observes(r)) => NoTarget'
      BY DEF Writes, Confirms, Takes, Observes, NoTarget
    <2> QED
      BY <1>1, <2>1, <2>2, DeploySteps
  <1>2. CASE ~DeployStep
    BY <1>2, Steps, Frames DEF NoTarget
  <1> QED
    BY <1>1, <1>2

LEMMA AcksAreOwnStep ==
  ASSUME TypeOK, AcksAreOwn, NoTarget, [Next]_vars
  PROVE  AcksAreOwn'
  <1>0. Managed \subseteq Resource
    BY DEF Resource
  <1>1. CASE DeployStep
    <2>1. CASE Writes
      <3>1. deploy.target \in Resource /\ live \in [Resource -> Live] /\ live[deploy.target].at \in Nat
        BY <1>0, <2>1, Numbers DEF Writes, AcksAreOwn, TypeOK
      <3>2. live'[deploy.target] = Patched(live[deploy.target], deploy.value)
        BY <2>1, <3>1 DEF Writes
      <3>3. /\ live'[deploy.target].at = live[deploy.target].at + 1
            /\ live'[deploy.target].value = deploy.value
        BY <3>2 DEF Patched
      <3> QED
        BY <2>1, <3>1, <3>3 DEF Writes, AcksAreOwn, SamePlan
    <2>2. Ends \/ Begins => AcksAreOwn'
      BY DEF Ends, Begins, AcksAreOwn, NoDeploy
    <2>3. Continues => AcksAreOwn'
      BY DEF Continues, AcksAreOwn, SamePlan
    <2>4. Confirms \/ (\E r \in Managed : Takes(r)) \/ (\E r \in Observed : Observes(r)) => AcksAreOwn'
      BY DEF Confirms, Takes, Observes, AcksAreOwn
    <2> QED
      BY <1>1, <2>1, <2>2, <2>3, <2>4, DeploySteps
  <1>2. CASE ~DeployStep
    <2>1. deploy' = deploy
      BY <1>2, Steps, Frames
    <2>2. CASE deploy.pc = "readback"
      <3>1. deploy.target \in Resource
        BY <1>0, <2>2 DEF AcksAreOwn
      <3>2. live[deploy.target].at \in Nat /\ deploy.acked \in Nat
        BY <3>1, Numbers
      <3>3. Touched(deploy.target) \/ Untouched(deploy.target)
        BY <3>1, LiveSteps
      <3> QED
        BY <2>1, <2>2, <3>2, <3>3 DEF AcksAreOwn, Touched, Untouched
    <2>3. CASE deploy.pc # "readback"
      BY <2>1, <2>3 DEF AcksAreOwn
    <2> QED
      BY <2>2, <2>3
  <1> QED
    BY <1>1, <1>2

(* A resource that is recorded for what the deploy wants leaves the plan.  *)
LEMMA RecordedIsDone ==
  ASSUME TypeOK, ~deploy.sync, NEW r \in Resource, NEW known \in BOOLEAN, row' = Recorded(r, known)
  PROVE  Planned(deploy.wanted, row') \subseteq Planned(deploy.wanted, row) \ {r}
  <1>1. live[r].at \in Nat \ {0}
    BY DEF TypeOK, Live
  <1>2. row'[r].at # 0 /\ SameDesired(deploy.wanted[r], row'[r].desired)
    <2>1. row'[r] = [desired |-> News(r), at |-> live[r].at, known |-> known]
      BY RecordedFacts
    <2>2. News(r) = deploy.wanted[r]
      BY DEF News
    <2> QED
      BY <1>1, <2>1, <2>2 DEF SameDesired
  <1>3. \A s \in Resource : s # r => row'[s] = row[s]
    BY RecordedFacts
  <1> QED
    BY <1>2, <1>3 DEF Planned

LEMMA PlanIsAheadStep ==
  ASSUME TypeOK, AcksAreOwn, NoTarget, PlanIsAhead, [Next]_vars
  PROVE  PlanIsAhead'
  <1> SUFFICES ASSUME deploy'.pc # "idle", ~deploy'.sync
               PROVE  Planned(deploy'.wanted, row') \subseteq deploy'.todo \cup {deploy'.target}
    BY DEF PlanIsAhead
  <1>0. \A wanted, rows : Planned(wanted, rows) \subseteq Resource /\ None \notin Planned(wanted, rows)
    BY StableAssumption DEF Planned, Resource, StableAssumption
  <1>1. CASE DeployStep
    <2>1. CASE Begins
      BY <2>1 DEF Begins
    <2>2. CASE ~Begins
      <3>1. ~Ends
        BY DEF Ends, NoDeploy
      <3>2. deploy.pc # "idle" /\ SamePlan
        BY <1>1, <2>2, <3>1, DeploySteps DEF Continues, Takes, Observes, Writes, Confirms
      <3>3. Planned(deploy.wanted, row) \subseteq deploy.todo \cup {deploy.target} /\ ~deploy.sync
        BY <3>2 DEF PlanIsAhead, SamePlan
      <3>4. CASE Continues \/ Writes
        BY <3>2, <3>3, <3>4 DEF Continues, Writes, SamePlan
      <3>5. ASSUME NEW r \in Managed, Takes(r)
            PROVE  Planned(deploy'.wanted, row') \subseteq deploy'.todo \cup {deploy'.target}
        <4>1. deploy.target = None
          BY <3>5 DEF Takes, NoTarget
        <4> QED
          BY <1>0, <3>2, <3>3, <3>5, <4>1 DEF Takes, SamePlan
      <3>6. ASSUME NEW r \in Observed, Observes(r)
            PROVE  Planned(deploy'.wanted, row') \subseteq deploy'.todo \cup {deploy'.target}
        <4>1. deploy.target = None /\ r \in Resource
          BY <3>6 DEF Observes, NoTarget, Resource
        <4>2. Planned(deploy.wanted, row') \subseteq Planned(deploy.wanted, row) \ {r}
          BY <3>3, <3>6, <4>1, RecordedIsDone DEF Observes
        <4> QED
          BY <1>0, <3>2, <3>3, <3>6, <4>1, <4>2 DEF Observes, SamePlan
      <3>7. CASE Confirms
        <4>1. deploy.target \in Resource
          BY <3>7 DEF Confirms, AcksAreOwn, Resource
        <4>2. Planned(deploy.wanted, row') \subseteq Planned(deploy.wanted, row) \ {deploy.target}
          BY <3>3, <3>7, <4>1, RecordedIsDone DEF Confirms
        <4> QED
          BY <3>2, <3>3, <3>7, <4>2 DEF Confirms, SamePlan
      <3> QED
        BY <1>1, <2>2, <3>1, <3>4, <3>5, <3>6, <3>7, DeploySteps
    <2> QED
      BY <2>1, <2>2
  <1>2. CASE ~DeployStep
    <2>1. deploy' = deploy /\ row' = row
      BY <1>2, Steps, Frames
    <2> QED
      BY <2>1 DEF PlanIsAhead
  <1> QED
    BY <1>1, <1>2

(* What a read accepts of a managed variable is what the row vouches for.  *)
LEMMA AcceptedIsNotStale ==
  ASSUME TypeOK, ReportIsClean, Clean, NEW r \in Managed, r \in drift.todo,
         Classify(r, drift.wanted, drift.rows[r], live[r]) = "accepted"
  PROVE  ~Stale(r, drift.wanted)
  <1> DEFINE kept == drift.rows[r]
  <1>1. r \notin Observed
    BY StableAssumption DEF StableAssumption
  <1>2. ~(live[r].present /\ ~ReadKnown(kept, live[r]))
    BY <1>1 DEF Classify, AcceptedBaseline
  <1>3. ActionOf(kept, live[r]) = "unchanged"
    BY <1>2 DEF Classify
  <1>4. live[r].present
    BY <1>3 DEF ActionOf
  <1>5. kept.known /\ kept.at = live[r].at
    BY <1>2, <1>4 DEF ReadKnown
  <1>6. /\ Good(r, live[r].value, kept.desired.revision)
        /\ kept.desired.revision = drift.wanted.desired[r].revision
    BY <1>5 DEF ReportIsClean, Vouched
  <1>7. live[r].value # Foreign /\ drift.wanted.since <= live[r].value
    BY <1>6 DEF Good
  <1>8. live[r].value \in Nat /\ drift.wanted.since \in Nat
    BY Numbers DEF Resource
  <1> QED
    BY <1>7, <1>8 DEF Stale

LEMMA ReportIsCleanStep ==
  ASSUME IInv, TypeOK', RowsVouch', [Next]_vars
  PROVE  ReportIsClean'
  <1> USE DEF IInv
  <1>0. Managed \subseteq Resource
    BY DEF Resource
  (* Rows that are kept go on vouching. *)
  <1>1. ASSUME NEW r \in Managed, r \in drift.todo, drift'.rows[r] = drift.rows[r]
        PROVE  Vouched(r, drift.rows[r])'
    <2>1. Vouched(r, drift.rows[r])
      BY <1>1 DEF ReportIsClean
    <2>2. \A at \in Nat, n \in Nat, known \in BOOLEAN :
            at <= live[r].at /\ (known /\ at = live[r].at => Good(r, live[r].value, n)) =>
              at <= live'[r].at /\ (known /\ at = live[r].at => Good(r, live[r].value, n))'
      BY VouchedStep
    <2> QED
      BY <1>0, <1>1, <2>1, <2>2, Numbers DEF Vouched, Good
  <1>2. CASE ~DriftStep
    <2>1. drift' = drift
      BY <1>2, Steps, Frames
    <2> QED
      BY <1>1, <2>1 DEF ReportIsClean, Clean
  <1>3. CASE DriftStep
    <2>1. CASE Opens
      <3>1. row' = row
        BY <1>3, Frames
      <3>2. \A r \in Managed : Vouched(r, drift.rows[r])'
        BY <2>1, <3>1 DEF Opens, RowsVouch, Vouched, Good
      <3>3. ASSUME NEW r \in Managed, Clean'
            PROVE  drift'.rows[r].desired.revision = drift'.wanted.desired[r].revision
        <4>1. Planned(manifest.desired, row) = {}
          BY <2>1, <3>3 DEF Opens, Clean
        <4>2. SameDesired(manifest.desired[r], row[r].desired)
          BY <1>0, <4>1 DEF Planned
        <4> QED
          BY <2>1, <4>2 DEF Opens, SameDesired
      <3> QED
        BY <2>1, <3>2, <3>3 DEF Opens, ReportIsClean
    <2>2. CASE drift' = NoDrift
      BY <2>2 DEF NoDrift, ReportIsClean
    <2>3. CASE GivesUp
      <3>1. drift'.todo = {} /\ ~Clean'
        BY <2>3 DEF GivesUp, Clean
      <3> QED
        BY <3>1 DEF ReportIsClean
    <2>4. ASSUME NEW q \in Resource, Reads(q) PROVE ReportIsClean'
      <3> DEFINE found == Classify(q, drift.wanted, drift.rows[q], live[q])
      <3>1. /\ drift'.wanted = drift.wanted /\ drift'.todo = drift.todo \ {q} /\ q \in drift.todo
            /\ drift'.findings = drift.findings \cup {found}
            /\ drift'.stale = (drift.stale \/ Stale(q, drift.wanted))
            /\ \A r \in Resource : r # q => drift'.rows[r] = drift.rows[r]
        BY <2>4 DEF Reads
      <3>2. Clean' => Clean /\ found \notin {"blocking", "inconclusive"}
        BY <3>1 DEF Clean
      <3>3. ASSUME Clean' PROVE ~drift'.stale
        <4>1. Clean /\ found = "accepted"
          BY <3>2, <3>3, ClassifyType DEF Disposition
        <4>2. ~drift.stale
          BY <4>1 DEF ReportIsClean
        <4>3. q \in Managed => ~Stale(q, drift.wanted)
          BY <3>1, <4>1, AcceptedIsNotStale
        <4>4. q \notin Managed => ~Stale(q, drift.wanted)
          BY DEF Stale
        <4> QED
          BY <3>1, <4>2, <4>3, <4>4
      <3>4. ASSUME NEW r \in Managed, r \in drift'.todo
            PROVE  /\ Vouched(r, drift.rows[r])'
                   /\ Clean' => drift'.rows[r].desired.revision = drift'.wanted.desired[r].revision
        <4>1. r \in drift.todo /\ drift'.rows[r] = drift.rows[r]
          BY <1>0, <3>1, <3>4
        <4> QED
          BY <1>1, <3>1, <3>2, <4>1 DEF ReportIsClean
      <3> QED
        BY <3>3, <3>4 DEF ReportIsClean
    <2> QED
      BY <1>3, <2>1, <2>2, <2>3, <2>4, DriftSteps
  <1> QED
    BY <1>2, <1>3

-----------------------------------------------------------------------------
(* The invariant.                                                          *)

LEMMA InitInv == Init => IInv
  <1> SUFFICES ASSUME Init PROVE IInv
    OBVIOUS
  <1>1. deploy = NoDeploy /\ drift = NoDrift /\ row = Untracked /\ custody = 1
    BY DEF Init
  <1>2. /\ inventory.source = 1 /\ inventory.since = 1 /\ manifest = FromInventory(inventory)
        /\ \A r \in Resource : live[r].at = 1
    BY DEF Init
  <1>3. CustodyIsNewest
    BY <1>1, <1>2, InitType, FromInventoryType DEF CustodyIsNewest, Foreign, NoDrift
  <1>4. RowsVouch
    BY <1>1, <1>2 DEF RowsVouch, Vouched, Untracked, NoProps, Resource
  <1>5. WritesAreGood /\ AcksAreOwn /\ PlanIsAhead /\ NoTarget
    BY <1>1 DEF NoDeploy, WritesAreGood, AcksAreOwn, PlanIsAhead, NoTarget
  <1>6. ReportIsClean
    BY <1>1 DEF NoDrift, ReportIsClean
  <1> QED
    BY <1>3, <1>4, <1>5, <1>6, InitType DEF IInv

LEMMA StepInv == IInv /\ [Next]_vars => IInv'
  <1> SUFFICES ASSUME IInv, [Next]_vars PROVE IInv'
    OBVIOUS
  <1>1. TypeOK /\ CustodyIsNewest /\ AcksAreOwn /\ NoTarget /\ PlanIsAhead
    BY DEF IInv
  <1>2. TypeOK'
    BY <1>1, StepType
  <1>3. CustodyIsNewest'
    BY <1>1, <1>2, NewestStep
  <1>4. RowsVouch' /\ WritesAreGood'
    BY <1>2, RowsVouchStep, WritesAreGoodStep
  <1>5. AcksAreOwn' /\ NoTarget' /\ PlanIsAhead'
    BY <1>1, AcksAreOwnStep, NoTargetStep, PlanIsAheadStep
  <1>6. ReportIsClean'
    BY <1>2, <1>4, ReportIsCleanStep
  <1> QED
    BY <1>2, <1>3, <1>4, <1>5, <1>6 DEF IInv

LEMMA Invariance == Spec => []IInv
  BY InitInv, StepInv, PTL DEF Spec

(* The variables keep their types: what deploy, sync and the drift report  *)
(* keep between two of their requests, and what Alchemy records.           *)
THEOREM TypeCorrect == Spec => []TypeOK
  <1>1. IInv => TypeOK
    BY DEF IInv
  <1> QED
    BY <1>1, Invariance, PTL

(* A drift report with status no_op is true of every managed variable when *)
(* it was read, for any number of variables, revisions, rotations, retries,*)
(* foreign writes and failures: a row that is known and has Vercel's       *)
(* updatedAt names a value from custody, because an acknowledged updatedAt *)
(* can only still stand if nobody has written since.                       *)
THEOREM CleanReports == Spec => CleanReportsAreTrue
  <1>1. ASSUME IInv, Report, Status = "no_op" PROVE ~drift.stale
    <2>1. "blocking" \notin drift.findings
      BY <1>1 DEF Status
    <2>2. "inconclusive" \notin drift.findings
      BY <1>1, <2>1 DEF Status
    <2>3. Clean
      BY <2>1, <2>2 DEF Clean
    <2> QED
      BY <1>1, <2>3 DEF IInv, ReportIsClean
  <1>2. IInv /\ [Next]_vars => [Report /\ Status = "no_op" => ~drift.stale]_vars
    BY <1>1
  <1> QED
    BY <1>2, Invariance, PTL DEF Spec, CleanReportsAreTrue

(* A deploy that finishes leaves nothing to plan for its manifest, whoever *)
(* else writes and however often it was cut off before: a resource leaves  *)
(* the rest of the plan only when its row is what diff compares with.      *)
THEOREM Converge == Spec => DeploysConverge
  <1>1. ASSUME IInv, Finished, ~deploy.sync PROVE Planned(deploy.wanted, row) = {}
    <2>1. deploy.pc = "next" /\ deploy.todo = {}
      BY <1>1 DEF Finished
    <2>2. deploy.target = None
      BY <1>1, <2>1 DEF IInv, NoTarget
    <2>3. Planned(deploy.wanted, row) \subseteq {None}
      BY <1>1, <2>1, <2>2 DEF IInv, PlanIsAhead
    <2>4. None \notin Planned(deploy.wanted, row)
      BY StableAssumption DEF Planned, Resource, StableAssumption
    <2> QED
      BY <2>3, <2>4
  <1>2. IInv /\ [Next]_vars => [Finished /\ ~deploy.sync => Planned(deploy.wanted, row) = {}]_vars
    BY <1>1
  <1> QED
    BY <1>2, Invariance, PTL DEF Spec, DeploysConverge
=============================================================================
