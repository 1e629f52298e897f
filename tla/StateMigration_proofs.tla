------------------------- MODULE StateMigration_proofs -------------------------
(***************************************************************************)
(* The migration loses no stale row, and implements ReversibleRetirement.  *)
(***************************************************************************)
EXTENDS StateMigration, TLAPS

(* Stale rows are never changed: they keep the version they had.           *)
Fresh(r) == \A f \in Stale \cap DOMAIN r : r[f] = 0

FilesAreFresh ==
  /\ Fresh(rows) /\ Fresh(got) /\ Fresh(archive) /\ Fresh(file.rows)

(* A backup is whole or none at all, and without one nothing is missing.   *)
BackupIsWhole ==
  /\ file.status = "saved" => Stale \subseteq DOMAIN file.rows
  /\ file.status # "saved" => DOMAIN file.rows = {} /\ Stale \subseteq DOMAIN rows

(* What a command knows at each of its steps.                              *)
ReadIsThere ==
  phase = "apply" /\ pc \in {"get", "decide", "save", "write"} =>
    Stale \cap DOMAIN got \subseteq DOMAIN rows

SavesAll ==
  pc \in {"save", "write"} => phase = "apply" /\ StaleOf(manifest, got) = Stale

RetiresStale ==
  pc = "retire" => file.status = "saved" /\ todo \subseteq Stale \ manifest.resources

RestoresFromFile ==
  phase = "restore" /\ pc # "idle" => file.status = "saved" /\ archive = file.rows

RemovesOthers ==
  pc = "remove" => phase = "restore" /\ todo \cap DOMAIN archive = {}

SetsArchived ==
  pc = "set" => phase = "restore" /\ todo \subseteq DOMAIN archive

IInv ==
  /\ FilesAreFresh /\ BackupIsWhole /\ ReadIsThere /\ SavesAll /\ RetiresStale
  /\ RestoresFromFile /\ RemovesOthers /\ SetsArchived

LEMMA WithFacts ==
  ASSUME NEW r, NEW f, NEW v
  PROVE  /\ DOMAIN With(r, f, v) = DOMAIN r \cup {f}
         /\ Fresh(r) /\ (f \in Stale => v = 0) => Fresh(With(r, f, v))
  BY DEF With, Fresh

LEMMA WithoutFacts ==
  ASSUME NEW r, NEW S
  PROVE  /\ DOMAIN Without(r, S) = DOMAIN r \ S
         /\ Fresh(r) => Fresh(Without(r, S))
  BY DEF Without, Fresh

LEMMA NoRowsFacts == DOMAIN NoRows = {} /\ Fresh(NoRows)
  BY DEF NoRows, Fresh

LEMMA DeployedAreFresh == \A f \in Deployable : f \notin Stale
  BY DEF Deployable

LEMMA InitInv == Init => IInv
  <1> SUFFICES ASSUME Init PROVE IInv
    OBVIOUS
  <1>1. Stale \subseteq DOMAIN rows /\ \A f \in DOMAIN rows : rows[f] = 0
    BY DEF Init
  <1>2. got = NoRows /\ archive = NoRows /\ file = NoFile /\ pc = "idle"
    BY DEF Init
  <1>3. file.rows = NoRows /\ file.status = "none"
    BY <1>2 DEF NoFile
  <1> QED
    BY <1>1, <1>2, <1>3, NoRowsFacts
    DEF IInv, FilesAreFresh, BackupIsWhole, ReadIsThere, SavesAll, RetiresStale,
        RestoresFromFile, RemovesOthers, SetsArchived, Fresh

(* A step of the migration, seen through the refinement mapping.           *)
Live == Stale \cap DOMAIN rows
Kept == Stale \cap DOMAIN file.rows

AbstractStep ==
  \/ Live = Stale /\ Kept' \subseteq Stale /\ Live' = Live
  \/ Kept = Stale /\ (\E row \in Live : Live' = Live \ {row}) /\ Kept' = Kept
  \/ (\E row \in Kept : Live' = Live \cup {row}) /\ Kept' = Kept
  \/ Live' = Live /\ Kept' = Kept

LEMMA StepInv ==
  ASSUME IInv, [Next]_vars
  PROVE  IInv' /\ AbstractStep
  <1> USE DEF IInv, FilesAreFresh, BackupIsWhole, ReadIsThere, SavesAll, RetiresStale,
              RestoresFromFile, RemovesOthers, SetsArchived, AbstractStep, Live, Kept
  <1>1. CASE Plan \/ Apply
    BY <1>1 DEF Plan, Apply, StartCommand, ReadFor
  <1>2. CASE Restore
    BY <1>2 DEF Restore, ReadFor
  <1>3. CASE Stop
    BY <1>3 DEF Stop
  <1>4. CASE List
    BY <1>4, NoRowsFacts DEF List, history
  <1>5. CASE Get
    <2>1. PICK f \in todo :
            IF f \in DOMAIN rows
            THEN got' = With(got, f, rows[f]) /\ todo' = todo \ {f} /\ UNCHANGED pc
            ELSE pc' = "idle" /\ UNCHANGED <<got, todo>>
      BY <1>5 DEF Get
    <2>2. pc = "get" /\ UNCHANGED <<rows, file, phase, manifest, archive, receipt, history>>
      BY <1>5 DEF Get
    <2>3. CASE f \in DOMAIN rows
      <3>1. f \in Stale => rows[f] = 0
        BY <2>3 DEF Fresh
      <3>2. got' = With(got, f, rows[f]) /\ Fresh(got)
        BY <2>1, <2>3
      <3>3. DOMAIN got' = DOMAIN got \cup {f}
        BY <3>2, WithFacts
      <3>4. Fresh(With(got, f, rows[f]))
        BY <3>1, <3>2, WithFacts
      <3> QED
        BY <2>1, <2>2, <2>3, <3>2, <3>3, <3>4
    <2>4. CASE f \notin DOMAIN rows
      BY <2>1, <2>2, <2>4
    <2> QED
      BY <2>3, <2>4
  <1>6. CASE HasRead
    BY <1>6 DEF HasRead
  <1>7. CASE Conclude
    BY <1>7 DEF Conclude
  <1>8. CASE PrepareRetirement
    <2>1. UNCHANGED <<rows, file, manifest, archive, got, todo, receipt, history>>
      BY <1>8 DEF PrepareRetirement
    <2>2. CASE pc' = "save" /\ phase' = "apply" /\ phase = "apply" /\ pc = "decide"
               /\ PrepareResources(manifest, got)
      BY <2>1, <2>2 DEF PrepareResources, StaleOf
    <2>3. CASE pc' = "list" /\ phase' = "resume"
      BY <2>1, <2>3
    <2>4. CASE pc' = "idle" /\ UNCHANGED phase
      BY <2>1, <2>4
    <2> QED
      BY <1>8, <2>2, <2>3, <2>4 DEF PrepareRetirement, ReadFor, PrepareResources
  <1>9. CASE PrepareRestore
    BY <1>9 DEF PrepareRestore
  <1>10. CASE TruncateBackup
    <2>1. Stale \subseteq DOMAIN rows
      BY <1>10 DEF TruncateBackup, StaleOf
    <2>2. file'.status = "torn" /\ file'.rows = NoRows
      BY <1>10 DEF TruncateBackup, Torn
    <2> QED
      BY <1>10, <2>1, <2>2, NoRowsFacts DEF TruncateBackup, StaleOf
  <1>11. CASE SaveBackup
    <2>1. Stale \subseteq DOMAIN rows /\ Stale \subseteq DOMAIN got
      BY <1>11 DEF SaveBackup, StaleOf
    <2>2. file'.status = "saved" /\ file'.rows = got
      BY <1>11 DEF SaveBackup
    <2> QED
      BY <1>11, <2>1, <2>2 DEF SaveBackup, StaleOf
  <1>12. CASE RetireRows
    <2>1. CASE DeleteRow
      <3>1. PICK f \in todo : rows' = Without(rows, {f}) /\ todo' = todo \ {f}
                              /\ UNCHANGED <<pc, phase>>
        BY <2>1 DEF DeleteRow
      <3>2. DOMAIN rows' = DOMAIN rows \ {f} /\ Fresh(rows')
        BY <3>1, WithoutFacts
      <3> QED
        BY <1>12, <3>1, <3>2 DEF RetireRows
    <2>2. CASE Done(ReadFor("readback"))
      BY <1>12, <2>2 DEF RetireRows, Done, ReadFor
    <2> QED
      BY <1>12, <2>1, <2>2 DEF RetireRows
  <1>13. CASE RemoveRows
    <2>1. CASE DeleteRow
      <3>1. PICK f \in todo : rows' = Without(rows, {f}) /\ todo' = todo \ {f}
                              /\ UNCHANGED <<pc, phase>>
        BY <2>1 DEF DeleteRow
      <3>2. DOMAIN rows' = DOMAIN rows \ {f} /\ Fresh(rows')
        BY <3>1, WithoutFacts
      <3> QED
        BY <1>13, <3>1, <3>2 DEF RemoveRows
    <2>2. CASE todo' = DOMAIN archive /\ pc' = "set" /\ UNCHANGED <<rows, phase>>
      BY <1>13, <2>2 DEF RemoveRows
    <2> QED
      BY <1>13, <2>1, <2>2 DEF RemoveRows
  <1>14. CASE SetRows
    <2>1. CASE \E f \in todo : rows' = With(rows, f, archive[f]) /\ todo' = todo \ {f}
                               /\ UNCHANGED <<pc, phase>>
      <3>1. PICK f \in todo : rows' = With(rows, f, archive[f]) /\ todo' = todo \ {f}
                              /\ UNCHANGED <<pc, phase>>
        BY <2>1
      <3>2. f \in DOMAIN archive /\ (f \in Stale => archive[f] = 0)
        BY <1>14 DEF SetRows, Fresh
      <3>3. DOMAIN rows' = DOMAIN rows \cup {f} /\ Fresh(rows')
        BY <3>1, <3>2, WithFacts
      <3> QED
        BY <1>14, <3>1, <3>2, <3>3 DEF SetRows
    <2>2. CASE Done(ReadFor("verify"))
      BY <1>14, <2>2 DEF SetRows, Done, ReadFor
    <2> QED
      BY <1>14, <2>1, <2>2 DEF SetRows
  <1>15. CASE WriteReceipt
    BY <1>15 DEF WriteReceipt
  <1>16. CASE Deploy
    <2>1. PICK f \in Deployable : rows' = With(rows, f, NextVersion(f))
      BY <1>16 DEF Deploy
    <2>2. f \notin Stale
      BY DeployedAreFresh
    <2>3. DOMAIN rows' = DOMAIN rows \cup {f} /\ Fresh(rows')
      BY <2>1, <2>2 DEF With, Fresh
    <2>4. UNCHANGED <<file, pc, phase, manifest, archive, got, todo>>
      BY <1>16 DEF Deploy
    <2> QED
      BY <2>1, <2>2, <2>3, <2>4
  <1>17. CASE UNCHANGED vars
    BY <1>17 DEF vars
  <1> QED
    BY <1>1, <1>2, <1>3, <1>4, <1>5, <1>6, <1>7, <1>8, <1>9, <1>10, <1>11, <1>12, <1>13,
       <1>14, <1>15, <1>16, <1>17 DEF Next, Step

(* The rows that a step of the migration takes away.                       *)
LEMMA OnlyObsoleteRowsGo ==
  ASSUME IInv, [Next]_vars, NEW f \in DOMAIN rows \ DOMAIN rows'
  PROVE  \/ pc = "retire" /\ f \in Stale /\ f \notin manifest.resources
         \/ pc = "remove" /\ f \notin DOMAIN file.rows
  <1>1. rows' # rows
    OBVIOUS
  <1>2. CASE RetireRows /\ DeleteRow
    <2>1. PICK g \in todo : rows' = Without(rows, {g})
      BY <1>2 DEF DeleteRow
    <2>2. f = g
      BY <2>1, WithoutFacts
    <2> QED
      BY <1>2, <2>2 DEF RetireRows, IInv, RetiresStale
  <1>3. CASE RemoveRows /\ DeleteRow
    <2>1. PICK g \in todo : rows' = Without(rows, {g})
      BY <1>3 DEF DeleteRow
    <2>2. f = g
      BY <2>1, WithoutFacts
    <2> QED
      BY <1>3, <2>2 DEF RemoveRows, IInv, RemovesOthers, RestoresFromFile
  <1>4. CASE SetRows
    <2>1. PICK g \in todo : rows' = With(rows, g, archive[g])
      BY <1>4, <1>1 DEF SetRows, Done
    <2>2. DOMAIN rows' = DOMAIN rows \cup {g}
      BY <2>1, WithFacts
    <2> QED
      BY <2>2
  <1>5. CASE Deploy
    <2>1. PICK g \in Deployable : rows' = With(rows, g, NextVersion(g))
      BY <1>5 DEF Deploy
    <2>2. DOMAIN rows' = DOMAIN rows \cup {g}
      BY <2>1, WithFacts
    <2> QED
      BY <2>2
  <1>6. RetireRows => DeleteRow
    BY <1>1 DEF RetireRows, Done
  <1>7. RemoveRows => DeleteRow
    BY <1>1 DEF RemoveRows
  <1>8. RetireRows \/ RemoveRows \/ SetRows \/ Deploy
    BY <1>1 DEF Next, Step, vars, Plan, Apply, StartCommand, Restore, Stop, List, Get, HasRead,
                Conclude, PrepareRetirement, PrepareRestore, TruncateBackup, SaveBackup,
                WriteReceipt
  <1> QED
    BY <1>2, <1>3, <1>4, <1>5, <1>6, <1>7, <1>8

LEMMA Invariance == Spec => []IInv
  <1>1. IInv /\ [Next]_vars => IInv'
    BY StepInv
  <1> QED
    BY InitInv, <1>1, PTL DEF Spec

(* No stale row is ever lost: it is in the state or in a backup that can   *)
(* be loaded (preview-state-migration.ts, retire and restore).             *)
THEOREM NoRowIsLost == Spec => []NothingIsLost
  <1>1. IInv => NothingIsLost
    BY DEF IInv, FilesAreFresh, BackupIsWhole, Fresh, NothingIsLost
  <1> QED
    BY Invariance, <1>1, PTL

(* No row that the manifest desires is retired, and no row of the backup   *)
(* is removed to restore it, whatever deployments do in between.           *)
THEOREM OnlyObsoleteRowsAreRemoved == Spec => DesiredRowsSurvive
  <1>1. IInv /\ [Next]_vars =>
          [\A f \in DOMAIN rows \ DOMAIN rows' :
             \/ pc = "retire" /\ f \in Stale /\ f \notin manifest.resources
             \/ pc = "remove" /\ f \notin DOMAIN file.rows]_vars
    BY OnlyObsoleteRowsGo
  <1> QED
    BY Invariance, <1>1, PTL DEF Spec, DesiredRowsSurvive

(* The commands implement the all-or-nothing archive, for any rows, policy *)
(* and manifests, and however many runs stop half way.                     *)
THEOREM MigrationIsReversible == Spec => Reversible
  <1>1. Init => Abstract!Init
    BY DEF Init, Abstract!Init
  <1>2. IInv /\ [Next]_vars => [Abstract!Next]_<<Stale \cap DOMAIN rows, Stale \cap DOMAIN file.rows>>
    BY StepInv DEF AbstractStep, Live, Kept, Abstract!Next, Abstract!Archive, Abstract!Remove,
                   Abstract!Return
  <1> QED
    BY Invariance, <1>1, <1>2, PTL DEF Spec, Reversible, Abstract!Spec
-----------------------------------------------------------------------------
(* Types.                                                                  *)

LEMMA RowsAreFunctions ==
  ASSUME NEW r \in Rows
  PROVE  DOMAIN r \subseteq Fqn /\ r \in [DOMAIN r -> 0..MaxVersion]
  BY DEF Rows

LEMMA FunctionsAreRows ==
  ASSUME NEW names \in SUBSET Fqn, NEW r \in [names -> 0..MaxVersion]
  PROVE  r \in Rows
  BY DEF Rows

LEMMA BoundsAreNumbers ==
  MaxVersion \in Nat /\ MaxDeploys \in Nat /\ MaxStops \in Nat
  BY MigrationAssumption

LEMMA NoRowsTyped == NoRows \in Rows
  <1>1. NoRows \in [{} -> 0..MaxVersion]
    BY DEF NoRows
  <1> QED
    BY <1>1, FunctionsAreRows

LEMMA WithTyped ==
  ASSUME NEW r \in Rows, NEW f \in Fqn, NEW v \in 0..MaxVersion
  PROVE  With(r, f, v) \in Rows
  <1>1. With(r, f, v) \in [DOMAIN r \cup {f} -> 0..MaxVersion]
    BY RowsAreFunctions DEF With
  <1> QED
    BY <1>1, RowsAreFunctions, FunctionsAreRows

LEMMA WithoutTyped ==
  ASSUME NEW r \in Rows, NEW S
  PROVE  Without(r, S) \in Rows
  <1>1. Without(r, S) \in [DOMAIN r \ S -> 0..MaxVersion]
    BY RowsAreFunctions DEF Without
  <1> QED
    BY <1>1, RowsAreFunctions, FunctionsAreRows

LEMMA InitTyped == Init => TypeOK
  <1> SUFFICES ASSUME Init PROVE TypeOK
    OBVIOUS
  <1>1. file.status = "none" /\ file.rows = NoRows
    BY DEF Init, NoFile
  <1>2. deploys \in 0..MaxDeploys /\ stops \in 0..MaxStops
    BY BoundsAreNumbers DEF Init
  <1> QED
    BY <1>1, <1>2, NoRowsTyped DEF Init, TypeOK, Phase

(* What a command writes into the state, apart from rows it deletes.       *)
LEMMA StepTyped == TypeOK /\ IInv /\ [Next]_vars => TypeOK'
  <1> SUFFICES ASSUME TypeOK, IInv, [Next]_vars PROVE TypeOK'
    OBVIOUS
  <1> USE DEF TypeOK
  <1>1. CASE Plan \/ Apply \/ Restore \/ Stop
    <2>1. stops' \in 0..MaxStops
      BY <1>1, BoundsAreNumbers DEF Plan, Apply, StartCommand, Restore, Stop
    <2> QED
      BY <1>1, <2>1 DEF Plan, Apply, StartCommand, Restore, Stop, ReadFor, Phase
  <1>2. CASE List
    BY <1>2, NoRowsTyped, RowsAreFunctions DEF List, history
  <1>3. CASE Get
    <2>1. PICK f \in todo :
            IF f \in DOMAIN rows
            THEN got' = With(got, f, rows[f]) /\ todo' = todo \ {f} /\ UNCHANGED pc
            ELSE pc' = "idle" /\ UNCHANGED <<got, todo>>
      BY <1>3 DEF Get
    <2>2. f \in DOMAIN rows => rows[f] \in 0..MaxVersion
      BY RowsAreFunctions
    <2>3. got' \in Rows /\ todo' \subseteq Fqn
      BY <2>1, <2>2, WithTyped
    <2> QED
      BY <1>3, <2>1, <2>3 DEF Get, history
  <1>4. CASE HasRead \/ Conclude \/ PrepareRetirement
    BY <1>4 DEF HasRead, Conclude, PrepareRetirement, ReadFor, Phase, history
  <1>5. CASE PrepareRestore
    BY <1>5, RowsAreFunctions DEF PrepareRestore, history
  <1>6. CASE TruncateBackup
    BY <1>6, NoRowsTyped DEF TruncateBackup, Torn, history
  <1>7. CASE SaveBackup
    BY <1>7, RowsAreFunctions DEF SaveBackup, StaleOf, history
  <1>8. CASE RetireRows \/ RemoveRows
    <2>1. rows' \in Rows
      BY <1>8, WithoutTyped DEF RetireRows, RemoveRows, DeleteRow, Done
    <2>2. todo' \subseteq Fqn
      BY <1>8, RowsAreFunctions DEF RetireRows, RemoveRows, DeleteRow, Done
    <2> QED
      BY <1>8, <2>1, <2>2 DEF RetireRows, RemoveRows, DeleteRow, Done, ReadFor, Phase, history
  <1>9. CASE SetRows
    <2>1. todo \subseteq DOMAIN archive
      BY <1>9 DEF SetRows, IInv, SetsArchived
    <2>2. rows' \in Rows
      BY <1>9, <2>1, WithTyped, RowsAreFunctions DEF SetRows, Done
    <2> QED
      BY <1>9, <2>2 DEF SetRows, Done, ReadFor, Phase, history
  <1>10. CASE WriteReceipt
    BY <1>10 DEF WriteReceipt, Claim, Phase, history
  <1>11. CASE Deploy
    <2>1. PICK f \in Deployable :
            NextVersion(f) <= MaxVersion /\ rows' = With(rows, f, NextVersion(f))
      BY <1>11 DEF Deploy
    <2>2. f \in Fqn
      BY MigrationAssumption DEF Deployable
    <2>3. NextVersion(f) \in 0..MaxVersion
      BY <2>1, RowsAreFunctions, BoundsAreNumbers DEF NextVersion
    <2>4. rows' \in Rows
      BY <2>1, <2>2, <2>3, WithTyped
    <2>5. deploys' \in 0..MaxDeploys
      BY <1>11, BoundsAreNumbers DEF Deploy
    <2> QED
      BY <1>11, <2>4, <2>5 DEF Deploy
  <1>12. CASE UNCHANGED vars
    BY <1>12 DEF vars
  <1> QED
    BY <1>1, <1>2, <1>3, <1>4, <1>5, <1>6, <1>7, <1>8, <1>9, <1>10, <1>11, <1>12 DEF Next, Step

(* Every variable of the migration keeps its type: rows are functions of   *)
(* names to versions, whatever is deleted, restored or deployed.           *)
THEOREM TypeCorrect == Spec => []TypeOK
  BY InitTyped, StepTyped, Invariance, PTL DEF Spec
-----------------------------------------------------------------------------
(* Receipts: what a command that reads, and then decides, still knows when *)
(* it writes its receipt.                                                  *)

(* What has been read against the rows there are: only deployments come    *)
(* between, and they touch no stale row.                                   *)
ReadsRows ==
  /\ pc = "get" =>
       /\ Stale \cap DOMAIN rows \subseteq DOMAIN got \cup todo
       /\ \/ changed
          \/ /\ DOMAIN rows = DOMAIN got \cup todo
             /\ \A f \in DOMAIN got : got[f] = rows[f]
  /\ pc \in {"decide", "receipt"} =>
       /\ Stale \cap DOMAIN rows \subseteq DOMAIN got
       /\ changed \/ got = rows

(* The backup that a retirement rests on.                                  *)
BackedUp ==
  file.status = "saved" /\ file.digest = manifest.digest
    /\ Cardinality(DOMAIN file.rows) = CurrentCount

SavesCurrent == pc \in {"save", "write"} => CountFits(got)

RetiresBackedUp ==
  pc = "retire" \/ (pc # "idle" /\ phase = "readback") => BackedUp

VerifiesFile ==
  pc # "idle" /\ phase = "verify" => archive = file.rows

ReceiptIsEarned ==
  pc = "receipt" => phase \in {"plan", "resume", "readback", "verify"} /\ Verdict

RInv ==
  ReadsRows /\ SavesCurrent /\ RetiresBackedUp /\ VerifiesFile /\ ReceiptIsEarned

LEMMA InitRInv == Init => RInv
  BY DEF Init, RInv, ReadsRows, SavesCurrent, RetiresBackedUp, VerifiesFile, ReceiptIsEarned

LEMMA StepReadsRows ==
  ASSUME TypeOK, IInv, RInv, [Next]_vars
  PROVE  ReadsRows'
  <1> USE DEF RInv, ReadsRows
  <1>1. CASE List
    <2>1. DOMAIN got' = {}
      BY <1>1, NoRowsFacts DEF List
    <2> QED
      BY <1>1, <2>1 DEF List, history
  <1>2. CASE Get
    <2>1. PICK f \in todo :
            IF f \in DOMAIN rows
            THEN got' = With(got, f, rows[f]) /\ todo' = todo \ {f} /\ UNCHANGED pc
            ELSE pc' = "idle" /\ UNCHANGED <<got, todo>>
      BY <1>2 DEF Get
    <2>2. pc = "get" /\ UNCHANGED <<rows, changed>>
      BY <1>2 DEF Get, history
    <2>3. CASE f \in DOMAIN rows
      <3>1. got' = With(got, f, rows[f]) /\ todo' = todo \ {f} /\ pc' = "get"
        BY <2>1, <2>2, <2>3
      <3>2. DOMAIN got' = DOMAIN got \cup {f}
        BY <3>1, WithFacts
      <3>3. \A g \in DOMAIN got' : got'[g] = IF g = f THEN rows[f] ELSE got[g]
        BY <3>1 DEF With
      <3> QED
        BY <2>2, <3>1, <3>2, <3>3
    <2>4. CASE f \notin DOMAIN rows
      BY <2>1, <2>4
    <2> QED
      BY <2>3, <2>4
  <1>3. CASE HasRead
    <2>1. pc = "get" /\ todo = {} /\ pc' = "decide" /\ UNCHANGED <<rows, got, changed>>
      BY <1>3 DEF HasRead, history
    <2>2. rows \in [DOMAIN rows -> 0..MaxVersion] /\ got \in [DOMAIN got -> 0..MaxVersion]
      BY RowsAreFunctions DEF TypeOK
    <2>3. changed \/ got = rows
      BY <2>1, <2>2
    <2> QED
      BY <2>1, <2>3
  <1>4. CASE Conclude
    BY <1>4 DEF Conclude, history
  <1>5. CASE Deploy
    <2>1. PICK f \in Deployable : rows' = With(rows, f, NextVersion(f))
      BY <1>5 DEF Deploy
    <2>2. f \notin Stale
      BY DeployedAreFresh
    <2>3. DOMAIN rows' = DOMAIN rows \cup {f}
      BY <2>1 DEF With
    <2>4. changed' /\ UNCHANGED <<pc, got, todo>>
      BY <1>5 DEF Deploy
    <2> QED
      BY <2>2, <2>3, <2>4
  <1>6. CASE UNCHANGED vars
    BY <1>6 DEF vars
  <1>7. CASE Plan \/ Apply \/ Restore \/ Stop \/ WriteReceipt
    <2>1. pc' \in {"list", "idle"}
      BY <1>7 DEF Plan, Apply, StartCommand, Restore, Stop, WriteReceipt, ReadFor
    <2> QED
      BY <2>1
  <1>8. CASE PrepareRetirement \/ PrepareRestore \/ TruncateBackup \/ SaveBackup
    <2>1. pc' \notin {"get", "decide", "receipt"}
      BY <1>8 DEF PrepareRetirement, PrepareRestore, TruncateBackup, SaveBackup, ReadFor
    <2> QED
      BY <2>1
  <1>9. CASE RetireRows \/ RemoveRows \/ SetRows
    <2>1. pc' \notin {"get", "decide", "receipt"}
      BY <1>9 DEF RetireRows, RemoveRows, SetRows, DeleteRow, Done, ReadFor
    <2> QED
      BY <2>1
  <1> QED
    BY <1>1, <1>2, <1>3, <1>4, <1>5, <1>6, <1>7, <1>8, <1>9 DEF Next, Step

LEMMA StepBackup ==
  ASSUME IInv, RInv, [Next]_vars
  PROVE  SavesCurrent' /\ RetiresBackedUp' /\ VerifiesFile'
  <1> USE DEF RInv, SavesCurrent, RetiresBackedUp, VerifiesFile, BackedUp, CountFits
  <1>1. CASE Plan \/ Apply \/ Restore
    BY <1>1 DEF Plan, Apply, Restore, StartCommand, ReadFor
  <1>2. CASE Stop \/ WriteReceipt
    BY <1>2 DEF Stop, WriteReceipt
  <1>3. CASE List \/ Get \/ HasRead
    BY <1>3 DEF List, Get, HasRead
  <1>4. CASE Conclude \/ PrepareRestore
    BY <1>4 DEF Conclude, PrepareRestore
  <1>5. CASE PrepareRetirement
    BY <1>5 DEF PrepareRetirement, ReadFor, PrepareResources
  <1>6. CASE TruncateBackup
    BY <1>6 DEF TruncateBackup, IInv, SavesAll
  <1>7. CASE SaveBackup
    BY <1>7 DEF SaveBackup, IInv, SavesAll
  <1>8. CASE RetireRows
    BY <1>8 DEF RetireRows, DeleteRow, Done, ReadFor
  <1>9. CASE RemoveRows
    BY <1>9 DEF RemoveRows, DeleteRow
  <1>10. CASE SetRows
    BY <1>10 DEF SetRows, Done, ReadFor, IInv, SetsArchived, RestoresFromFile
  <1>11. CASE Deploy
    BY <1>11 DEF Deploy
  <1>12. CASE UNCHANGED vars
    BY <1>12 DEF vars
  <1> QED
    BY <1>1, <1>2, <1>3, <1>4, <1>5, <1>6, <1>7, <1>8, <1>9, <1>10, <1>11, <1>12 DEF Next, Step

LEMMA StepReceipt ==
  ASSUME TypeOK, RInv, [Next]_vars
  PROVE  ReceiptIsEarned'
  <1>1. CASE Conclude
    <2>1. UNCHANGED <<file, phase, manifest, archive, got>>
      BY <1>1 DEF Conclude
    <2>2. Verdict' <=> Verdict
      BY <2>1 DEF Verdict, PrepareResources, CountFits, StaleOf, ResumeRetirement,
                  RetirementReadBack, Without
    <2> QED
      BY <1>1, <2>1, <2>2 DEF Conclude, ReceiptIsEarned, TypeOK, Phase
  <1>2. CASE Deploy \/ UNCHANGED vars
    <2>1. UNCHANGED <<file, phase, manifest, archive, got, pc>>
      BY <1>2 DEF Deploy, vars
    <2>2. Verdict' <=> Verdict
      BY <2>1 DEF Verdict, PrepareResources, CountFits, StaleOf, ResumeRetirement,
                  RetirementReadBack, Without
    <2> QED
      BY <2>1, <2>2 DEF RInv, ReceiptIsEarned
  <1>3. CASE Plan \/ Apply \/ Restore \/ Stop \/ WriteReceipt
    BY <1>3 DEF Plan, Apply, StartCommand, Restore, Stop, WriteReceipt, ReadFor, ReceiptIsEarned
  <1>4. CASE List \/ Get \/ HasRead \/ PrepareRetirement \/ PrepareRestore
    BY <1>4 DEF List, Get, HasRead, PrepareRetirement, PrepareRestore, ReadFor, ReceiptIsEarned
  <1>5. CASE TruncateBackup \/ SaveBackup \/ RetireRows \/ RemoveRows \/ SetRows
    BY <1>5 DEF TruncateBackup, SaveBackup, RetireRows, RemoveRows, SetRows, DeleteRow, Done,
                ReadFor, ReceiptIsEarned
  <1> QED
    BY <1>1, <1>2, <1>3, <1>4, <1>5 DEF Next, Step

LEMMA ReceiptInvariance == Spec => []RInv
  <1>1. TypeOK /\ IInv /\ RInv /\ [Next]_vars => RInv'
    BY StepReadsRows, StepBackup, StepReceipt DEF RInv
  <1> QED
    BY InitRInv, <1>1, TypeCorrect, Invariance, PTL DEF Spec

(* Without the stale rows of an accepted backup, nothing stale is left.    *)
LEMMA RetirementLeavesNoStale ==
  ASSUME RInv, pc = "receipt", phase \in {"resume", "readback"}
  PROVE  DOMAIN rows \cap Stale = {} /\ BackedUp
  <1>1. Stale \cap DOMAIN rows \subseteq DOMAIN got
    BY DEF RInv, ReadsRows
  <1>2. CASE phase = "resume"
    <2>1. ResumeRetirement(manifest, got)
      BY <1>2 DEF RInv, ReceiptIsEarned, Verdict
    <2>2. DOMAIN got = DOMAIN file.rows \ StaleOf(manifest, file.rows)
      BY <2>1 DEF ResumeRetirement, Without
    <2>3. StaleOf(manifest, file.rows) = Stale /\ BackedUp
      BY <2>1 DEF ResumeRetirement, PrepareResources, CountFits, BackedUp
    <2> QED
      BY <1>1, <2>2, <2>3
  <1>3. CASE phase = "readback"
    <2>1. DOMAIN got \cap Stale = {}
      BY <1>3 DEF RInv, ReceiptIsEarned, Verdict, RetirementReadBack
    <2>2. BackedUp
      BY <1>3 DEF RInv, RetiresBackedUp
    <2> QED
      BY <1>1, <2>1, <2>2
  <1> QED
    BY <1>2, <1>3

(* A step that changes the receipt writes one, and it is true.             *)
ReceiptIsTrue ==
  CASE receipt' = "planned"  -> changed \/ PrepareResources(manifest, rows)
    [] receipt' = "retired"  -> /\ DOMAIN rows \cap Stale = {}
                                /\ file.status = "saved" /\ file.digest = manifest.digest
                                /\ Cardinality(DOMAIN file.rows) = CurrentCount
    [] receipt' = "restored" -> changed \/ rows = file.rows

LEMMA WrittenReceiptIsTrue ==
  ASSUME RInv, [Next]_vars, receipt' # receipt
  PROVE  ReceiptIsTrue
  <1>1. WriteReceipt
    BY DEF Next, Step, vars, Plan, Apply, StartCommand, Restore, Stop, List, Get, HasRead,
           Conclude, PrepareRetirement, PrepareRestore, TruncateBackup, SaveBackup, RetireRows,
           RemoveRows, SetRows, Deploy
  <1>2. pc = "receipt" /\ receipt' = Claim(phase)
    BY <1>1 DEF WriteReceipt
  <1>3. phase \in {"plan", "resume", "readback", "verify"} /\ Verdict /\ (changed \/ got = rows)
    BY <1>2 DEF RInv, ReceiptIsEarned, ReadsRows
  <1>4. CASE phase = "plan"
    <2>1. changed \/ PrepareResources(manifest, rows)
      BY <1>3, <1>4 DEF Verdict
    <2> QED
      BY <1>2, <1>4, <2>1 DEF ReceiptIsTrue, Claim
  <1>5. CASE phase \in {"resume", "readback"}
    BY <1>2, <1>5, RetirementLeavesNoStale DEF ReceiptIsTrue, Claim, BackedUp
  <1>6. CASE phase = "verify"
    <2>1. changed \/ rows = file.rows
      BY <1>2, <1>3, <1>6 DEF Verdict, RInv, VerifiesFile
    <2> QED
      BY <1>2, <1>6, <2>1 DEF ReceiptIsTrue, Claim
  <1> QED
    BY <1>3, <1>4, <1>5, <1>6

(* A receipt claims only what is so when it is written: "retired" means no *)
(* stale row and a backup of this manifest, and "planned" and "restored"   *)
(* what was compared, unless a deployment came between the reading and it. *)
THEOREM ReceiptsClaimWhatIsSo == Spec => ReceiptsAreTrue
  <1>1. RInv /\ [Next]_vars => [receipt' # receipt => ReceiptIsTrue]_vars
    BY WrittenReceiptIsTrue
  <1> QED
    BY ReceiptInvariance, <1>1, PTL DEF Spec, ReceiptsAreTrue, ReceiptIsTrue
=============================================================================
