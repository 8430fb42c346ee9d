-------------------------- MODULE CommandLineProofs --------------------------
(***************************************************************************)
(* For every input of the commands composed in CommandLine: what the exit  *)
(* code of a golib process says of the work it has done.  Each component   *)
(* has an inductive invariant of its own; the process only decides when    *)
(* its steps are taken and which result becomes the exit code.             *)
(***************************************************************************)
EXTENDS CommandLine, FiniteSetTheorems, NaturalsInduction, WellFoundedInduction, TLAPS

Stages == {"admission", "arguments", "executor", "work", "exited"}

\* The process: a code other than "none" belongs to a process that has ended, and
\* 0 to a command whose method has returned without an error.
ProcessInv ==
    /\ golib \in [command : CommandNames, at : Stages, exit : {"none", "0", "1", "2", "killed"}]
    /\ golib.exit # "none" => golib.at = "exited"
    /\ golib.exit = "0" => Over /\ Succeeded

\* What a step of the process is for a command's component: a step of it, or none.
LEMMA ProcessStep ==
  ASSUME golib \in [command : CommandNames, at : Stages, exit : {"none", "0", "1", "2", "killed"}],
         [CommandNext]_commandVars
  PROVE  /\ golib' \in [command : {golib.command}, at : Stages, exit : {"none", "0", "1", "2", "killed"}]
         /\ golib.command = "aggregate" => CatalogStep \/ CatalogKilled \/ CatalogAgain \/ UNCHANGED catalogVars
         /\ golib.command = "import" => MigrationNext \/ UNCHANGED importVars
         /\ golib.command = "workflows" => LocalActionsNext \/ UNCHANGED localActionVars
         /\ golib.command \in {"inventory", "fuzz"} => SelectionNext \/ UNCHANGED selectionVars
         /\ golib.command = "specification" => SpecificationNext \/ UNCHANGED specificationVars
  <1> USE DEF CommandNames, Stages, Components
  <1>1. CASE Admit \/ ParseArguments \/ CreateExecutor \/ Return \/ ReturnUnclean
    BY <1>1 DEF Admit, ParseArguments, CreateExecutor, Return, ReturnUnclean, Before, Continue, ExitWith
  <1>2. CASE AggregateWorks BY <1>2 DEF AggregateWorks
  <1>3. CASE ImportWorks \/ ImportMeanwhile BY <1>3 DEF ImportWorks, ImportMeanwhile, MigrationNext
  <1>4. CASE WorkflowsWork BY <1>4 DEF WorkflowsWork
  <1>5. CASE InventoryWorks \/ FuzzWorks BY <1>5 DEF InventoryWorks, FuzzWorks, SelectionNext
  <1>6. CASE SpecificationWorks BY <1>6 DEF SpecificationWorks
  <1>7. CASE AggregateKilled BY <1>7 DEF AggregateKilled, ExitWith
  <1>8. CASE RunAgain BY <1>8 DEF RunAgain, MigrationNext
  <1>9. CASE UNCHANGED commandVars BY <1>9 DEF commandVars
  <1> QED BY <1>1, <1>2, <1>3, <1>4, <1>5, <1>6, <1>7, <1>8, <1>9 DEF CommandNext

\* No code before the first work, and no work after a code.
LEMMA ProcessInit == CommandInit => ProcessInv
  BY DEF CommandInit, ProcessInv, CommandNames, Stages

LEMMA ProcessNext == ProcessInv /\ [CommandNext]_commandVars => ProcessInv'
  <1> SUFFICES ASSUME ProcessInv, [CommandNext]_commandVars PROVE ProcessInv'
    OBVIOUS
  <1>1. golib' \in [command : {golib.command}, at : Stages, exit : {"none", "0", "1", "2", "killed"}]
    BY ProcessStep DEF ProcessInv
  <1>2. golib'.exit # "none" => golib'.at = "exited"
    BY DEF ProcessInv, CommandNext, Admit, ParseArguments, CreateExecutor, AggregateWorks, ImportWorks,
       ImportMeanwhile, WorkflowsWork, InventoryWorks, FuzzWorks, SpecificationWorks, Return,
       ReturnUnclean, AggregateKilled, RunAgain, Before, Continue, ExitWith, commandVars, Stages
  <1>3. golib'.exit = "0" => Over' /\ Succeeded'
    <2> SUFFICES ASSUME golib'.exit = "0" PROVE Over' /\ Succeeded'
      OBVIOUS
    <2>1. CASE Return
      BY <2>1, <1>1 DEF Return, ExitWith, Components, catalogVars, importVars, localActionVars,
         selectionVars, specificationVars, Over, Succeeded
    <2>2. CASE UNCHANGED commandVars
      BY <2>2 DEF ProcessInv, commandVars, catalogVars, importVars, localActionVars,
         selectionVars, specificationVars, Over, Succeeded
    <2> QED
      BY <2>1, <2>2 DEF ProcessInv, CommandNext, Admit, ParseArguments, CreateExecutor, AggregateWorks,
         ImportWorks, ImportMeanwhile, WorkflowsWork, InventoryWorks, FuzzWorks, SpecificationWorks,
         ReturnUnclean, AggregateKilled, RunAgain, Before, Continue, ExitWith, Stages
  <1> QED BY <1>1, <1>2, <1>3 DEF ProcessInv

-----------------------------------------------------------------------------
(* golib mutation import. *)

ImportSteps == {"idle", "hash", "approve", "paths", "report", "load", "record",
                "imported", "changed", "failed"}

ImportType ==
    /\ archive \in Archives /\ ledger \in Ledgers
    /\ sources \in [MigratedPackages -> Contents]
    /\ published \in [EvidenceKeys -> Outcomes \cup {Absent}]
    /\ imported \in [EvidenceKeys -> EvidenceRecords \cup {Absent}]
    /\ importer \in [step : ImportSteps, next : 1..Len(archive), content : Contents \cup {Absent},
                     skipped : SUBSET MigratedPackages, existing : EvidenceRecords \cup {Absent}]

\* What an approval says: the checkpoint was executed on this content, or its
\* replacement by it was reviewed.
Approves(checkpoint, content) ==
    \/ checkpoint.input.content = content
    \/ \E entry \in ledger.entries :
          /\ entry.package = checkpoint.package /\ entry.input = checkpoint.input
          /\ entry.replacement.content = content
          /\ entry.report.outcome = checkpoint.outcome

\* A record stands on the report published under its key; an imported one on an
\* approved checkpoint too.
RecordStands(key) ==
    LET record == imported[key] IN
    record # Absent =>
        /\ published[key] = record.report.outcome
        /\ record.origin = "imported" =>
              /\ record.verifier = "historical" /\ record.report.form = "canonical" =>
                    key.content \in SamePaths
              /\ \E n \in DOMAIN archive :
                    /\ archive[n].package = key.package /\ archive[n].outcome = published[key]
                    /\ Approves(archive[n], key.content)

\* What the import has found out about the checkpoint at hand before it publishes
\* anything for it, and what the report it publishes is worth later.
CheckpointKnown ==
    /\ importer.step \in {"approve", "paths", "report", "load", "record"} => Hashed \in Contents
    /\ importer.step \in {"paths", "report", "load", "record"} => Approves(Checkpoint, Hashed)
    /\ importer.step \in {"report", "load", "record"} =>
          (ledger.verifier = "historical" => Hashed \in SamePaths)
    /\ importer.step \in {"load", "record"} => published[EvidenceKey] = Checkpoint.outcome

\* A checkpoint that the import is past was skipped or has its record.
Dealt(n) ==
    \/ archive[n].package \in importer.skipped
    \/ \E key \in EvidenceKeys :
          key.package = archive[n].package /\ imported[key] # Absent /\ imported[key].origin = "imported"

CheckpointsDealt ==
    /\ \A n \in DOMAIN archive : n < importer.next \/ importer.step \in {"imported", "changed"} => Dealt(n)
    /\ importer.step = "imported" => importer.skipped = {}
    /\ importer.step = "changed" => importer.skipped # {}

\* ImportedIsApproved says nothing of the report that a later step publishes a
\* record for, nor ImportAccounts of an import under way.
ImportInv ==
    ImportType /\ CheckpointKnown /\ CheckpointsDealt /\ \A key \in EvidenceKeys : RecordStands(key)

\* The checkpoint at hand, and the evidence it is about.
LEMMA CheckpointAtHand ==
  ASSUME ImportType
  PROVE  /\ DOMAIN archive = 1..Len(archive) /\ Len(archive) \in Nat \ {0}
         /\ \A n \in DOMAIN archive :
               archive[n].package \in MigratedPackages /\ archive[n].outcome \in Outcomes
         /\ importer.next \in DOMAIN archive
         /\ Checkpoint.package \in MigratedPackages /\ Checkpoint.outcome \in Outcomes
         /\ Hashed \in Contents => EvidenceKey \in EvidenceKeys
  <1>1. DOMAIN archive = 1..Len(archive) /\ Len(archive) \in Nat \ {0}
    BY MigrationAssumption DEF ImportType
  <1>2. \A n \in DOMAIN archive :
           archive[n].package \in MigratedPackages /\ archive[n].outcome \in Outcomes
    BY DEF ImportType, MigratedPackages, Outcomes
  <1>3. importer.next \in DOMAIN archive
    BY <1>1 DEF ImportType
  <1> QED BY <1>1, <1>2, <1>3 DEF Checkpoint, EvidenceKey, EvidenceKeys

\* Nothing was imported but what an earlier release may have, as executed.
LEMMA ImportStarts == MigrationInit => ImportInv
  <1> SUFFICES ASSUME MigrationInit PROVE ImportInv
    OBVIOUS
  <1>1. /\ archive \in Archives /\ ledger \in Ledgers
        /\ sources \in [MigratedPackages -> Contents] /\ importer = Idle
    BY DEF MigrationInit
  <1>2. PICK earlier \in SUBSET {EarlierImport(archive[n]) : n \in DOMAIN archive} :
          /\ published = [key \in EvidenceKeys |->
                 IF \E one \in earlier : one.key = key
                 THEN (CHOOSE one \in earlier : one.key = key).record.report.outcome ELSE Absent]
          /\ imported = [key \in EvidenceKeys |->
                 IF \E one \in earlier : one.key = key
                 THEN (CHOOSE one \in earlier : one.key = key).record ELSE Absent]
    BY DEF MigrationInit
  <1>3. DOMAIN archive = 1..Len(archive) /\ Len(archive) \in Nat \ {0}
    BY <1>1, MigrationAssumption
  <1>4. \A n \in DOMAIN archive :
           archive[n].package \in MigratedPackages /\ archive[n].outcome \in Outcomes
    BY <1>1 DEF MigratedPackages, Outcomes
  <1>5. ASSUME NEW key \in EvidenceKeys, imported[key] # Absent
        PROVE  \E n \in DOMAIN archive :
                  /\ imported[key] = EarlierImport(archive[n]).record
                  /\ EarlierImport(archive[n]).key = key
                  /\ published[key] = imported[key].report.outcome
    <2>1. \E one \in earlier : one.key = key
      BY <1>2, <1>5
    <2>2. PICK one \in earlier : one = (CHOOSE x \in earlier : x.key = key) /\ one.key = key
      BY <2>1
    <2> QED BY <1>2, <2>1, <2>2
  <1>6. ASSUME NEW n \in DOMAIN archive
        PROVE  LET record == EarlierImport(archive[n]).record
                   key == EarlierImport(archive[n]).key
               IN  /\ record \in EvidenceRecords /\ record.origin = "imported"
                   /\ record.report.form = "legacy" /\ record.report.outcome = archive[n].outcome
                   /\ key.package = archive[n].package /\ key.content = archive[n].input.content
    BY <1>1, <1>4 DEF EarlierImport, EvidenceRecords, Digested, Forms
  <1>7. imported \in [EvidenceKeys -> EvidenceRecords \cup {Absent}]
    BY <1>2, <1>5, <1>6
  <1>8. published \in [EvidenceKeys -> Outcomes \cup {Absent}]
    <2> SUFFICES ASSUME NEW key \in EvidenceKeys PROVE published[key] \in Outcomes \cup {Absent}
      BY <1>2
    <2>1. CASE imported[key] = Absent
      <3>1. ~ \E one \in earlier : one.key = key
        <4> SUFFICES ASSUME \E one \in earlier : one.key = key PROVE FALSE
          OBVIOUS
        <4>1. PICK one \in earlier : one = (CHOOSE x \in earlier : x.key = key) /\ one.key = key
          OBVIOUS
        <4>2. imported[key] = one.record
          BY <1>2, <4>1
        <4> QED BY <2>1, <1>6, <4>2, MigrationAssumption
      <3> QED BY <1>2, <3>1
    <2>2. CASE imported[key] # Absent
      BY <1>4, <1>5, <1>6, <2>2
    <2> QED BY <2>1, <2>2
  <1>9. ImportType
    BY <1>1, <1>3, <1>7, <1>8 DEF ImportType, Idle, ImportSteps
  <1>10. \A key \in EvidenceKeys : RecordStands(key)
    BY <1>5, <1>6 DEF RecordStands, Approves
  <1>11. CheckpointKnown /\ CheckpointsDealt
    BY <1>1, <1>3 DEF CheckpointKnown, CheckpointsDealt, Idle
  <1> QED BY <1>9, <1>10, <1>11 DEF ImportInv

\* The import stays in its archive.
LEMMA NextCheckpointType ==
  ASSUME ImportType, NEW skipped \in SUBSET MigratedPackages, NextCheckpoint(skipped), archive' = archive
  PROVE  importer' \in [step : ImportSteps, next : 1..Len(archive), content : Contents \cup {Absent},
                       skipped : SUBSET MigratedPackages, existing : EvidenceRecords \cup {Absent}]
  <1> DEFINE following == IF importer.next = Len(archive) THEN importer.next ELSE importer.next + 1
             step == IF importer.next < Len(archive) THEN "hash"
                     ELSE IF importer.skipped \cup skipped = {} THEN "imported" ELSE "changed"
  <1>1. following \in 1..Len(archive)
    BY CheckpointAtHand
  <1>2. step \in ImportSteps
    BY DEF ImportSteps
  <1>3. importer' = [importer EXCEPT !.skipped = importer.skipped \cup skipped, !.content = Absent,
                        !.existing = Absent, !.next = following, !.step = step]
    BY DEF NextCheckpoint
  <1> HIDE DEF following, step
  <1> QED BY <1>1, <1>2, <1>3 DEF ImportType

\* The import goes on to the next checkpoint, or is over: what is at hand is
\* forgotten, and the checkpoint left behind must have been dealt with.
LEMMA NextCheckpointDeals ==
  ASSUME ImportInv, NEW skipped \in SUBSET MigratedPackages, NextCheckpoint(skipped),
         UNCHANGED <<sources, archive, ledger>>, ImportType',
         importer.step \in {"hash", "approve", "paths", "report", "load", "record"},
         \A n \in DOMAIN archive : n < importer.next \/ n = importer.next => Dealt(n)'
  PROVE  CheckpointKnown' /\ CheckpointsDealt'
  <1>1. /\ DOMAIN archive = 1..Len(archive) /\ Len(archive) \in Nat \ {0}
        /\ importer.next \in 1..Len(archive)
    BY CheckpointAtHand DEF ImportInv
  <1>2. /\ importer'.next = IF importer.next = Len(archive) THEN importer.next ELSE importer.next + 1
        /\ importer'.skipped = importer.skipped \cup skipped
        /\ importer'.step = IF importer.next < Len(archive) THEN "hash"
                           ELSE IF importer.skipped \cup skipped = {} THEN "imported" ELSE "changed"
    BY DEF NextCheckpoint, ImportInv, ImportType
  <1>3. CheckpointKnown'
    BY <1>2 DEF CheckpointKnown
  <1>4. CheckpointsDealt'
    BY <1>1, <1>2 DEF CheckpointsDealt
  <1> QED BY <1>3, <1>4

\* What is found out about a checkpoint stays true while only its step changes.
LEMMA ImportStepNext == ImportInv /\ MigrationStep => ImportInv'
  <1> SUFFICES ASSUME ImportInv, MigrationStep PROVE ImportInv'
    OBVIOUS
  <1> USE DEF Disk
  <1>1. /\ ImportType /\ CheckpointKnown /\ CheckpointsDealt
        /\ \A key \in EvidenceKeys : RecordStands(key)
    BY DEF ImportInv
  <1>2. /\ DOMAIN archive = 1..Len(archive) /\ Len(archive) \in Nat \ {0}
        /\ importer.next \in 1..Len(archive)
        /\ Checkpoint = archive[importer.next]
        /\ Checkpoint.package \in MigratedPackages /\ Checkpoint.outcome \in Outcomes
        /\ Hashed \in Contents => EvidenceKey \in EvidenceKeys
    BY <1>1, CheckpointAtHand DEF Checkpoint
  <1>3. ASSUME Skip, UNCHANGED Disk,
               importer.step \in {"hash", "approve", "paths", "report", "load", "record"}
        PROVE  ImportInv'
    <2>1. importer'.skipped = importer.skipped \cup {Checkpoint.package}
      BY <1>1, <1>3 DEF Skip, NextCheckpoint, ImportType
    <2>2. ImportType'
      BY <1>1, <1>2, <1>3, NextCheckpointType DEF Skip, ImportType
    <2>3. \A n \in DOMAIN archive : n < importer.next \/ n = importer.next => Dealt(n)'
      BY <1>1, <1>2, <1>3, <2>1 DEF CheckpointsDealt, Dealt
    <2>4. CheckpointKnown' /\ CheckpointsDealt'
      BY <1>2, <1>3, <2>2, <2>3, NextCheckpointDeals DEF Skip
    <2> QED BY <1>1, <1>3, <2>2, <2>4 DEF ImportInv, RecordStands, Approves
  <1>4. ASSUME NEW step \in {"failed", "hash", "load", "report", "paths"}, Goto(step),
               UNCHANGED <<archive, ledger, sources, imported>>, published' \in [EvidenceKeys -> Outcomes \cup {Absent}],
               importer.step \notin {"imported", "changed"}
        PROVE  /\ ImportType' /\ CheckpointsDealt'
               /\ importer' = [importer EXCEPT !.step = step] /\ importer'.step = step
               /\ Checkpoint' = Checkpoint /\ Hashed' = Hashed /\ EvidenceKey' = EvidenceKey
    <2>1. importer' = [importer EXCEPT !.step = step] /\ importer'.step = step
      BY <1>1, <1>4 DEF Goto, ImportType
    <2>2. ImportType'
      BY <1>1, <1>4, <2>1 DEF ImportType, ImportSteps
    <2>3. CheckpointsDealt'
      BY <1>1, <1>4, <2>1 DEF ImportType, CheckpointsDealt, Dealt
    <2> QED BY <1>1, <1>4, <2>1, <2>2, <2>3 DEF ImportType, Checkpoint, Hashed, EvidenceKey
  <1>5. ASSUME UNCHANGED <<archive, ledger, published, imported>>
        PROVE  \A key \in EvidenceKeys : RecordStands(key)'
    BY <1>1, <1>5 DEF RecordStands, Approves
  <1>6. ASSUME Abort, UNCHANGED Disk, importer.step \notin {"imported", "changed"} PROVE ImportInv'
    BY <1>1, <1>4, <1>5, <1>6 DEF Abort, ImportInv, ImportType, CheckpointKnown
  <1>7. CASE Import
    BY <1>1, <1>4, <1>5, <1>7 DEF Import, ImportInv, ImportType, CheckpointKnown
  <1>8. CASE Hash
    <2>1. CASE Skip
      BY <1>3, <1>8, <2>1 DEF Hash
    <2>2. CASE importer' = [importer EXCEPT !.step = "approve", !.content = sources[Checkpoint.package]]
      <3>1. sources[Checkpoint.package] \in Contents
        BY <1>1, <1>2 DEF ImportType
      <3>2. ImportType'
        BY <1>1, <1>8, <2>2, <3>1 DEF Hash, ImportType, ImportSteps
      <3>3. CheckpointKnown' /\ CheckpointsDealt'
        BY <1>1, <1>8, <2>2, <3>1 DEF Hash, ImportType, CheckpointKnown, CheckpointsDealt, Dealt, Hashed
      <3> QED BY <1>5, <1>8, <3>2, <3>3 DEF Hash, ImportInv
    <2> QED BY <1>8, <2>1, <2>2 DEF Hash
  <1>9. CASE Approve
    <2>1. CASE Skip
      BY <1>3, <1>9, <2>1 DEF Approve
    <2>2. CASE Abort
      BY <1>6, <1>9, <2>2 DEF Approve
    <2>3. CASE /\ \E input \in Candidates(Hashed) : InputApproved(Checkpoint, input)
               /\ Goto(IF ledger.verifier = "current" THEN "report" ELSE "paths")
      <3>1. PICK input : input.content = Hashed /\ InputApproved(Checkpoint, input)
        BY <2>3 DEF Candidates, Identity
      <3>2. \A S : Cardinality(S) = 1 => S # {}
        BY FS_EmptySet
      <3>3. Approves(Checkpoint, Hashed)
        BY <3>1, <3>2 DEF InputApproved, Approves
      <3>4. Approves(Checkpoint, Hashed)'
        <4>1. Checkpoint' = Checkpoint /\ Hashed' = Hashed /\ ledger' = ledger
          BY <1>1, <1>4, <1>9, <2>3 DEF Approve, ImportType
        <4> QED BY <3>3, <4>1 DEF Approves
      <3> QED BY <1>1, <1>4, <1>5, <1>9, <2>3, <3>4 DEF Approve, ImportInv, ImportType, CheckpointKnown
    <2> QED BY <1>9, <2>1, <2>2, <2>3 DEF Approve
  <1>10. CASE ComparePaths
    <2>1. CASE Skip
      BY <1>3, <1>10, <2>1 DEF ComparePaths
    <2>2. CASE Hashed \in SamePaths /\ Goto("report")
      BY <1>1, <1>4, <1>5, <1>10, <2>2 DEF ComparePaths, ImportInv, ImportType, CheckpointKnown, Approves
    <2> QED BY <1>10, <2>1, <2>2 DEF ComparePaths
  <1>11. CASE StoreCheckpoint
    <2>1. CASE Abort /\ UNCHANGED published
      BY <1>6, <1>11, <2>1 DEF StoreCheckpoint
    <2>2. CASE /\ published[EvidenceKey] \in {Absent, Checkpoint.outcome} /\ Goto("load")
               /\ published' = [published EXCEPT ![EvidenceKey] = Checkpoint.outcome]
      <3>1. EvidenceKey \in EvidenceKeys /\ Approves(Checkpoint, Hashed)
        BY <1>1, <1>2, <1>11 DEF StoreCheckpoint, CheckpointKnown
      <3>2. published' \in [EvidenceKeys -> Outcomes \cup {Absent}] /\ published'[EvidenceKey] = Checkpoint.outcome
        BY <1>1, <1>2, <2>2, <3>1 DEF ImportType
      <3>3. \A key \in EvidenceKeys : published[key] # Absent => published'[key] = published[key]
        BY <1>1, <2>2, <3>1 DEF ImportType
      <3>4. \A key \in EvidenceKeys : RecordStands(key)'
        <4>1. \A key \in EvidenceKeys : imported[key] # Absent => imported[key].report.outcome # Absent
          BY <1>1, MigrationAssumption DEF ImportType, EvidenceRecords
        <4> QED BY <1>1, <1>11, <3>3, <4>1 DEF StoreCheckpoint, RecordStands, Approves
      <3>5. CheckpointKnown'
        BY <1>1, <1>4, <1>11, <2>2, <3>1, <3>2 DEF StoreCheckpoint, CheckpointKnown, Approves
      <3> QED BY <1>4, <1>11, <2>2, <3>2, <3>4, <3>5 DEF StoreCheckpoint, ImportInv
    <2> QED BY <1>11, <2>1, <2>2 DEF StoreCheckpoint
  <1>12. CASE LoadExisting
    <2>1. imported[EvidenceKey] \in EvidenceRecords \cup {Absent}
      BY <1>1, <1>2, <1>12 DEF LoadExisting, CheckpointKnown, ImportType
    <2>2. ImportType'
      BY <1>1, <1>12, <2>1 DEF LoadExisting, ImportType, ImportSteps
    <2>3. CheckpointKnown'
      BY <1>1, <1>12 DEF LoadExisting, ImportType, CheckpointKnown, Checkpoint, Hashed, EvidenceKey, Approves
    <2>4. CheckpointsDealt'
      BY <1>1, <1>12 DEF LoadExisting, ImportType, CheckpointsDealt, Dealt
    <2> QED BY <1>5, <1>12, <2>2, <2>3, <2>4 DEF LoadExisting, ImportInv
  <1>13. CASE StoreImported
    <2>1. CASE Abort /\ UNCHANGED imported
      BY <1>6, <1>13, <2>1 DEF StoreImported
    <2>2. CASE /\ imported[EvidenceKey] \in {Absent, ImportedRecord} /\ NextCheckpoint({})
               /\ imported' = [imported EXCEPT ![EvidenceKey] = ImportedRecord]
      <3>1. /\ EvidenceKey \in EvidenceKeys /\ Approves(Checkpoint, Hashed)
            /\ EvidenceKey.package = Checkpoint.package /\ EvidenceKey.content = Hashed
            /\ ledger.verifier = "historical" => Hashed \in SamePaths
            /\ published[EvidenceKey] = Checkpoint.outcome
        BY <1>1, <1>2, <1>13 DEF StoreImported, CheckpointKnown, EvidenceKey
      <3>2. /\ ImportedRecord \in EvidenceRecords /\ ImportedRecord # Absent
            /\ ImportedRecord.origin = "imported" /\ ImportedRecord.report.outcome = Checkpoint.outcome
            /\ ImportedRecord.verifier = ledger.verifier
        BY <1>1, <1>2, MigrationAssumption DEF ImportType, ImportedRecord, EvidenceRecords, Digested, Forms
      <3>3. imported' \in [EvidenceKeys -> EvidenceRecords \cup {Absent}] /\ imported'[EvidenceKey] = ImportedRecord
        BY <1>1, <2>2, <3>1, <3>2 DEF ImportType
      <3>4. \A key \in EvidenceKeys : imported[key] # Absent => imported'[key] = imported[key]
        BY <1>1, <2>2, <3>1 DEF ImportType
      <3>5. ImportType'
        BY <1>1, <1>13, <2>2, <3>3, NextCheckpointType DEF StoreImported, ImportType
      <3>6. importer'.skipped = importer.skipped
        BY <1>1, <2>2 DEF NextCheckpoint, ImportType
      <3>7. \A n \in DOMAIN archive : n < importer.next \/ n = importer.next => Dealt(n)'
        BY <1>1, <1>2, <1>13, <3>1, <3>2, <3>3, <3>4, <3>6 DEF StoreImported, CheckpointsDealt, Dealt
      <3>8. CheckpointKnown' /\ CheckpointsDealt'
        BY <1>13, <2>2, <3>5, <3>7, NextCheckpointDeals DEF StoreImported
      <3>9. ASSUME NEW key \in EvidenceKeys PROVE RecordStands(key)'
        <4>1. CASE key = EvidenceKey
          <5>1. /\ importer.next \in DOMAIN archive /\ archive[importer.next].package = key.package
                /\ archive[importer.next].outcome = published[key]
                /\ Approves(archive[importer.next], key.content)
            BY <1>2, <3>1, <4>1
          <5> QED BY <1>13, <3>1, <3>2, <3>3, <4>1, <5>1 DEF StoreImported, RecordStands, Approves
        <4>2. CASE key # EvidenceKey
          BY <1>1, <1>13, <2>2, <4>2 DEF StoreImported, ImportType, RecordStands, Approves
        <4> QED BY <4>1, <4>2
      <3> QED BY <3>5, <3>8, <3>9 DEF ImportInv
    <2> QED BY <1>13, <2>1, <2>2 DEF StoreImported
  <1>14. CASE ImportFails
    BY <1>6, <1>14 DEF ImportFails
  <1> QED BY <1>7, <1>8, <1>9, <1>10, <1>11, <1>12, <1>13, <1>14 DEF MigrationStep

\* Edits and campaigns take nothing back that the import relies on.
LEMMA MeanwhileNext == ImportInv /\ Meanwhile => ImportInv'
  <1> SUFFICES ASSUME ImportInv, Meanwhile PROVE ImportInv'
    OBVIOUS
  <1>1. /\ ImportType /\ CheckpointKnown /\ CheckpointsDealt
        /\ \A key \in EvidenceKeys : RecordStands(key)
        /\ \A key \in EvidenceKeys : imported[key] # Absent => published[key] # Absent
    <2>1. \A key \in EvidenceKeys : imported[key] # Absent => imported[key].report.outcome # Absent
      BY MigrationAssumption DEF ImportInv, ImportType, EvidenceRecords
    <2> QED BY <2>1 DEF ImportInv, RecordStands
  <1>2. CASE EditPackage
    <2>1. sources' \in [MigratedPackages -> Contents]
      BY <1>1, <1>2 DEF EditPackage, ImportType
    <2> QED BY <1>1, <1>2, <2>1
            DEF EditPackage, ImportInv, ImportType, CheckpointKnown, CheckpointsDealt, Dealt,
                RecordStands, Approves, Checkpoint, Hashed, EvidenceKey
  <1>3. ASSUME NEW key \in EvidenceKeys, CampaignReport(key) PROVE ImportInv'
    <2>1. PICK outcome \in Outcomes : published' = [published EXCEPT ![key] = outcome]
      BY <1>3 DEF CampaignReport
    <2>2. \A k \in EvidenceKeys : published[k] # Absent => published'[k] = published[k]
      BY <1>1, <1>3, <2>1 DEF CampaignReport, ImportType
    <2>3. ImportType'
      BY <1>1, <1>3, <2>1 DEF CampaignReport, ImportType
    <2>4. \A k \in EvidenceKeys : RecordStands(k)'
      BY <1>1, <1>3, <2>2 DEF CampaignReport, RecordStands, Approves
    <2>5. CheckpointKnown'
      <3>1. importer.step \in {"load", "record"} => EvidenceKey \in EvidenceKeys /\ published[EvidenceKey] # Absent
        BY <1>1, CheckpointAtHand, MigrationAssumption DEF CheckpointKnown
      <3> QED BY <1>1, <1>3, <2>2, <3>1
              DEF CampaignReport, CheckpointKnown, Approves, Checkpoint, Hashed, EvidenceKey
    <2> QED BY <1>1, <1>3, <2>3, <2>4, <2>5 DEF CampaignReport, ImportInv, CheckpointsDealt, Dealt
  <1>4. ASSUME NEW key \in EvidenceKeys, CampaignRecord(key) PROVE ImportInv'
    <2> DEFINE record == [report |-> Digested(published[key], "canonical"), origin |-> "executed",
                          verifier |-> "current"]
    <2>1. /\ imported' = [imported EXCEPT ![key] = record] /\ imported[key] = Absent
          /\ published[key] \in Outcomes
      BY <1>1, <1>4 DEF CampaignRecord, ImportType
    <2>2. /\ record \in EvidenceRecords /\ record.origin = "executed"
          /\ record.report.outcome = published[key]
      BY <2>1 DEF EvidenceRecords, Digested, Forms
    <2> HIDE DEF record
    <2>3. /\ imported' \in [EvidenceKeys -> EvidenceRecords \cup {Absent}] /\ imported'[key] = record
          /\ \A k \in EvidenceKeys : k # key => imported'[k] = imported[k]
      BY <1>1, <2>1, <2>2 DEF ImportType
    <2>4. \A k \in EvidenceKeys : RecordStands(k)'
      BY <1>1, <1>4, <2>2, <2>3 DEF CampaignRecord, RecordStands, Approves
    <2>5. CheckpointsDealt'
      BY <1>1, <1>4, <2>1, <2>3 DEF CampaignRecord, CheckpointsDealt, Dealt
    <2>6. ImportType' /\ CheckpointKnown'
      BY <1>1, <1>4, <2>3
         DEF CampaignRecord, ImportType, CheckpointKnown, Approves, Checkpoint, Hashed, EvidenceKey
    <2> QED BY <2>4, <2>5, <2>6 DEF ImportInv
  <1> QED BY <1>2, <1>3, <1>4 DEF Meanwhile

\* An import that is entered again starts with the first checkpoint.
LEMMA ImportNext == ImportInv /\ (MigrationNext \/ UNCHANGED importVars) => ImportInv'
  <1>1. ASSUME ImportInv, ImportAgain PROVE ImportInv'
    <2>1. DOMAIN archive = 1..Len(archive) /\ Len(archive) \in Nat \ {0}
      BY <1>1, CheckpointAtHand DEF ImportInv
    <2>2. importer' = Idle /\ UNCHANGED Disk
      BY <1>1 DEF ImportAgain
    <2> QED BY <1>1, <2>1, <2>2
            DEF ImportInv, ImportType, ImportSteps, CheckpointKnown, CheckpointsDealt, RecordStands,
                Approves, Idle, Disk
  <1>2. ASSUME ImportInv, UNCHANGED importVars PROVE ImportInv'
    BY <1>2 DEF importVars, ImportInv, ImportType, CheckpointKnown, CheckpointsDealt, Dealt,
                RecordStands, Approves, Checkpoint, Hashed, EvidenceKey
  <1> QED BY <1>1, <1>2, ImportStepNext, MeanwhileNext DEF MigrationNext

\* The inductive invariant of the import holds in every process that imports.
LEMMA ImportHolds == CommandSpec => [](ProcessInv /\ (golib.command = "import" => ImportInv))
  <1>1. CommandInit => ProcessInv /\ (golib.command = "import" => ImportInv)
    BY ProcessInit, ImportStarts DEF CommandInit
  <1>2. /\ ProcessInv /\ (golib.command = "import" => ImportInv)
        /\ [CommandNext]_commandVars
        => ProcessInv' /\ (golib.command = "import" => ImportInv)'
    BY ProcessStep, ProcessNext, ImportNext DEF ProcessInv
  <1> QED BY <1>1, <1>2, PTL DEF CommandSpec

\* golib mutation import vouches for nothing that was not approved for the
\* content it is filed under, whoever edits or publishes meanwhile.
THEOREM ImportIsApproved == CommandSpec => []ImportVouchesForApproved
  <1>1. (golib.command = "import" => ImportInv) => ImportVouchesForApproved
    <2> SUFFICES ASSUME ImportInv PROVE ImportedIsApproved
      BY DEF ImportVouchesForApproved
    <2> QED BY DEF ImportInv, RecordStands, Approves, ImportedIsApproved
  <1> QED BY ImportHolds, <1>1, PTL

\* An import that comes to its end has dealt with every checkpoint, and exit 0
\* means that it skipped none.
THEOREM ImportAccountsForAll == CommandSpec => []ImportExitAccounts
  <1>1. ProcessInv /\ (golib.command = "import" => ImportInv) => ImportExitAccounts
    <2> SUFFICES ASSUME ProcessInv, golib.command = "import", ImportInv
                 PROVE  ImportAccounts /\ (golib.exit = "0" => importer.skipped = {})
      BY DEF ImportExitAccounts, Exits
    <2>1. ImportAccounts
      BY DEF ImportInv, CheckpointsDealt, Dealt, ImportAccounts
    <2>2. golib.exit = "0" => importer.step = "imported"
      BY DEF ProcessInv, Succeeded
    <2> QED BY <2>1, <2>2 DEF ImportInv, CheckpointsDealt
  <1> QED BY ImportHolds, <1>1, PTL

-----------------------------------------------------------------------------
(* golib workflows check. *)

Descriptors == WorkflowFiles \cup {Descriptor[r] : r \in References}
Frames == [name : WorkflowFiles \cup References, uses : Seq(References)]

\* What a tree's documents use and reach, as operators of the tree.
UsesIn(held, d) == {held[d].uses[i] : i \in 1..Len(held[d].uses)}
ReachedIn(held, from) ==
    {r \in References : \A set \in SUBSET References :
        /\ UNION {UsesIn(held, d) : d \in from} \subseteq set
        /\ \A q \in set : UsesIn(held, Descriptor[q]) \subseteq set
        => r \in set}
CyclicIn(held, r) == r \in ReachedIn(held, {Descriptor[r]})

InspectionType ==
    /\ documents \in Documents
    /\ inspection \in [stack : Seq(Frames), active : SUBSET References, complete : SUBSET References,
                       files : 0..MaximumDescriptors]
    /\ workflows \in [left : SUBSET WorkflowFiles, findings : SUBSET WorkflowFiles,
                      verdict : {"none", "accepted", "findings", "workflow", "action", "depth", "cycle"}]

\* The document that frame k of the stack reads, and the uses it has left.
Reads(k, frame) == IF k = 1 THEN frame.name ELSE Descriptor[frame.name]
Remaining(frame) == {frame.uses[i] : i \in 1..Len(frame.uses)}

\* The stack is one path through the uses: of every frame, what is no longer left
\* is complete or the next frame, and each frame is reachable from those below.
Path(stack, height, active, complete, held) ==
    /\ \A k \in 1..height :
          /\ stack[k].name \in (IF k = 1 THEN WorkflowFiles ELSE active)
          /\ Remaining(stack[k]) \subseteq UsesIn(held, Reads(k, stack[k]))
          /\ UsesIn(held, Reads(k, stack[k])) \subseteq
                complete \cup Remaining(stack[k]) \cup (IF k < height THEN {stack[k + 1].name} ELSE {})
    /\ \A r \in active : \E k \in 2..height : stack[k].name = r
    /\ \A j, k \in 2..height : j < k =>
          /\ stack[j].name # stack[k].name
          /\ stack[k].name \in ReachedIn(held, {Descriptor[stack[j].name]})
    /\ \A k \in 2..height : stack[k].name \in ReachedIn(held, WorkflowFiles)
StackInOrder == Path(inspection.stack, Depth, inspection.active, inspection.complete, documents)

\* A complete action was clean, its uses are complete and it does not use itself.
CompleteInOrder ==
    /\ inspection.active \cap inspection.complete = {}
    /\ \A r \in inspection.active \cup inspection.complete : documents[Descriptor[r]].state = "clean"
    /\ \A r \in inspection.complete : UsesIn(documents, Descriptor[r]) \subseteq inspection.complete /\ ~CyclicIn(documents, r)

\* A workflow already opened is clean or among the findings, and its uses are
\* complete unless it is being read.
WorkflowsInOrder ==
    \A file \in WorkflowFiles \ workflows.left :
        /\ documents[file].state = "clean" \/ file \in workflows.findings
        /\ UsesIn(documents, file) \subseteq inspection.complete \/ (Depth > 0 /\ inspection.stack[1].name = file)

VerdictInOrder ==
    /\ workflows.verdict = "accepted" => workflows.left = {} /\ workflows.findings = {} /\ Depth = 0
    /\ workflows.verdict = "cycle" => \E r \in ReachedIn(documents, WorkflowFiles) : CyclicIn(documents, r)

\* AcceptedIsInspected speaks of the end of the walk; while it is under way the
\* stack says what is still missing.
InspectionInv == InspectionType /\ StackInOrder /\ CompleteInOrder /\ WorkflowsInOrder /\ VerdictInOrder

\* The same as what LocalActions says of the tree being read.
LEMMA InspectedTree ==
  /\ \A d : Used(d) = UsesIn(documents, d)
  /\ \A from : Reachable(from) = ReachedIn(documents, from)
  /\ \A r : Cyclic(r) <=> CyclicIn(documents, r)
  <1>1. \A d : Used(d) = UsesIn(documents, d)
    BY DEF Used, UsesIn
  <1>2. \A from : Reachable(from) = ReachedIn(documents, from)
    BY <1>1 DEF Reachable, ReachedIn
  <1> QED BY <1>1, <1>2 DEF Cyclic, CyclicIn

\* The least set with the uses of the given documents that is closed.
LEMMA ReachedIsLeast ==
  ASSUME NEW held, NEW from
  PROVE  /\ \A d \in from, r \in References : r \in UsesIn(held, d) => r \in ReachedIn(held, from)
         /\ \A r \in ReachedIn(held, from), q \in References :
               q \in UsesIn(held, Descriptor[r]) => q \in ReachedIn(held, from)
         /\ \A set \in SUBSET References :
               /\ \A d \in from : UsesIn(held, d) \subseteq set
               /\ \A r \in set : UsesIn(held, Descriptor[r]) \subseteq set
               => ReachedIn(held, from) \subseteq set
  BY DEF ReachedIn

\* The documents of a tree are read by the names of workflows and references.
LEMMA DocumentsRead ==
  ASSUME documents \in Documents
  PROVE  \A d \in Descriptors :
            documents[d].state \in States /\ documents[d].uses \in Seq(References) /\ UsesIn(documents, d) \subseteq References
  <1>1. \A d \in Descriptors : documents[d].state \in States /\ documents[d].uses \in Seq(References)
    BY LocalActionsAssumption DEF Descriptors
  <1>2. ASSUME NEW d \in Descriptors PROVE UsesIn(documents, d) \subseteq References
    BY <1>1 DEF UsesIn
  <1> QED BY <1>1, <1>2

\* An action whose uses are complete before it is does not use itself.
LEMMA CompletedIsAcyclic ==
  ASSUME InspectionType, CompleteInOrder, NEW r \in References,
         r \notin inspection.complete, UsesIn(documents, Descriptor[r]) \subseteq inspection.complete
  PROVE  ~CyclicIn(documents, r)
  <1>1. ReachedIn(documents, {Descriptor[r]}) \subseteq inspection.complete
    BY ReachedIsLeast DEF InspectionType, CompleteInOrder
  <1> QED BY <1>1 DEF CyclicIn

\* The walk has opened nothing.
LEMMA InspectionStarts == LocalActionsInit => InspectionInv
  <1> SUFFICES ASSUME LocalActionsInit PROVE InspectionInv
    OBVIOUS
  <1>1. InspectionType
    BY LocalActionsAssumption DEF LocalActionsInit, InspectionType
  <1>2. Depth = 0
    BY DEF LocalActionsInit, Depth
  <1> QED BY <1>1, <1>2 DEF LocalActionsInit, InspectionInv, StackInOrder, Path, CompleteInOrder,
                            WorkflowsInOrder, VerdictInOrder

\* A refusal decides, and changes nothing that has been found out.
LEMMA InspectionRefuses ==
  ASSUME InspectionInv, NEW cause \in {"workflow", "action", "depth", "cycle"}, Refuse(cause), Deciding,
         cause = "cycle" => \E r \in ReachedIn(documents, WorkflowFiles) : CyclicIn(documents, r)
  PROVE  InspectionInv'
  <1>1. workflows' = [workflows EXCEPT !.verdict = cause] /\ UNCHANGED <<documents, inspection>>
    BY DEF Refuse
  <1>2. Depth' = Depth /\ \A k : Reads(k, inspection'.stack[k]) = Reads(k, inspection.stack[k]) /\ Remaining(inspection'.stack[k]) = Remaining(inspection.stack[k])
    BY <1>1 DEF Depth, Reads, Remaining
  <1>3. InspectionType'
    BY <1>1 DEF InspectionInv, InspectionType
  <1>4. StackInOrder'
    BY <1>1, <1>2 DEF InspectionInv, StackInOrder, Path
  <1>5. CompleteInOrder'
    BY <1>1 DEF InspectionInv, CompleteInOrder
  <1>6. WorkflowsInOrder'
    BY <1>1, <1>2 DEF InspectionInv, InspectionType, WorkflowsInOrder
  <1>7. VerdictInOrder'
    BY <1>1, <1>2 DEF InspectionInv, InspectionType, VerdictInOrder
  <1> QED BY <1>3, <1>4, <1>5, <1>6, <1>7 DEF InspectionInv

\* The types of what the top of the stack says.
LEMMA TopOfStack ==
  ASSUME InspectionInv, Depth > 0
  PROVE  /\ Depth \in Nat /\ Depth \in 1..Depth /\ Top = inspection.stack[Depth]
         /\ \A k \in 1..Depth :
               /\ inspection.stack[k] \in Frames /\ Remaining(inspection.stack[k]) \subseteq References
               /\ Reads(k, inspection.stack[k]) \in Descriptors
               /\ k > 1 => inspection.stack[k].name \in References
         /\ Top.uses # <<>> => Reference \in Remaining(inspection.stack[Depth]) /\ Reference \in References
  <1>1. Depth \in Nat /\ Depth \in 1..Depth /\ Top = inspection.stack[Depth]
    BY DEF InspectionInv, InspectionType, Depth, Top
  <1>2. ASSUME NEW k \in 1..Depth
        PROVE  /\ inspection.stack[k] \in Frames /\ Remaining(inspection.stack[k]) \subseteq References
               /\ Reads(k, inspection.stack[k]) \in Descriptors /\ (k > 1 => inspection.stack[k].name \in References)
    <2>1. inspection.stack[k] \in Frames
      BY DEF InspectionInv, InspectionType, Depth
    <2>2. inspection.stack[k].name \in (IF k = 1 THEN WorkflowFiles ELSE References)
      BY DEF InspectionInv, InspectionType, StackInOrder, Path
    <2> QED BY <2>1, <2>2 DEF Frames, Remaining, Reads, Descriptors
  <1>3. Top.uses # <<>> => Reference \in Remaining(inspection.stack[Depth])
    <2>1. Top.uses \in Seq(References)
      BY <1>1, <1>2 DEF Frames
    <2> QED BY <1>1, <2>1 DEF Reference, Remaining
  <1> QED BY <1>1, <1>2, <1>3

\* A workflow is opened while nothing else is: the stack is its frame.
LEMMA InspectionOpens == InspectionInv /\ OpenWorkflow => InspectionInv'
  <1> SUFFICES ASSUME InspectionInv, OpenWorkflow PROVE InspectionInv'
    OBVIOUS
  <1>1. PICK file \in workflows.left :
          IF \/ inspection.files + 1 > MaximumDescriptors
             \/ documents[file].state \in {"missing", "invalid"}
          THEN Refuse("workflow")
          ELSE /\ workflows' = [workflows EXCEPT
                      !.left = @ \ {file},
                      !.findings = IF documents[file].state = "flawed" THEN @ \cup {file} ELSE @]
               /\ inspection' = [inspection EXCEPT !.files = @ + 1, !.stack = <<Frame(file, file)>>]
               /\ UNCHANGED documents
    BY DEF OpenWorkflow
  <1>2. CASE Refuse("workflow")
    BY <1>2, InspectionRefuses DEF OpenWorkflow
  <1>3. ASSUME ~Refuse("workflow") PROVE InspectionInv'
    <2>1. /\ file \in WorkflowFiles /\ file \in Descriptors
          /\ documents[file].uses \in Seq(References)
          /\ documents[file].state \in {"clean", "flawed"}
      BY <1>1, <1>3, DocumentsRead DEF InspectionInv, InspectionType, Descriptors, States
    <2>2. Frame(file, file) \in Frames
      BY <2>1 DEF Frame, Frames
    <2>3. /\ inspection' = [inspection EXCEPT !.files = inspection.files + 1, !.stack = <<Frame(file, file)>>]
          /\ documents' = documents
          /\ workflows' = [workflows EXCEPT
                      !.left = @ \ {file},
                      !.findings = IF documents[file].state = "flawed" THEN @ \cup {file} ELSE @]
      BY <1>1, <1>3
    <2>4. InspectionType'
      <3>1. inspection.files + 1 \in 0..MaximumDescriptors
        BY <1>1, <1>3, LocalActionsAssumption DEF InspectionInv, InspectionType
      <3>2. <<Frame(file, file)>> \in Seq(Frames)
        BY <2>2
      <3> QED BY <2>1, <2>3, <3>1, <3>2 DEF InspectionInv, InspectionType
    <2>5. /\ Depth' = 1 /\ Depth = 0 /\ inspection'.stack[1] = Frame(file, file)
          /\ inspection'.active = inspection.active /\ inspection'.complete = inspection.complete
          /\ workflows.verdict = "none"
      BY <2>2, <2>3 DEF OpenWorkflow, Deciding, Depth, InspectionInv, InspectionType
    <2>6. inspection.active = {}
      BY <2>5 DEF InspectionInv, StackInOrder, Path
    <2>7. Remaining(inspection'.stack[1]) = UsesIn(documents, file) /\ Reads(1, inspection'.stack[1]) = file
      BY <2>5 DEF Remaining, Reads, UsesIn, Frame
    <2>8. StackInOrder'
      <3>1. inspection'.stack[1].name = file
        BY <2>5 DEF Frame
      <3> QED BY <2>1, <2>3, <2>5, <2>6, <2>7, <3>1 DEF StackInOrder, Path
    <2>9. CompleteInOrder'
      BY <2>3, <2>5 DEF InspectionInv, CompleteInOrder
    <2>10. WorkflowsInOrder'
      BY <2>1, <2>3, <2>5 DEF InspectionInv, InspectionType, WorkflowsInOrder, Frame
    <2>11. VerdictInOrder'
      BY <2>3, <2>5 DEF InspectionInv, InspectionType, VerdictInOrder
    <2> QED BY <2>4, <2>8, <2>9, <2>10, <2>11 DEF InspectionInv
  <1> QED BY <1>2, <1>3

\* A document with uses left begins with one, and the tail has the others.
LEMMA UsesLeft ==
  ASSUME NEW uses \in Seq(References), uses # <<>>
  PROVE  /\ Head(uses) \in References /\ Tail(uses) \in Seq(References)
         /\ {uses[i] : i \in 1..Len(uses)}
              = {Head(uses)} \cup {Tail(uses)[i] : i \in 1..Len(Tail(uses))}
  <1>1. /\ Len(uses) \in Nat /\ Len(uses) >= 1 /\ Head(uses) = uses[1]
        /\ Tail(uses) \in Seq(References) /\ Len(Tail(uses)) = Len(uses) - 1
        /\ \A i \in 1..Len(uses) - 1 : Tail(uses)[i] = uses[i + 1]
    OBVIOUS
  <1>2. \A i \in 1..Len(uses) : i = 1 \/ (i - 1 \in 1..Len(uses) - 1 /\ uses[i] = Tail(uses)[i - 1])
    BY <1>1
  <1>3. \A i \in 1..Len(Tail(uses)) : Tail(uses)[i] \in {uses[k] : k \in 1..Len(uses)}
    <2> TAKE i \in 1..Len(Tail(uses))
    <2>1. i + 1 \in 1..Len(uses) /\ Tail(uses)[i] = uses[i + 1]
      BY <1>1
    <2> QED BY <2>1
  <1>4. \A i \in 1..Len(uses) : uses[i] \in {Head(uses)} \cup {Tail(uses)[k] : k \in 1..Len(Tail(uses))}
    <2> TAKE i \in 1..Len(uses)
    <2>1. CASE i = 1
      BY <1>1, <2>1
    <2>2. CASE i # 1
      <3>1. i - 1 \in 1..Len(Tail(uses)) /\ uses[i] = Tail(uses)[i - 1]
        BY <1>1, <1>2, <2>2
      <3> QED BY <3>1
    <2> QED BY <2>1, <2>2
  <1>5. Head(uses) \in References /\ Head(uses) \in {uses[i] : i \in 1..Len(uses)}
    BY <1>1
  <1> QED BY <1>1, <1>3, <1>4, <1>5

\* Taking the next use off the top of the stack disturbs nothing else.
LEMMA ConsumedReference ==
  ASSUME InspectionInv, Referring
  PROVE  /\ Reference \in References /\ Reference \in UsesIn(documents, Reads(Depth, inspection.stack[Depth]))
         /\ Consumed.stack \in Seq(Frames) /\ Len(Consumed.stack) = Depth
         /\ \A k \in 1..Depth : Consumed.stack[k].name = inspection.stack[k].name
         /\ \A k \in 1..Depth - 1 : Consumed.stack[k] = inspection.stack[k]
         /\ {Consumed.stack[Depth].uses[i] : i \in 1..Len(Consumed.stack[Depth].uses)} \cup {Reference}
              = Remaining(inspection.stack[Depth])
         /\ Consumed = [inspection EXCEPT !.stack = Consumed.stack]
  <1>1. /\ Depth \in Nat /\ Depth \in 1..Depth /\ Top = inspection.stack[Depth]
        /\ Top \in Frames /\ Reference \in Remaining(inspection.stack[Depth]) /\ Reference \in References
    BY TopOfStack DEF Referring
  <1>2. Top.uses \in Seq(References) /\ Top.uses # <<>>
    BY <1>1 DEF Frames, Referring
  <1>3. Consumed = [inspection EXCEPT !.stack = [inspection.stack EXCEPT ![Depth] = [Top EXCEPT !.uses = Tail(Top.uses)]]]
    BY <1>1 DEF Consumed
  <1>4. [Top EXCEPT !.uses = Tail(Top.uses)] \in Frames
    BY <1>1, <1>2, UsesLeft DEF Frames
  <1>5. inspection.stack \in Seq(Frames) /\ Len(inspection.stack) = Depth
    BY DEF InspectionInv, InspectionType, Depth
  <1>6. Consumed.stack = [inspection.stack EXCEPT ![Depth] = [Top EXCEPT !.uses = Tail(Top.uses)]]
    BY <1>3 DEF InspectionInv, InspectionType
  <1>7. /\ Consumed.stack \in Seq(Frames) /\ Len(Consumed.stack) = Depth
        /\ Consumed.stack[Depth] = [Top EXCEPT !.uses = Tail(Top.uses)]
        /\ \A k \in 1..Depth - 1 : Consumed.stack[k] = inspection.stack[k]
    BY <1>1, <1>4, <1>5, <1>6
  <1>8. Consumed.stack[Depth].uses = Tail(Top.uses) /\ Consumed.stack[Depth].name = Top.name
    BY <1>1, <1>7 DEF Frames
  <1>9. ASSUME NEW k \in 1..Depth PROVE Consumed.stack[k].name = inspection.stack[k].name
    <2>1. CASE k = Depth
      BY <1>1, <1>8, <2>1
    <2>2. CASE k # Depth
      <3>1. k \in 1..Depth - 1
        BY <1>1, <2>2
      <3> QED BY <1>7, <3>1
    <2> QED BY <2>1, <2>2
  <1>10. {Consumed.stack[Depth].uses[i] : i \in 1..Len(Consumed.stack[Depth].uses)} \cup {Reference}
           = Remaining(inspection.stack[Depth])
    BY <1>1, <1>2, <1>8, UsesLeft DEF Remaining, Reference
  <1>11. Reference \in UsesIn(documents, Reads(Depth, inspection.stack[Depth]))
    BY <1>1 DEF InspectionInv, StackInOrder, Path
  <1> QED BY <1>1, <1>3, <1>6, <1>7, <1>9, <1>10, <1>11

\* The next use is reachable from the workflows and from every open action.
LEMMA ReferenceIsReached ==
  ASSUME InspectionInv, Referring
  PROVE  /\ Reference \in ReachedIn(documents, WorkflowFiles)
         /\ \A j \in 2..Depth : Reference \in ReachedIn(documents, {Descriptor[inspection.stack[j].name]})
  <1>1. Reference \in References /\ Reference \in UsesIn(documents, Reads(Depth, inspection.stack[Depth]))
    BY ConsumedReference
  <1>2. Depth \in Nat /\ Depth \in 1..Depth
    BY TopOfStack DEF Referring
  <1>3. CASE Depth = 1
    <2>1. Reads(Depth, inspection.stack[Depth]) \in WorkflowFiles
      BY <1>2, <1>3 DEF InspectionInv, StackInOrder, Path, Reads
    <2> QED BY <1>1, <1>3, <2>1, ReachedIsLeast
  <1>4. CASE Depth # 1
    <2>1. Depth \in 2..Depth /\ Reads(Depth, inspection.stack[Depth]) = Descriptor[inspection.stack[Depth].name]
      BY <1>2, <1>4 DEF Reads
    <2>2. inspection.stack[Depth].name \in ReachedIn(documents, WorkflowFiles)
      BY <2>1 DEF InspectionInv, StackInOrder, Path
    <2>3. Reference \in ReachedIn(documents, WorkflowFiles)
      BY <1>1, <2>1, <2>2, ReachedIsLeast
    <2>4. ASSUME NEW j \in 2..Depth
          PROVE  Reference \in ReachedIn(documents, {Descriptor[inspection.stack[j].name]})
      <3>1. CASE j = Depth
        BY <1>1, <2>1, <3>1, ReachedIsLeast
      <3>2. CASE j # Depth
        <4>1. inspection.stack[Depth].name \in ReachedIn(documents, {Descriptor[inspection.stack[j].name]})
          BY <2>1, <3>2 DEF InspectionInv, StackInOrder, Path
        <4> QED BY <1>1, <2>1, <4>1, ReachedIsLeast
      <3> QED BY <3>1, <3>2
    <2> QED BY <2>3, <2>4
  <1> QED BY <1>3, <1>4

\* A reference that is already open closes a cycle that the workflows reach.
LEMMA InspectionFindsCycle == InspectionInv /\ Cycle => InspectionInv'
  <1> SUFFICES ASSUME InspectionInv, Cycle PROVE InspectionInv'
    OBVIOUS
  <1>1. Referring /\ Reference \in inspection.active /\ Refuse("cycle") /\ Deciding
    BY DEF Cycle, Referring
  <1>2. PICK j \in 2..Depth : inspection.stack[j].name = Reference
    BY <1>1 DEF InspectionInv, StackInOrder, Path
  <1>3. Reference \in ReachedIn(documents, WorkflowFiles) /\ CyclicIn(documents, Reference)
    BY <1>1, <1>2, ReferenceIsReached DEF CyclicIn
  <1> QED BY <1>1, <1>3, InspectionRefuses

\* A complete action is not read again.
LEMMA InspectionSkips == InspectionInv /\ SkipComplete => InspectionInv'
  <1> SUFFICES ASSUME InspectionInv, SkipComplete PROVE InspectionInv'
    OBVIOUS
  <1>1. /\ Referring /\ Reference \in inspection.complete /\ inspection' = Consumed
        /\ UNCHANGED <<documents, workflows>> /\ workflows.verdict = "none"
    BY DEF SkipComplete, Referring, Deciding
  <1>2. /\ inspection' = [inspection EXCEPT !.stack = inspection'.stack]
        /\ inspection'.stack \in Seq(Frames) /\ Depth' = Depth /\ Depth \in Nat /\ Depth \in 1..Depth
        /\ \A k \in 1..Depth : inspection'.stack[k].name = inspection.stack[k].name
        /\ \A k \in 1..Depth - 1 : Remaining(inspection'.stack[k]) = Remaining(inspection.stack[k])
        /\ Remaining(inspection'.stack[Depth]) \cup {Reference} = Remaining(inspection.stack[Depth])
    <2>1. /\ inspection' = [inspection EXCEPT !.stack = inspection'.stack]
          /\ inspection'.stack \in Seq(Frames) /\ Len(inspection'.stack) = Depth
          /\ \A k \in 1..Depth : inspection'.stack[k].name = inspection.stack[k].name
          /\ \A k \in 1..Depth - 1 : inspection'.stack[k] = inspection.stack[k]
          /\ {inspection'.stack[Depth].uses[i] : i \in 1..Len(inspection'.stack[Depth].uses)} \cup {Reference}
               = Remaining(inspection.stack[Depth])
      BY <1>1, ConsumedReference
    <2>2. Depth' = Depth /\ Depth \in Nat /\ Depth \in 1..Depth
      BY <1>1, <2>1, TopOfStack DEF Depth, Referring
    <2>3. Remaining(inspection'.stack[Depth]) \cup {Reference} = Remaining(inspection.stack[Depth])
      BY <2>1 DEF Remaining
    <2>4. \A k \in 1..Depth - 1 : Remaining(inspection'.stack[k]) = Remaining(inspection.stack[k])
      BY <2>1
    <2> QED BY <2>1, <2>2, <2>3, <2>4
  <1>3. /\ inspection'.active = inspection.active /\ inspection'.complete = inspection.complete
        /\ inspection'.files = inspection.files
    BY <1>2 DEF InspectionInv, InspectionType
  <1>4. InspectionType'
    BY <1>1, <1>2 DEF InspectionInv, InspectionType
  <1>5. \A k \in 1..Depth : Reads(k, inspection'.stack[k]) = Reads(k, inspection.stack[k])
    BY <1>1, <1>2 DEF Reads
  <1>6. \A k \in 1..Depth : /\ Remaining(inspection'.stack[k]) \subseteq Remaining(inspection.stack[k])
                            /\ Remaining(inspection.stack[k]) \subseteq inspection.complete \cup Remaining(inspection'.stack[k])
    <2> TAKE k \in 1..Depth
    <2>1. CASE k = Depth
      BY <1>1, <1>2, <2>1
    <2>2. CASE k # Depth
      <3>1. k \in 1..Depth - 1
        BY <1>2, <2>2
      <3> QED BY <1>2, <3>1
    <2> QED BY <2>1, <2>2
  <1>7. StackInOrder'
    <2>1. ASSUME NEW k \in 1..Depth
          PROVE  /\ inspection'.stack[k].name \in (IF k = 1 THEN WorkflowFiles ELSE inspection'.active)
                 /\ Remaining(inspection'.stack[k]) \subseteq UsesIn(documents, Reads(k, inspection'.stack[k]))
                 /\ UsesIn(documents, Reads(k, inspection'.stack[k])) \subseteq inspection'.complete \cup Remaining(inspection'.stack[k])
                       \cup (IF k < Depth THEN {inspection'.stack[k + 1].name} ELSE {})
      <3>1. k < Depth => k + 1 \in 1..Depth
        BY <1>2
      <3>2. /\ inspection.stack[k].name \in (IF k = 1 THEN WorkflowFiles ELSE inspection.active)
            /\ Remaining(inspection.stack[k]) \subseteq UsesIn(documents, Reads(k, inspection.stack[k]))
            /\ UsesIn(documents, Reads(k, inspection.stack[k])) \subseteq inspection.complete \cup Remaining(inspection.stack[k])
                  \cup (IF k < Depth THEN {inspection.stack[k + 1].name} ELSE {})
        BY DEF InspectionInv, StackInOrder, Path
      <3> QED BY <1>2, <1>3, <1>5, <1>6, <3>1, <3>2
    <2>2. /\ \A r \in inspection'.active : \E k \in 2..Depth : inspection'.stack[k].name = r
          /\ \A j, k \in 2..Depth : j < k =>
                /\ inspection'.stack[j].name # inspection'.stack[k].name
                /\ inspection'.stack[k].name \in ReachedIn(documents, {Descriptor[inspection'.stack[j].name]})
          /\ \A k \in 2..Depth : inspection'.stack[k].name \in ReachedIn(documents, WorkflowFiles)
      <3>1. \A k \in 2..Depth : inspection'.stack[k].name = inspection.stack[k].name
        BY <1>2
      <3>2. /\ \A r \in inspection.active : \E k \in 2..Depth : inspection.stack[k].name = r
            /\ \A j, k \in 2..Depth : j < k =>
                  /\ inspection.stack[j].name # inspection.stack[k].name
                  /\ inspection.stack[k].name \in ReachedIn(documents, {Descriptor[inspection.stack[j].name]})
            /\ \A k \in 2..Depth : inspection.stack[k].name \in ReachedIn(documents, WorkflowFiles)
        BY DEF InspectionInv, StackInOrder, Path
      <3>3. ASSUME NEW j \in 2..Depth, NEW k \in 2..Depth, j < k
            PROVE  /\ inspection'.stack[j].name # inspection'.stack[k].name
                   /\ inspection'.stack[k].name \in ReachedIn(documents, {Descriptor[inspection'.stack[j].name]})
        <4>1. inspection'.stack[j].name = inspection.stack[j].name /\ inspection'.stack[k].name = inspection.stack[k].name
          BY <3>1
        <4> QED BY <3>2, <3>3, <4>1
      <3> QED BY <1>3, <3>1, <3>2, <3>3
    <2>3. Depth' = Depth /\ documents' = documents
      BY <1>1, <1>2
    <2> QED BY <2>1, <2>2, <2>3 DEF StackInOrder, Path
  <1>8. CompleteInOrder'
    BY <1>1, <1>3 DEF InspectionInv, CompleteInOrder
  <1>9. WorkflowsInOrder'
    BY <1>1, <1>2, <1>3 DEF InspectionInv, WorkflowsInOrder
  <1>10. VerdictInOrder'
    BY <1>1 DEF InspectionInv, VerdictInOrder
  <1> QED BY <1>4, <1>7, <1>8, <1>9, <1>10 DEF InspectionInv

\* A clean action that is neither open nor complete becomes the top of the stack.
LEMMA InspectionEnters == InspectionInv /\ EnterAction => InspectionInv'
  <1> SUFFICES ASSUME InspectionInv, EnterAction PROVE InspectionInv'
    OBVIOUS
  <1>0. Referring /\ Depth \in Nat /\ Reference \in References
    BY ConsumedReference, TopOfStack DEF EnterAction, Fresh, Referring
  <1> PICK under \in Nat : under = Depth
    BY <1>0
  <1> PICK entered \in References : entered = Reference
    BY <1>0
  <1> DEFINE frame == Frame(Reference, Descriptor[Reference])
             taken == Consumed.stack
  <1>1. /\ Referring /\ entered \notin inspection.active \cup inspection.complete
        /\ inspection.files + 1 <= MaximumDescriptors /\ documents[Descriptor[entered]].state = "clean"
        /\ inspection' = [Consumed EXCEPT !.files = inspection.files + 1,
                                          !.active = inspection.active \cup {entered},
                                          !.stack = Append(taken, frame)]
        /\ documents' = documents /\ workflows' = workflows /\ workflows.verdict = "none"
    BY ConsumedReference DEF EnterAction, Fresh, Admissible, Referring, Deciding, InspectionInv, InspectionType
  <1>2. /\ entered \in References /\ entered \in UsesIn(documents, Reads(under, inspection.stack[under]))
        /\ taken \in Seq(Frames) /\ Len(taken) = under
        /\ \A k \in 1..under : taken[k].name = inspection.stack[k].name
        /\ \A k \in 1..under - 1 : taken[k] = inspection.stack[k]
        /\ {taken[under].uses[i] : i \in 1..Len(taken[under].uses)} \cup {entered} = Remaining(inspection.stack[under])
        /\ Consumed = [inspection EXCEPT !.stack = taken]
    BY <1>1, ConsumedReference
  <1>3. /\ entered \in ReachedIn(documents, WorkflowFiles)
        /\ \A j \in 2..under : entered \in ReachedIn(documents, {Descriptor[inspection.stack[j].name]})
    BY <1>1, ReferenceIsReached
  <1>4. /\ frame \in Frames /\ frame.name = entered
        /\ {frame.uses[i] : i \in 1..Len(frame.uses)} = UsesIn(documents, Descriptor[entered])
    <2>1. Descriptor[entered] \in Descriptors
      BY <1>2 DEF Descriptors
    <2>2. documents[Descriptor[entered]].uses \in Seq(References)
      BY <2>1, DocumentsRead DEF InspectionInv, InspectionType
    <2> QED BY <1>2, <2>2 DEF Frame, Frames, UsesIn
  <1>5. under \in Nat /\ under \in 1..under /\ Depth = under
    BY <1>1, TopOfStack DEF Referring
  <1> HIDE DEF frame, taken
  <1>6. /\ inspection'.stack = Append(taken, frame) /\ inspection'.complete = inspection.complete
        /\ inspection'.active = inspection.active \cup {entered}
        /\ inspection'.files = inspection.files + 1
        /\ inspection' = [inspection EXCEPT !.files = inspection.files + 1,
                            !.active = inspection.active \cup {entered}, !.stack = Append(taken, frame)]
    BY <1>1, <1>2 DEF InspectionInv, InspectionType
  <1>7. /\ inspection'.stack \in Seq(Frames) /\ Depth' = under + 1
        /\ inspection'.stack[under + 1] = frame
        /\ \A k \in 1..under : inspection'.stack[k] = taken[k]
    BY <1>2, <1>4, <1>5, <1>6 DEF Depth
  <1>8. InspectionType'
    <2>1. inspection.files + 1 \in 0..MaximumDescriptors
      BY <1>1, LocalActionsAssumption DEF InspectionInv, InspectionType
    <2> QED BY <1>1, <1>2, <1>4, <1>6, <1>7, <2>1 DEF InspectionInv, InspectionType
  <1>9. /\ \A k \in 1..under : /\ inspection'.stack[k].name = inspection.stack[k].name
                              /\ Reads(k, inspection'.stack[k]) = Reads(k, inspection.stack[k])
        /\ inspection'.stack[under + 1].name = entered /\ Reads(under + 1, inspection'.stack[under + 1]) = Descriptor[entered]
        /\ \A k \in 1..under + 1 : k \in 1..under \/ k = under + 1
    BY <1>2, <1>4, <1>5, <1>7 DEF Reads
  <1>10. /\ Remaining(inspection'.stack[under + 1]) = UsesIn(documents, Descriptor[entered])
         /\ Remaining(inspection'.stack[under]) \cup {entered} = Remaining(inspection.stack[under])
         /\ \A k \in 1..under - 1 : Remaining(inspection'.stack[k]) = Remaining(inspection.stack[k])
    <2>2. ASSUME NEW k \in 1..under - 1 PROVE Remaining(inspection'.stack[k]) = Remaining(inspection.stack[k])
      <3>1. k \in 1..under
        OBVIOUS
      <3>2. inspection'.stack[k] = inspection.stack[k]
        BY <1>2, <1>7, <3>1
      <3> QED BY <3>2
    <2>3. Remaining(inspection'.stack[under + 1]) = UsesIn(documents, Descriptor[entered])
      BY <1>4, <1>7 DEF Remaining
    <2>4. Remaining(inspection'.stack[under]) \cup {entered} = Remaining(inspection.stack[under])
      <3>1. inspection'.stack[under] = taken[under]
        BY <1>5, <1>7
      <3> QED BY <1>2, <3>1 DEF Remaining
    <2> QED BY <2>2, <2>3, <2>4
  <1>11. StackInOrder'
    <2>1. ASSUME NEW k \in 1..under + 1
          PROVE  /\ inspection'.stack[k].name \in (IF k = 1 THEN WorkflowFiles ELSE inspection'.active)
                 /\ Remaining(inspection'.stack[k]) \subseteq UsesIn(documents, Reads(k, inspection'.stack[k]))
                 /\ UsesIn(documents, Reads(k, inspection'.stack[k])) \subseteq inspection'.complete \cup Remaining(inspection'.stack[k])
                       \cup (IF k < under + 1 THEN {inspection'.stack[k + 1].name} ELSE {})
      <3>1. CASE k = under + 1
        <4>1. k # 1 /\ ~(k < under + 1)
          BY <1>5, <3>1
        <4>2. /\ inspection'.stack[k].name = entered /\ Reads(k, inspection'.stack[k]) = Descriptor[entered]
              /\ Remaining(inspection'.stack[k]) = UsesIn(documents, Descriptor[entered])
          BY <1>9, <1>10, <3>1
        <4> QED BY <1>6, <4>1, <4>2
      <3>2. CASE k \in 1..under
        <4>1. /\ inspection.stack[k].name \in (IF k = 1 THEN WorkflowFiles ELSE inspection.active)
              /\ Remaining(inspection.stack[k]) \subseteq UsesIn(documents, Reads(k, inspection.stack[k]))
              /\ UsesIn(documents, Reads(k, inspection.stack[k])) \subseteq inspection.complete \cup Remaining(inspection.stack[k])
                    \cup (IF k < under THEN {inspection.stack[k + 1].name} ELSE {})
          BY <1>5, <3>2 DEF InspectionInv, StackInOrder, Path
        <4>2. /\ inspection'.stack[k].name = inspection.stack[k].name
              /\ Reads(k, inspection'.stack[k]) = Reads(k, inspection.stack[k])
              /\ k < under + 1
          BY <1>5, <1>9, <3>2
        <4>3. CASE k = under
          <5>1. /\ inspection'.stack[k + 1].name = entered /\ ~(k < under)
                /\ Remaining(inspection'.stack[k]) \cup {entered} = Remaining(inspection.stack[k])
            BY <1>9, <1>10, <4>3
          <5>2. entered \in UsesIn(documents, Reads(k, inspection.stack[k]))
            BY <1>2, <4>3
          <5> QED BY <1>6, <4>1, <4>2, <5>1, <5>2
        <4>4. CASE k # under
          <5>1. k \in 1..under - 1 /\ k + 1 \in 1..under /\ k < under
            BY <1>5, <3>2, <4>4
          <5>2. /\ inspection'.stack[k + 1].name = inspection.stack[k + 1].name
                /\ Remaining(inspection'.stack[k]) = Remaining(inspection.stack[k])
            BY <1>9, <1>10, <5>1
          <5> QED BY <1>6, <4>1, <4>2, <5>1, <5>2
        <4> QED BY <4>3, <4>4
      <3> QED BY <1>9, <3>1, <3>2
    <2>2. ASSUME NEW r \in inspection'.active
          PROVE  \E k \in 2..under + 1 : inspection'.stack[k].name = r
      <3>1. CASE r = entered
        BY <1>5, <1>9, <3>1
      <3>2. CASE r # entered
        <4>1. PICK k \in 2..under : inspection.stack[k].name = r
          BY <1>5, <1>6, <3>2 DEF InspectionInv, StackInOrder, Path
        <4> QED BY <1>5, <1>9, <4>1
      <3> QED BY <3>1, <3>2
    <2>3. ASSUME NEW j \in 2..under + 1, NEW k \in 2..under + 1, j < k
          PROVE  /\ inspection'.stack[j].name # inspection'.stack[k].name
                 /\ inspection'.stack[k].name \in ReachedIn(documents, {Descriptor[inspection'.stack[j].name]})
      <3>1. j \in 2..under /\ inspection'.stack[j].name = inspection.stack[j].name
        BY <1>5, <1>9, <2>3
      <3>2. CASE k = under + 1
        <4>1. inspection.stack[j].name \in inspection.active
          BY <1>5, <3>1 DEF InspectionInv, StackInOrder, Path
        <4> QED BY <1>1, <1>3, <1>9, <3>1, <3>2, <4>1
      <3>3. CASE k \in 2..under
        <4>1. /\ inspection.stack[j].name # inspection.stack[k].name
              /\ inspection.stack[k].name \in ReachedIn(documents, {Descriptor[inspection.stack[j].name]})
          BY <1>5, <2>3, <3>1, <3>3 DEF InspectionInv, StackInOrder, Path
        <4>2. inspection'.stack[k].name = inspection.stack[k].name
          BY <1>5, <1>9, <3>3
        <4> QED BY <3>1, <4>1, <4>2
      <3> QED BY <1>5, <3>2, <3>3
    <2>4. ASSUME NEW k \in 2..under + 1
          PROVE  inspection'.stack[k].name \in ReachedIn(documents, WorkflowFiles)
      <3>1. CASE k = under + 1
        BY <1>3, <1>9, <3>1
      <3>2. CASE k \in 2..under
        <4>1. inspection.stack[k].name \in ReachedIn(documents, WorkflowFiles)
          BY <1>5, <3>2 DEF InspectionInv, StackInOrder, Path
        <4> QED BY <1>5, <1>9, <3>2, <4>1
      <3> QED BY <1>5, <3>1, <3>2
    <2>5. Path(inspection'.stack, under + 1, inspection'.active, inspection'.complete, documents)
      BY <2>1, <2>2, <2>3, <2>4 DEF Path
    <2> QED BY <1>1, <1>7, <2>5 DEF StackInOrder
  <1>12. CompleteInOrder'
    BY <1>1, <1>6 DEF InspectionInv, CompleteInOrder
  <1>13. WorkflowsInOrder'
    BY <1>1, <1>5, <1>6, <1>7, <1>9 DEF InspectionInv, WorkflowsInOrder
  <1>14. VerdictInOrder'
    BY <1>1 DEF InspectionInv, VerdictInOrder
  <1> QED BY <1>8, <1>11, <1>12, <1>13, <1>14 DEF InspectionInv

\* The end of an action completes it: every use of it is complete.  The end of a
\* workflow leaves every use of it complete.
LEMMA InspectionLeaves == InspectionInv /\ Leave => InspectionInv'
  <1> SUFFICES ASSUME InspectionInv, Leave PROVE InspectionInv'
    OBVIOUS
  <1> PICK top \in Nat : top = Depth
    BY TopOfStack DEF Leave
  <1> PICK left : left = inspection.stack[Depth].name
    OBVIOUS
  <1>1. /\ top \in Nat /\ top \in 1..top /\ Depth = top /\ workflows.verdict = "none"
        /\ inspection.stack[top] \in Frames /\ inspection.stack[top].uses = <<>>
        /\ (top > 1 => left \in References)
        /\ documents' = documents /\ workflows' = workflows
        /\ inspection' = [inspection EXCEPT
              !.stack = SubSeq(inspection.stack, 1, top - 1), !.active = inspection.active \ {left},
              !.complete = IF top > 1 THEN inspection.complete \cup {left} ELSE inspection.complete]
    BY TopOfStack DEF Leave, Deciding, InspectionInv, InspectionType
  <1>2. inspection.stack[top].name = left
    OBVIOUS
  <1>3. /\ inspection'.stack = SubSeq(inspection.stack, 1, top - 1)
        /\ inspection'.active = inspection.active \ {left}
        /\ inspection'.complete = IF top > 1 THEN inspection.complete \cup {left} ELSE inspection.complete
        /\ inspection'.files = inspection.files
    BY <1>1 DEF InspectionInv, InspectionType
  <1>4. /\ inspection'.stack \in Seq(Frames) /\ Depth' = top - 1
        /\ \A k \in 1..top - 1 : /\ k \in 1..top /\ inspection'.stack[k] = inspection.stack[k]
                                /\ Reads(k, inspection'.stack[k]) = Reads(k, inspection.stack[k]) /\ Remaining(inspection'.stack[k]) = Remaining(inspection.stack[k])
    <2>1. inspection.stack \in Seq(Frames) /\ Len(inspection.stack) = top
      BY <1>1 DEF InspectionInv, InspectionType, Depth
    <2>2. /\ inspection'.stack \in Seq(Frames) /\ Len(inspection'.stack) = top - 1
          /\ \A k \in 1..top - 1 : k \in 1..top /\ inspection'.stack[k] = inspection.stack[k]
      BY <1>1, <1>3, <2>1
    <2>3. \A k \in 1..top - 1 : Remaining(inspection'.stack[k]) = Remaining(inspection.stack[k])
      BY <2>2 DEF Remaining
    <2>4. \A k \in 1..top - 1 : Reads(k, inspection'.stack[k]) = Reads(k, inspection.stack[k])
      BY <1>1, <2>2 DEF Reads
    <2> QED BY <2>2, <2>3, <2>4 DEF Depth
  <1>5. Remaining(inspection.stack[top]) = {}
    BY <1>1 DEF Remaining
  <1>6. UsesIn(documents, Reads(top, inspection.stack[top])) \subseteq inspection.complete
    BY <1>1, <1>5 DEF InspectionInv, StackInOrder, Path
  <1>7. CASE top = 1
    <2>1. inspection.active = {}
      BY <1>1, <1>7 DEF InspectionInv, StackInOrder, Path
    <2>2. Depth' = 0 /\ inspection'.active = {} /\ inspection'.complete = inspection.complete
      BY <1>3, <1>4, <1>7, <2>1
    <2>3. Reads(top, inspection.stack[top]) = inspection.stack[1].name
      BY <1>7 DEF Reads
    <2>4. InspectionType'
      BY <1>1, <1>4, <1>7 DEF InspectionInv, InspectionType
    <2>5. StackInOrder'
      BY <2>2 DEF StackInOrder, Path
    <2>6. CompleteInOrder' /\ VerdictInOrder'
      BY <1>1, <2>1, <2>2 DEF InspectionInv, CompleteInOrder, VerdictInOrder
    <2>7. WorkflowsInOrder'
      BY <1>1, <1>6, <2>2, <2>3 DEF InspectionInv, WorkflowsInOrder
    <2> QED BY <2>4, <2>5, <2>6, <2>7 DEF InspectionInv
  <1>8. CASE top > 1
    <2>1. /\ left \in References /\ left \in inspection.active /\ left \notin inspection.complete
          /\ top \in 2..top /\ Reads(top, inspection.stack[top]) = Descriptor[left]
      BY <1>1, <1>2, <1>8 DEF InspectionInv, StackInOrder, Path, CompleteInOrder, Reads
    <2>2. UsesIn(documents, Descriptor[left]) \subseteq inspection.complete /\ ~CyclicIn(documents, left)
      BY <1>6, <2>1, CompletedIsAcyclic DEF InspectionInv
    <2>3. inspection'.complete = inspection.complete \cup {left}
      BY <1>3, <1>8
    <2>4. InspectionType'
      BY <1>1, <1>4, <1>8, <2>1 DEF InspectionInv, InspectionType
    <2>5. StackInOrder'
      <3>1. ASSUME NEW k \in 1..top - 1
            PROVE  /\ inspection'.stack[k].name \in (IF k = 1 THEN WorkflowFiles ELSE inspection'.active)
                   /\ Remaining(inspection'.stack[k]) \subseteq UsesIn(documents, Reads(k, inspection'.stack[k]))
                   /\ UsesIn(documents, Reads(k, inspection'.stack[k])) \subseteq inspection'.complete \cup Remaining(inspection'.stack[k])
                         \cup (IF k < top - 1 THEN {inspection'.stack[k + 1].name} ELSE {})
        <4>1. /\ inspection.stack[k].name \in (IF k = 1 THEN WorkflowFiles ELSE inspection.active)
              /\ Remaining(inspection.stack[k]) \subseteq UsesIn(documents, Reads(k, inspection.stack[k]))
              /\ UsesIn(documents, Reads(k, inspection.stack[k])) \subseteq inspection.complete \cup Remaining(inspection.stack[k])
                    \cup {inspection.stack[k + 1].name}
          BY <1>1, <1>4 DEF InspectionInv, StackInOrder, Path
        <4>2. k # 1 => inspection.stack[k].name # left
          <5>1. \A i, j \in 2..top : i < j => inspection.stack[i].name # inspection.stack[j].name
            BY <1>1 DEF InspectionInv, StackInOrder, Path
          <5>2. k # 1 => k \in 2..top /\ top \in 2..top /\ k < top
            BY <1>1
          <5> QED BY <1>2, <5>1, <5>2
        <4>3. IF k < top - 1 THEN inspection'.stack[k + 1].name = inspection.stack[k + 1].name
                             ELSE inspection.stack[k + 1].name = left
          <5>1. CASE k < top - 1
            <6>1. k + 1 \in 1..top - 1
              BY <1>1, <5>1
            <6> QED BY <1>4, <5>1, <6>1
          <5>2. CASE ~(k < top - 1)
            <6>1. k + 1 = top
              BY <1>1, <5>2
            <6> QED BY <1>2, <5>2, <6>1
          <5> QED BY <5>1, <5>2
        <4> QED BY <1>3, <1>4, <2>3, <4>1, <4>2, <4>3
      <3>2. ASSUME NEW r \in inspection'.active
            PROVE  \E k \in 2..top - 1 : inspection'.stack[k].name = r
        <4>1. PICK k \in 2..top : inspection.stack[k].name = r
          BY <1>1, <1>3 DEF InspectionInv, StackInOrder, Path
        <4>2. k # top
          BY <1>2, <1>3, <4>1
        <4>3. k \in 2..top - 1 /\ k \in 1..top - 1
          BY <1>1, <4>2
        <4> QED BY <1>4, <4>1, <4>3
      <3>3. ASSUME NEW k \in 2..top - 1
            PROVE  /\ k \in 2..top /\ inspection'.stack[k].name = inspection.stack[k].name
                   /\ inspection'.stack[k].name \in ReachedIn(documents, WorkflowFiles)
        <4>1. k \in 2..top /\ k \in 1..top - 1
          BY <1>1
        <4> QED BY <1>1, <1>4, <4>1 DEF InspectionInv, StackInOrder, Path
      <3>4. ASSUME NEW j \in 2..top - 1, NEW k \in 2..top - 1, j < k
            PROVE  /\ inspection'.stack[j].name # inspection'.stack[k].name
                   /\ inspection'.stack[k].name \in ReachedIn(documents, {Descriptor[inspection'.stack[j].name]})
        <4>1. /\ inspection.stack[j].name # inspection.stack[k].name
              /\ inspection.stack[k].name \in ReachedIn(documents, {Descriptor[inspection.stack[j].name]})
          BY <1>1, <3>3, <3>4 DEF InspectionInv, StackInOrder, Path
        <4> QED BY <3>3, <4>1
      <3>5. Path(inspection'.stack, top - 1, inspection'.active, inspection'.complete, documents)
        BY <3>1, <3>2, <3>3, <3>4 DEF Path
      <3> QED BY <1>1, <1>4, <3>5 DEF StackInOrder
    <2>6. CompleteInOrder'
      BY <1>1, <1>3, <2>1, <2>2, <2>3 DEF InspectionInv, CompleteInOrder
    <2>7. WorkflowsInOrder'
      <3>1. Depth' > 0 /\ inspection'.stack[1].name = inspection.stack[1].name
        <4>1. 1 \in 1..top - 1
          BY <1>1, <1>8
        <4> QED BY <1>1, <1>4, <1>8, <4>1
      <3> QED BY <1>1, <1>8, <2>3, <3>1 DEF InspectionInv, WorkflowsInOrder
    <2>8. VerdictInOrder'
      BY <1>1 DEF InspectionInv, VerdictInOrder
    <2> QED BY <2>4, <2>5, <2>6, <2>7, <2>8 DEF InspectionInv
  <1> QED BY <1>1, <1>7, <1>8

\* The end of the walk: everything that the workflows reach is complete.
LEMMA InspectionDecides == InspectionInv /\ Decide => InspectionInv'
  <1> SUFFICES ASSUME InspectionInv, Decide PROVE InspectionInv'
    OBVIOUS
  <1>1. /\ documents' = documents /\ inspection' = inspection /\ Depth = 0 /\ workflows.left = {}
        /\ workflows' = [workflows EXCEPT !.verdict = IF workflows.findings = {} THEN "accepted" ELSE "findings"]
    BY DEF Decide
  <1>2. Depth' = Depth
    BY <1>1 DEF Depth
  <1> QED BY <1>1, <1>2 DEF InspectionInv, InspectionType, StackInOrder, CompleteInOrder,
                            WorkflowsInOrder, VerdictInOrder

\* Every step of the inspection keeps the walk in order.
LEMMA InspectionNext == InspectionInv /\ (LocalActionsNext \/ UNCHANGED localActionVars) => InspectionInv'
  <1>1. ASSUME InspectionInv, UNCHANGED localActionVars PROVE InspectionInv'
    <2>1. documents' = documents /\ inspection' = inspection /\ workflows' = workflows /\ Depth' = Depth
      BY <1>1 DEF localActionVars, Depth
    <2> QED BY <1>1, <2>1 DEF InspectionInv, InspectionType, StackInOrder, CompleteInOrder,
                              WorkflowsInOrder, VerdictInOrder
  <1>2. ASSUME InspectionInv, TooDeep \/ RefuseAction PROVE InspectionInv'
    BY <1>2, InspectionRefuses DEF TooDeep, RefuseAction, Fresh, Referring
  <1> QED BY <1>1, <1>2, InspectionOpens, InspectionFindsCycle, InspectionSkips, InspectionEnters,
             InspectionLeaves, InspectionDecides DEF LocalActionsNext

\* The walk is in order in every process that checks workflows.
LEMMA InspectionHolds == CommandSpec => [](ProcessInv /\ (golib.command = "workflows" => InspectionInv))
  <1>1. CommandInit => ProcessInv /\ (golib.command = "workflows" => InspectionInv)
    BY ProcessInit, InspectionStarts DEF CommandInit
  <1>2. /\ ProcessInv /\ (golib.command = "workflows" => InspectionInv)
        /\ [CommandNext]_commandVars
        => ProcessInv' /\ (golib.command = "workflows" => InspectionInv)'
    BY ProcessStep, ProcessNext, InspectionNext DEF ProcessInv
  <1> QED BY <1>1, <1>2, PTL DEF CommandSpec

\* golib workflows check accepts only trees in which everything the workflows
\* reach was inspected, is clean and does not use itself, and refuses for a cycle
\* only trees that have one.
THEOREM InspectionIsComplete == CommandSpec => []WorkflowsAreInspected
  <1>1. InspectionInv => LocalActionsType /\ AcceptedIsInspected
    <2> SUFFICES ASSUME InspectionInv PROVE LocalActionsType /\ AcceptedIsInspected
      OBVIOUS
    <2>1. LocalActionsType
      BY LocalActionsAssumption DEF InspectionInv, InspectionType, CompleteInOrder, LocalActionsType
    <2>2. ASSUME workflows.verdict = "accepted"
          PROVE  /\ \A file \in WorkflowFiles : documents[file].state = "clean"
                 /\ ReachedIn(documents, WorkflowFiles) \subseteq inspection.complete
      <3>1. \A file \in WorkflowFiles : /\ documents[file].state = "clean"
                                        /\ UsesIn(documents, file) \subseteq inspection.complete
        BY <2>2 DEF InspectionInv, InspectionType, VerdictInOrder, WorkflowsInOrder
      <3>2. inspection.complete \in SUBSET References
        BY DEF InspectionInv, InspectionType
      <3> QED BY <3>1, <3>2, ReachedIsLeast DEF InspectionInv, CompleteInOrder
    <2>3. AcceptedIsInspected
      BY <2>2, InspectedTree DEF AcceptedIsInspected, InspectionInv, CompleteInOrder, VerdictInOrder
    <2> QED BY <2>1, <2>3
  <1>2. ProcessInv /\ (golib.command = "workflows" => InspectionInv) => WorkflowsAreInspected
    BY <1>1 DEF WorkflowsAreInspected, Exits, ProcessInv, Succeeded
  <1> QED BY InspectionHolds, <1>2, PTL

-----------------------------------------------------------------------------
(* golib inventory --base-sha, and the fuzz selection of golib check. *)

\* The sequence of a finite set holds its elements and no others.
LEMMA SequenceOfSet ==
  ASSUME NEW S, IsFiniteSet(S)
  PROVE  SetToSeq(S) \in Seq(S) /\ ToSet(SetToSeq(S)) = S
  <1> DEFINE n == Cardinality(S)
  <1>1. n \in Nat /\ \E f \in [1..n -> S] : IsInjective(f)
    BY FS_CardinalityType DEF ExistsBijection, Bijection, Injection
  <1>2. SetToSeq(S) \in [1..n -> S] /\ IsInjective(SetToSeq(S))
    BY <1>1 DEF SetToSeq
  <1>3. IsFiniteSet(1..n) /\ Cardinality(1..n) = Cardinality(S)
    BY <1>1, FS_Interval
  <1>4. SetToSeq(S) \in Surjection(1..n, S)
    <2>1. SetToSeq(S) \in Injection(1..n, S)
      BY <1>2 DEF Injection
    <2> QED BY <1>3, <2>1, FS_Injection
  <1>5. SetToSeq(S) \in Seq(S)
    BY <1>1, <1>2
  <1>6. ToSet(SetToSeq(S)) = S
    BY <1>2, <1>4 DEF ToSet, Surjection
  <1> QED BY <1>5, <1>6

\* What a queue holds after its head was taken, and after more was put behind it.
LEMMA QueueElements ==
  ASSUME NEW S, NEW queue \in Seq(S), NEW more \in Seq(S)
  PROVE  /\ ToSet(queue) \subseteq S
         /\ ToSet(queue \o more) = ToSet(queue) \cup ToSet(more)
         /\ queue # <<>> => /\ Head(queue) \in S /\ Tail(queue) \in Seq(S)
                            /\ ToSet(queue) = {Head(queue)} \cup ToSet(Tail(queue))
  <1>1. DOMAIN queue = 1..Len(queue) /\ Len(queue) \in Nat /\ DOMAIN more = 1..Len(more) /\ Len(more) \in Nat
    OBVIOUS
  <1>2. ToSet(queue) \subseteq S
    BY <1>1 DEF ToSet
  <1>3. ToSet(queue \o more) = ToSet(queue) \cup ToSet(more)
    <2>1. DOMAIN (queue \o more) = 1..Len(queue) + Len(more)
      OBVIOUS
    <2>2. ASSUME NEW i \in 1..Len(queue) + Len(more)
          PROVE  (queue \o more)[i] \in ToSet(queue) \cup ToSet(more)
      <3>1. CASE i <= Len(queue)
        <4>1. i \in 1..Len(queue) /\ (queue \o more)[i] = queue[i]
          BY <1>1, <3>1
        <4> QED BY <1>1, <4>1 DEF ToSet
      <3>2. CASE i > Len(queue)
        <4>1. i - Len(queue) \in 1..Len(more) /\ (queue \o more)[i] = more[i - Len(queue)]
          BY <1>1, <3>2
        <4> QED BY <1>1, <4>1 DEF ToSet
      <3> QED BY <1>1, <3>1, <3>2
    <2>3. ASSUME NEW i \in 1..Len(queue) PROVE queue[i] \in ToSet(queue \o more)
      <3>1. i \in 1..Len(queue) + Len(more) /\ (queue \o more)[i] = queue[i]
        BY <1>1
      <3> QED BY <2>1, <3>1 DEF ToSet
    <2>4. ASSUME NEW i \in 1..Len(more) PROVE more[i] \in ToSet(queue \o more)
      <3>1. /\ Len(queue) + i \in 1..Len(queue) + Len(more)
            /\ (queue \o more)[Len(queue) + i] = more[i]
        BY <1>1
      <3> QED BY <2>1, <3>1 DEF ToSet
    <2>5. ToSet(queue \o more) \subseteq ToSet(queue) \cup ToSet(more)
      <3> SUFFICES ASSUME NEW x \in ToSet(queue \o more) PROVE x \in ToSet(queue) \cup ToSet(more)
        OBVIOUS
      <3>1. PICK i \in 1..Len(queue) + Len(more) : x = (queue \o more)[i]
        BY <2>1 DEF ToSet
      <3> QED BY <2>2, <3>1
    <2>6. ToSet(queue) \subseteq ToSet(queue \o more) /\ ToSet(more) \subseteq ToSet(queue \o more)
      <3>1. ASSUME NEW x \in ToSet(queue) PROVE x \in ToSet(queue \o more)
        <4>1. PICK i \in 1..Len(queue) : x = queue[i]
          BY <1>1 DEF ToSet
        <4> QED BY <2>3, <4>1
      <3>2. ASSUME NEW x \in ToSet(more) PROVE x \in ToSet(queue \o more)
        <4>1. PICK i \in 1..Len(more) : x = more[i]
          BY <1>1 DEF ToSet
        <4> QED BY <2>4, <4>1
      <3> QED BY <3>1, <3>2
    <2> QED BY <2>5, <2>6
  <1>4. ASSUME queue # <<>>
        PROVE  /\ Head(queue) \in S /\ Tail(queue) \in Seq(S)
               /\ ToSet(queue) = {Head(queue)} \cup ToSet(Tail(queue))
    <2>1. /\ Len(queue) >= 1 /\ Head(queue) = queue[1] /\ Head(queue) \in S /\ Tail(queue) \in Seq(S)
          /\ DOMAIN Tail(queue) = 1..Len(queue) - 1
          /\ \A i \in 1..Len(queue) - 1 : Tail(queue)[i] = queue[i + 1]
      BY <1>1, <1>4
    <2>2. ASSUME NEW i \in 1..Len(queue) PROVE queue[i] \in {Head(queue)} \cup ToSet(Tail(queue))
      <3>1. CASE i = 1
        BY <2>1, <3>1
      <3>2. CASE i # 1
        <4>1. i - 1 \in 1..Len(queue) - 1 /\ queue[i] = Tail(queue)[i - 1]
          BY <1>1, <2>1, <3>2
        <4> QED BY <2>1, <4>1 DEF ToSet
      <3> QED BY <3>1, <3>2
    <2>3. ASSUME NEW i \in 1..Len(queue) - 1 PROVE Tail(queue)[i] \in ToSet(queue)
      <3>1. i + 1 \in 1..Len(queue) /\ Tail(queue)[i] = queue[i + 1]
        BY <1>1, <2>1
      <3> QED BY <1>1, <3>1 DEF ToSet
    <2>4. Head(queue) \in ToSet(queue)
      BY <1>1, <2>1 DEF ToSet
    <2>5. ToSet(queue) \subseteq {Head(queue)} \cup ToSet(Tail(queue))
      BY <1>1, <2>2 DEF ToSet
    <2>6. ToSet(Tail(queue)) \subseteq ToSet(queue)
      <3> SUFFICES ASSUME NEW x \in ToSet(Tail(queue)) PROVE x \in ToSet(queue)
        OBVIOUS
      <3>1. PICK i \in 1..Len(queue) - 1 : x = Tail(queue)[i]
        BY <2>1 DEF ToSet
      <3> QED BY <2>3, <3>1
    <2> QED BY <2>1, <2>4, <2>5, <2>6
  <1> QED BY <1>2, <1>3, <1>4

\* The owners of the committed paths, what makes every module affected, and the
\* sets that SelectionIsClosed and AffectedIsReached compare with.
Owned(paths) == UNION {Owners(path) : path \in paths}
Settled(path) == Owners(path) # {} /\ Owners(path) \cap Fixtures = {}
DependentsIn(requires, m) == {c \in Catalog : m \in requires[c]}
ClosedAbove(paths, requires, set) ==
    /\ set \in SUBSET Catalog /\ Owned(paths) \subseteq set
    /\ \A m \in set : DependentsIn(requires, m) \subseteq set
ImportedBy(imports, tests, p) == imports[p] \cup (IF p = Target THEN tests ELSE {})
LinkedAbove(imports, tests, set) ==
    /\ set \in SUBSET Packages /\ Target \in set
    /\ \A p \in set : ImportedBy(imports, tests, p) \cap Packages \subseteq set
Touches(paths, p) == paths \cap InputsIn(p) # {}
TouchesAll(paths) == paths \cap ({GoVersionFile} \cup ModuleFiles[FuzzModule]) # {}
Named(imports, tests) == Packages \cup {Target} \cup tests \cup UNION {imports[p] : p \in Packages}

\* A selection under way is made of the owners of what it has read and of modules
\* that no closed set above all owners can do without.
SelectionInv ==
    /\ selection \in [left : SUBSET change.paths, all : BOOLEAN, modules : SUBSET Catalog,
                      phase : {"classify", "close", "done", "failed"}]
    /\ selection.all => change.paths = {} \/ \E path \in change.paths : ~Settled(path)
    /\ ~selection.all => change.paths # {} /\ \A path \in change.paths \ selection.left : Settled(path)
    /\ selection.phase = "classify" /\ ~selection.all =>
          selection.modules = Owned(change.paths \ selection.left)
    /\ selection.phase = "close" => ~selection.all
    /\ selection.phase \in {"close", "done"} /\ ~selection.all =>
          /\ selection.left = {} /\ Owned(change.paths) \subseteq selection.modules
          /\ \A set : ClosedAbove(change.paths, change.requires, set) => selection.modules \subseteq set
    /\ selection.phase = "done" =>
          IF selection.all THEN selection.modules = Catalog
          ELSE ClosedAbove(change.paths, change.requires, selection.modules)

\* The search has seen packages of the binary only, and what they import is seen
\* or in the queue.
SearchInv ==
    /\ change.imports \in Imports /\ change.tests \in TestImports
    /\ search \in [queue : Seq(Named(change.imports, change.tests)), seen : SUBSET Packages, affected : BOOLEAN,
                   phase : {"search", "done", "failed"}]
    /\ Target \in search.seen \cup ToSet(search.queue)
    /\ \A p \in search.seen : Followed(p) \subseteq search.seen \cup ToSet(search.queue)
    /\ \A set : LinkedAbove(change.imports, change.tests, set) =>
          search.seen \subseteq set /\ ToSet(search.queue) \cap Packages \subseteq set
    /\ search.affected <=> \/ TouchesAll(change.paths)
                           \/ \E p \in search.seen : Touches(change.paths, p)
    /\ search.phase = "done" => search.queue = <<>>

\* An owner is a module of the catalog.
LEMMA OwnersAreModules ==
  /\ \A path : Owners(path) \subseteq Catalog
  /\ \A paths : Owned(paths) \subseteq Catalog
  BY SelectionAssumption DEF Owners, Owned

\* Nothing is classified and nothing seen yet.
LEMMA SelectionStarts == SelectionInit => SelectionInv /\ SearchInv
  <1> SUFFICES ASSUME SelectionInit PROVE SelectionInv /\ SearchInv
    OBVIOUS
  <1>1. PICK paths \in SUBSET Paths, requires \in Requirements, imports \in Imports, tests \in TestImports :
          change = [paths |-> paths, requires |-> requires, imports |-> imports, tests |-> tests]
    BY DEF SelectionInit
  <1>2. SelectionInv
    BY <1>1 DEF SelectionInit, SelectionInv, Owned
  <1>3. /\ Target \in Named(imports, tests) /\ ToSet(<<Target>>) = {Target}
        /\ <<Target>> \in Seq(Named(imports, tests))
    BY DEF Named, ToSet
  <1>4. SearchInv
    BY <1>1, <1>3 DEF SelectionInit, SearchInv, LinkedAbove, TouchesAll
  <1> QED BY <1>2, <1>4

\* Every step of ChangedModules.
LEMMA SelectionStep == SelectionInv /\ (SelectionNext \/ UNCHANGED selectionVars) => SelectionInv'
  <1> SUFFICES ASSUME SelectionInv, SelectionNext \/ UNCHANGED selectionVars PROVE SelectionInv'
    OBVIOUS
  <1>1. CASE Classify
    <2>1. PICK path \in selection.left :
            selection' = [selection EXCEPT
                !.left = @ \ {path},
                !.all = Owners(path) = {} \/ Owners(path) \cap Fixtures # {},
                !.modules = @ \cup (Owners(path) \ Fixtures)]
      BY <1>1 DEF Classify
    <2>2. /\ change' = change /\ selection.phase = "classify" /\ ~selection.all
          /\ selection'.all = ~Settled(path) /\ selection'.phase = "classify"
          /\ selection'.left = selection.left \ {path}
          /\ selection'.modules = selection.modules \cup (Owners(path) \ Fixtures)
      BY <1>1, <2>1 DEF Classify, SelectionInv, Settled
    <2>3. selection' \in [left : SUBSET change.paths, all : BOOLEAN, modules : SUBSET Catalog,
                          phase : {"classify", "close", "done", "failed"}]
      BY <2>1, OwnersAreModules DEF SelectionInv
    <2>4. path \in change.paths /\ change.paths \ selection'.left = (change.paths \ selection.left) \cup {path}
      BY <2>2 DEF SelectionInv
    <2>5. ~selection'.all => selection'.modules = Owned(change.paths \ selection'.left)
      <3>1. ~selection'.all => selection'.modules = selection.modules \cup Owners(path)
        BY <2>2 DEF Settled
      <3>2. selection.modules = Owned(change.paths \ selection.left)
        BY <2>2 DEF SelectionInv
      <3> QED BY <2>4, <3>1, <3>2 DEF Owned
    <2> QED BY <2>2, <2>3, <2>4, <2>5 DEF SelectionInv
  <1>2. CASE SelectAll
    BY <1>2 DEF SelectAll, SelectionInv
  <1>3. CASE ReadRequirements
    BY <1>3 DEF ReadRequirements, SelectionInv, ClosedAbove
  <1>4. CASE AddConsumer
    <2>1. PICK m \in Catalog \ selection.modules :
            /\ change.requires[m] \cap selection.modules # {}
            /\ selection' = [selection EXCEPT !.modules = @ \cup {m}]
      BY <1>4 DEF AddConsumer, Consumers
    <2>2. change' = change /\ selection.phase = "close" /\ selection'.modules = selection.modules \cup {m}
      BY <1>4, <2>1 DEF AddConsumer, SelectionInv
    <2>3. ASSUME NEW set, ClosedAbove(change.paths, change.requires, set) PROVE m \in set
      BY <2>1, <2>2, <2>3 DEF SelectionInv, ClosedAbove, DependentsIn
    <2> QED BY <2>1, <2>2, <2>3 DEF SelectionInv
  <1>5. CASE SelectionDone
    <2>1. ClosedAbove(change.paths, change.requires, selection.modules)
      BY <1>5 DEF SelectionDone, Consumers, SelectionInv, ClosedAbove, DependentsIn
    <2> QED BY <1>5, <2>1 DEF SelectionDone, SelectionInv
  <1>6. CASE SelectionFails
    BY <1>6 DEF SelectionFails, SelectionInv
  <1>7. CASE FuzzTargetAffected \/ UNCHANGED selectionVars
    BY <1>7 DEF FuzzTargetAffected, SkipSeen, MissingPackage, Visit, SearchDone, SearchFails, selectionVars,
                SelectionInv
  <1> QED BY <1>1, <1>2, <1>3, <1>4, <1>5, <1>6, <1>7 DEF SelectionNext, ChangedModules

\* Only the pseudo package of cgo, which is no package, is not followed.
LEMMA FollowedIsImported ==
  \A p : /\ Followed(p) \subseteq ImportedBy(change.imports, change.tests, p)
         /\ Followed(p) \cap Packages = ImportedBy(change.imports, change.tests, p) \cap Packages
  BY SelectionAssumption DEF Followed, ImportedBy

\* What is followed is a finite set of names.
LEMMA FollowedIsFinite ==
  ASSUME SearchInv, NEW p \in Packages
  PROVE  IsFiniteSet(Followed(p)) /\ Followed(p) \subseteq Named(change.imports, change.tests)
  <1> DEFINE own == change.imports[p] \ (IF p \in CgoPackages THEN {Pseudo} ELSE {})
             tests == IF p = Target THEN change.tests ELSE {}
  <1>1. IsFiniteSet(change.imports[p]) /\ IsFiniteSet(change.tests)
    BY SelectionAssumption DEF SearchInv
  <1>2. IsFiniteSet(own)
    <2>1. own \subseteq change.imports[p]
      OBVIOUS
    <2> QED BY <1>1, <2>1, FS_Subset
  <1>3. IsFiniteSet(tests)
    BY <1>1, FS_EmptySet
  <1>4. Followed(p) = own \cup tests
    BY DEF Followed
  <1>5. Followed(p) \subseteq Named(change.imports, change.tests)
    BY DEF Followed, Named
  <1> HIDE DEF own, tests
  <1> QED BY <1>2, <1>3, <1>4, <1>5, FS_Union

\* Every step of fuzzTargetAffected.
LEMMA SearchStep == SearchInv /\ (SelectionNext \/ UNCHANGED selectionVars) => SearchInv'
  <1> SUFFICES ASSUME SearchInv, SelectionNext \/ UNCHANGED selectionVars PROVE SearchInv'
    OBVIOUS
  <1> PICK names : names = Named(change.imports, change.tests)
    OBVIOUS
  <1>1. Searching => /\ Visited \in names /\ Tail(search.queue) \in Seq(names)
                     /\ ToSet(search.queue) = {Visited} \cup ToSet(Tail(search.queue))
    <2>1. search.queue \in Seq(names)
      BY DEF SearchInv
    <2> QED BY <2>1, QueueElements DEF Searching, Visited
  <1>2. change' = change => \A p : Followed(p)' = Followed(p)
    BY DEF Followed
  <1>3. CASE SkipSeen
    <2>1. /\ change' = change /\ Visited \in search.seen /\ search.phase = "search"
          /\ search' = [search EXCEPT !.queue = Tail(search.queue)]
      BY <1>3 DEF SkipSeen, Searching
    <2>2. /\ search'.queue = Tail(search.queue) /\ search'.seen = search.seen
          /\ search'.affected = search.affected /\ search'.phase = "search"
      BY <2>1 DEF SearchInv
    <2>3. /\ Tail(search.queue) \in Seq(names)
          /\ ToSet(search.queue) = {Visited} \cup ToSet(Tail(search.queue))
      BY <1>1, <1>3 DEF SkipSeen
    <2>4. search' \in [queue : Seq(names), seen : SUBSET Packages, affected : BOOLEAN,
                       phase : {"search", "done", "failed"}]
      BY <2>1, <2>3 DEF SearchInv
    <2>5. /\ Target \in search'.seen \cup ToSet(search'.queue)
          /\ \A p \in search'.seen : Followed(p) \subseteq search'.seen \cup ToSet(search'.queue)
      BY <2>1, <2>2, <2>3 DEF SearchInv
    <2>6. \A set : LinkedAbove(change.imports, change.tests, set) =>
             search'.seen \subseteq set /\ ToSet(search'.queue) \cap Packages \subseteq set
      BY <2>2, <2>3 DEF SearchInv
    <2> QED BY <1>2, <2>1, <2>2, <2>4, <2>5, <2>6 DEF SearchInv
  <1>4. CASE MissingPackage \/ SearchFails
    BY <1>2, <1>4 DEF MissingPackage, SearchFails, SearchInv
  <1>5. CASE Visit
    <2> PICK visited : visited = Visited
      OBVIOUS
    <2> PICK more : more = SetToSeq(Followed(visited))
      OBVIOUS
    <2> DEFINE touched == Touches(change.paths, visited)
    <2>1. /\ visited \in Packages \ search.seen /\ change' = change /\ search.phase = "search"
          /\ search' = [search EXCEPT !.queue = Tail(search.queue) \o more, !.seen = search.seen \cup {visited},
                                      !.affected = search.affected \/ touched]
      BY <1>5 DEF Visit, Searching, SearchInv, Touches
    <2>2. more \in Seq(names) /\ ToSet(more) = Followed(visited)
      <3>1. IsFiniteSet(Followed(visited)) /\ Followed(visited) \subseteq names
        BY <2>1, FollowedIsFinite
      <3>2. more \in Seq(Followed(visited)) /\ ToSet(more) = Followed(visited)
        BY <3>1, SequenceOfSet
      <3> QED BY ONLY <3>1, <3>2
    <2> HIDE DEF touched
    <2>3. /\ search'.queue = Tail(search.queue) \o more /\ search'.seen = search.seen \cup {visited}
          /\ (search'.affected <=> search.affected \/ touched) /\ search'.phase = "search"
      BY <2>1 DEF SearchInv
    <2>4. /\ ToSet(search.queue) = {visited} \cup ToSet(Tail(search.queue))
          /\ ToSet(search'.queue) = ToSet(Tail(search.queue)) \cup Followed(visited)
          /\ search'.queue \in Seq(names)
      <3>1. /\ Tail(search.queue) \in Seq(names)
            /\ ToSet(search.queue) = {visited} \cup ToSet(Tail(search.queue))
        BY <1>1, <1>5 DEF Visit
      <3>2. ToSet(Tail(search.queue) \o more) = ToSet(Tail(search.queue)) \cup ToSet(more)
        BY <2>2, <3>1, QueueElements
      <3> QED BY <2>2, <2>3, <3>1, <3>2
    <2>5. search' \in [queue : Seq(names), seen : SUBSET Packages, affected : BOOLEAN,
                       phase : {"search", "done", "failed"}]
      BY <2>1, <2>3, <2>4 DEF SearchInv
    <2>6. ASSUME NEW set, LinkedAbove(change.imports, change.tests, set)
          PROVE  search'.seen \subseteq set /\ ToSet(search'.queue) \cap Packages \subseteq set
      <3>1. search.seen \subseteq set /\ ToSet(search.queue) \cap Packages \subseteq set
        BY <2>6 DEF SearchInv
      <3>2. visited \in set
        BY <2>1, <2>4, <3>1
      <3>3. Followed(visited) \cap Packages \subseteq set
        BY <2>6, <3>2, FollowedIsImported DEF LinkedAbove
      <3> QED BY <2>3, <2>4, <3>1, <3>2, <3>3
    <2>7. search'.affected <=> TouchesAll(change.paths) \/ \E p \in search'.seen : Touches(change.paths, p)
      BY <2>3 DEF SearchInv, touched
    <2>8. /\ Target \in search'.seen \cup ToSet(search'.queue)
          /\ \A p \in search'.seen : Followed(p) \subseteq search'.seen \cup ToSet(search'.queue)
      BY <2>3, <2>4 DEF SearchInv
    <2> QED BY <1>2, <2>1, <2>3, <2>5, <2>6, <2>7, <2>8 DEF SearchInv
  <1>6. CASE SearchDone
    BY <1>2, <1>6 DEF SearchDone, SearchInv
  <1>7. CASE ChangedModules \/ UNCHANGED selectionVars
    <2>1. change' = change /\ search' = search
      BY <1>7 DEF ChangedModules, Classify, SelectAll, ReadRequirements, AddConsumer, SelectionDone,
                  SelectionFails, selectionVars
    <2> QED BY <1>2, <2>1 DEF SearchInv
  <1> QED BY <1>3, <1>4, <1>5, <1>6, <1>7 DEF SelectionNext, FuzzTargetAffected

\* Both hold in every process that selects for a change.
LEMMA SelectionHolds ==
  CommandSpec => [](ProcessInv /\ (golib.command \in {"inventory", "fuzz"} => SelectionInv /\ SearchInv))
  <1>1. CommandInit => ProcessInv /\ (golib.command \in {"inventory", "fuzz"} => SelectionInv /\ SearchInv)
    BY ProcessInit, SelectionStarts DEF CommandInit
  <1>2. /\ ProcessInv /\ (golib.command \in {"inventory", "fuzz"} => SelectionInv /\ SearchInv)
        /\ [CommandNext]_commandVars
        => ProcessInv' /\ (golib.command \in {"inventory", "fuzz"} => SelectionInv /\ SearchInv)'
    BY ProcessStep, ProcessNext, SelectionStep, SearchStep DEF ProcessInv
  <1> QED BY <1>1, <1>2, PTL DEF CommandSpec

\* A finished selection is the least set of modules above the owners of the
\* change, and a finished search has found out what the target is linked with.
THEOREM SelectionIsExact == CommandSpec => []ChangeReachesExactly
  <1>1. SelectionInv => SelectionIsClosed
    <2> SUFFICES ASSUME SelectionInv, selection.phase = "done"
                 PROVE  selection.modules =
                          IF change.paths = {} \/ \E path \in change.paths : ~Settled(path) THEN Catalog
                          ELSE {m \in Catalog : \A set \in SUBSET Catalog :
                                  /\ Owned(change.paths) \subseteq set
                                  /\ \A y \in set : DependentsIn(change.requires, y) \cap Catalog \subseteq set
                                  => m \in set}
      BY DEF SelectionIsClosed, Least, Settled, Owned, DependentsIn
    <2>1. CASE selection.all
      BY <2>1 DEF SelectionInv
    <2>2. CASE ~selection.all
      <3>1. change.paths # {} /\ \A path \in change.paths : Settled(path)
        BY <2>2 DEF SelectionInv
      <3>2. ClosedAbove(change.paths, change.requires, selection.modules)
        BY <2>2 DEF SelectionInv
      <3>3. \A set : ClosedAbove(change.paths, change.requires, set) => selection.modules \subseteq set
        BY <2>2 DEF SelectionInv
      <3>4. \A y : DependentsIn(change.requires, y) \subseteq Catalog
        BY DEF DependentsIn
      <3> QED BY <3>1, <3>2, <3>3, <3>4 DEF ClosedAbove
    <2> QED BY <2>1, <2>2 DEF SelectionInv
  <1>2. SearchInv => AffectedIsReached
    <2> DEFINE linked == {p \in Packages : \A set \in SUBSET Packages :
                             /\ {Target} \subseteq set
                             /\ \A y \in set : ImportedBy(change.imports, change.tests, y) \cap Packages \subseteq set
                             => p \in set}
               modules == {FuzzModule} \cup UNION {OwnersOf[p] : p \in linked}
    <2> SUFFICES ASSUME SearchInv, search.phase = "done"
                 PROVE  search.affected <=>
                           change.paths \cap ({GoVersionFile} \cup (UNION {InputsOf[p] : p \in linked})
                                              \cup (UNION {ModuleFiles[m] : m \in modules})) # {}
      BY DEF AffectedIsReached, Least, ImportedBy
    <2>1. ToSet(search.queue) = {}
      BY DEF SearchInv, ToSet
    <2>2. LinkedAbove(change.imports, change.tests, search.seen)
      BY <2>1, FollowedIsImported DEF SearchInv, LinkedAbove
    <2>3. \A set : LinkedAbove(change.imports, change.tests, set) => search.seen \subseteq set
      BY DEF SearchInv
    <2>4. search.seen = linked
      BY ONLY <2>2, <2>3 DEF LinkedAbove
    <2>5. search.affected <=> TouchesAll(change.paths) \/ \E p \in linked : Touches(change.paths, p)
      BY <2>4 DEF SearchInv
    <2> HIDE DEF linked
    <2> QED BY ONLY <2>5 DEF TouchesAll, Touches, InputsIn
  <1>3. ProcessInv /\ (golib.command \in {"inventory", "fuzz"} => SelectionInv /\ SearchInv) => ChangeReachesExactly
    BY <1>1, <1>2 DEF ChangeReachesExactly
  <1> QED BY SelectionHolds, <1>3, PTL

-----------------------------------------------------------------------------
(* golib cohesion aggregate. *)

StagedEntries == [existed : BOOLEAN, temporary : BOOLEAN, backup : BOOLEAN, published : BOOLEAN]
Publishers == [phase : CatalogPhases, index : Indices, fresh : Versions \cup {NoFile},
               entry : [Indices -> StagedEntries], trouble : BOOLEAN, result : CatalogResults]
Began(i) == generation.began[i]
Preserved(i) == Began(i) # NoFile => publisher.entry[i].backup \/ directory.target[i] = Began(i)

\* Until the end, whatever the phase: a remembered backup is the artifact as it was, and an
\* artifact that is neither set aside nor published is untouched.
EntriesInOrder ==
    publisher.phase # "done" => \A i \in Indices :
        /\ publisher.entry[i].backup => directory.backup[i] = Began(i) /\ Began(i) # NoFile
        /\ ~publisher.entry[i].backup /\ ~publisher.entry[i].published => directory.target[i] = Began(i)

StagingInOrder ==
    publisher.phase \in {"idle", "stage"} =>
        \A i \in Indices :
            /\ ~publisher.entry[i].backup /\ ~publisher.entry[i].published
            /\ publisher.phase = "stage" /\ i < publisher.index =>
                  /\ publisher.entry[i].existed <=> Began(i) # NoFile
                  /\ directory.temporary[i] = publisher.fresh

SettingAside ==
    /\ publisher.phase \in {"reserve", "vacate", "aside"} =>
          \A i \in Indices :
              /\ publisher.entry[i].existed <=> Began(i) # NoFile
              /\ publisher.entry[i].backup <=> publisher.entry[i].existed /\ i < publisher.index
              /\ ~publisher.entry[i].published /\ directory.temporary[i] = publisher.fresh
    /\ publisher.phase \in {"vacate", "aside"} => Entry.existed

ReplacingInOrder ==
    publisher.phase = "replace" =>
        \A i \in Indices :
            /\ publisher.entry[i].backup <=> Began(i) # NoFile
            /\ publisher.entry[i].published <=> i < publisher.index
            /\ i < publisher.index => directory.target[i] = publisher.fresh
            /\ i >= publisher.index => directory.temporary[i] = publisher.fresh

DiscardingInOrder ==
    publisher.phase = "discard" =>
        \A i \in Indices : /\ directory.target[i] = publisher.fresh /\ publisher.entry[i].published
                           /\ i < publisher.index => ~publisher.entry[i].backup

\* The rollback is past the entries above its index: without trouble those are as
\* they were, and none of the others has lost its backup.
RollingBack ==
    publisher.phase \in {"unpublish", "restore"} =>
        \A i \in Indices :
            /\ Preserved(i)
            /\ i > publisher.index /\ ~publisher.trouble => directory.target[i] = Began(i)
            /\ publisher.phase = "restore" /\ i = publisher.index /\ ~publisher.trouble =>
                  publisher.entry[i].backup \/ directory.target[i] = Began(i)
            /\ \/ i < publisher.index
               \/ i = publisher.index /\ publisher.phase = "unpublish"
               => (publisher.entry[i].published /\ Began(i) # NoFile => publisher.entry[i].backup)

Ending ==
    /\ publisher.phase = "cleanup" =>
          \A i \in Indices : Preserved(i) /\ (~publisher.trouble => directory.target[i] = Began(i))
    /\ publisher.phase = "done" => NothingLost /\ FailureAtomic
    /\ publisher.phase # "done" => publisher.result = "none"

\* NothingLost alone is not inductive: a set may be complete by coincidence, and
\* only what each phase knows of its entries says that the backups are still there.
CatalogInv ==
    /\ CatalogType
    /\ publisher.phase \notin {"idle", "done"} => publisher.fresh \in Versions
    /\ EntriesInOrder /\ StagingInOrder /\ SettingAside /\ ReplacingInOrder /\ DiscardingInOrder
    /\ RollingBack /\ Ending

\* The indices of the artifacts.
LEMMA ArtifactIndices ==
  /\ Len(Artifacts) \in Nat /\ 1 \in Indices /\ Len(Artifacts) \in Indices
  /\ \A i \in Indices : i \in Nat /\ 1 <= i /\ i <= Len(Artifacts)
  /\ \A i \in Indices : i # Len(Artifacts) => i + 1 \in Indices
  /\ \A i \in Indices : i # 1 => i - 1 \in Indices
  BY CatalogAssumption DEF Indices

\* The loop over the entries changes the phase and the index only.
LEMMA NextEntryKeeps ==
  ASSUME NEW memory \in Publishers, memory.index = publisher.index, NEW phase \in CatalogPhases,
         NEW following \in CatalogPhases, NextEntry(memory, phase, following)
  PROVE  /\ publisher' \in Publishers
         /\ publisher'.entry = memory.entry /\ publisher'.fresh = memory.fresh
         /\ publisher'.trouble = memory.trouble /\ publisher'.result = memory.result
         /\ LastEntry => publisher'.phase = following /\ publisher'.index = 1
         /\ ~LastEntry => publisher'.phase = phase /\ publisher'.index = publisher.index + 1
  BY ArtifactIndices DEF NextEntry, Publishers, LastEntry

\* Before the exchange nothing is missing, whichever phase it is.
LEMMA CatalogKeeps == CatalogInv => NothingLost
  <1> SUFFICES ASSUME CatalogInv PROVE NothingLost
    OBVIOUS
  <1>1. CASE publisher.phase = "done"
    BY <1>1 DEF CatalogInv, Ending
  <1>2. CASE publisher.phase = "discard"
    BY <1>2 DEF CatalogInv, DiscardingInOrder, NothingLost, Committed
  <1>3. CASE publisher.phase \notin {"done", "discard"}
    <2>1. \A i \in Indices : Preserved(i)
      BY <1>3 DEF CatalogInv, CatalogType, CatalogPhases, EntriesInOrder, StagingInOrder, SettingAside,
                  ReplacingInOrder, RollingBack, Ending, Preserved
    <2> QED BY <1>3, <2>1 DEF Preserved, Began, CatalogInv, EntriesInOrder, NothingLost
  <1> QED BY <1>1, <1>2, <1>3

\* The first invocation finds a complete set, or a part of one.
LEMMA CatalogStarts == CatalogInit => CatalogInv
  <1> SUFFICES ASSUME CatalogInit PROVE CatalogInv
    OBVIOUS
  <1>1. CatalogType
    BY ArtifactIndices, CatalogAssumption
       DEF CatalogInit, CatalogType, FileContents, CatalogPhases, CatalogResults, Unstaged
  <1>2. /\ publisher.phase = "idle" /\ publisher.result = "none" /\ generation.began = directory.target
        /\ publisher.entry = [i \in Indices |-> Unstaged]
    BY DEF CatalogInit
  <1> QED BY <1>1, <1>2 DEF CatalogInv, EntriesInOrder, StagingInOrder, SettingAside, ReplacingInOrder,
                            DiscardingInOrder, RollingBack, Ending, Began, Unstaged

\* So does a later one, and it begins from what it finds.
LEMMA CatalogBeginsAgain == CatalogInv /\ CatalogAgain => CatalogInv'
  <1> SUFFICES ASSUME CatalogInv, CatalogAgain PROVE CatalogInv'
    OBVIOUS
  <1>1. /\ directory' = [directory EXCEPT
              !.temporary = [i \in Indices |-> NoFile], !.backup = [i \in Indices |-> NoFile],
              !.remnants = [i \in Indices |-> @[i] \cup ({directory.backup[i]} \ {NoFile, Reserved})]]
        /\ publisher' = [phase |-> "idle", index |-> 1, fresh |-> NoFile,
                         entry |-> [i \in Indices |-> Unstaged], trouble |-> FALSE, result |-> "none"]
        /\ generation' = [number |-> generation.number + 1, began |-> directory.target]
        /\ generation.number < MaxGenerations /\ fileFaults' = fileFaults
    BY DEF CatalogAgain, NoFault
  <1>2. CatalogType'
    <2>1. publisher' \in Publishers
      BY <1>1, ArtifactIndices DEF Publishers, StagedEntries, Unstaged, CatalogPhases, CatalogResults
    <2>2. \A i \in Indices : {directory.backup[i]} \ {NoFile, Reserved} \subseteq Versions
      BY DEF CatalogInv, CatalogType, FileContents
    <2>3. directory' \in [target: [Indices -> Versions \cup {NoFile}],
                      temporary: [Indices -> FileContents], backup: [Indices -> FileContents],
                      remnants: [Indices -> SUBSET Versions]]
      BY <1>1, <2>2 DEF CatalogInv, CatalogType, FileContents
    <2>4. generation' \in [number: 1..MaxGenerations, began: [Indices -> Versions \cup {NoFile}]]
      BY <1>1, CatalogAssumption DEF CatalogInv, CatalogType
    <2> QED BY <1>1, <2>1, <2>3, <2>4 DEF CatalogInv, CatalogType, Publishers, StagedEntries
  <1>3. /\ publisher'.phase = "idle" /\ publisher'.result = "none"
        /\ generation'.began = directory'.target /\ publisher'.entry = [i \in Indices |-> Unstaged]
    BY <1>1 DEF CatalogInv, CatalogType
  <1> QED BY <1>2, <1>3 DEF CatalogInv, EntriesInOrder, StagingInOrder, SettingAside, ReplacingInOrder,
                            DiscardingInOrder, RollingBack, Ending, Began, Unstaged

\* The end of an invocation only has to say what it says of the directory.
LEMMA FinishHolds ==
  ASSUME CatalogType', publisher'.phase = "done", NothingLost', FailureAtomic'
  PROVE  CatalogInv'
  BY DEF CatalogInv, EntriesInOrder, StagingInOrder, SettingAside, ReplacingInOrder, DiscardingInOrder,
         RollingBack, Ending

\* An untouched set is the one the invocation began from.
LEMMA UntouchedIsBegun ==
  ASSUME CatalogType, \A i \in Indices : directory.target[i] = Began(i)
  PROVE  directory.target = generation.began
  BY DEF CatalogType, Began

\* The typing of the parts, which every action below changes one or two of.
LEMMA CatalogParts ==
  /\ CatalogType <=>
        /\ directory \in [target: [Indices -> Versions \cup {NoFile}],
                      temporary: [Indices -> FileContents], backup: [Indices -> FileContents],
                      remnants: [Indices -> SUBSET Versions]]
        /\ publisher \in Publishers
        /\ generation \in [number: 1..MaxGenerations, began: [Indices -> Versions \cup {NoFile}]]
        /\ fileFaults \in 0..MaxFileFaults
  /\ CatalogType' <=>
        /\ directory' \in [target: [Indices -> Versions \cup {NoFile}],
                      temporary: [Indices -> FileContents], backup: [Indices -> FileContents],
                      remnants: [Indices -> SUBSET Versions]]
        /\ publisher' \in Publishers
        /\ generation' \in [number: 1..MaxGenerations, began: [Indices -> Versions \cup {NoFile}]]
        /\ fileFaults' \in 0..MaxFileFaults
  /\ CatalogType /\ (Fault \/ NoFault) => fileFaults' \in 0..MaxFileFaults
  <1>1. ASSUME CatalogType, Fault \/ NoFault PROVE fileFaults' \in 0..MaxFileFaults
    BY <1>1, CatalogAssumption DEF CatalogType, Fault, NoFault
  <1> QED BY <1>1 DEF CatalogType, Publishers, StagedEntries

\* Rendering, and the comparison that golib cohesion aggregate --check makes.
LEMMA AggregateNext == CatalogInv /\ (Aggregate \/ CheckAggregate) => CatalogInv'
  <1> SUFFICES ASSUME CatalogInv, Aggregate \/ CheckAggregate PROVE CatalogInv'
    OBVIOUS
  <1>1. /\ directory' = directory /\ generation' = generation /\ fileFaults' = fileFaults
        /\ CatalogType /\ publisher.phase \in {"idle", "stage"}
    BY DEF CatalogInv, Aggregate, CheckAggregate, NoFault, At
  <1>2. /\ \A i \in Indices : directory.target[i] = Began(i) /\ ~publisher.entry[i].backup
        /\ directory.target = generation.began
    BY <1>1, UntouchedIsBegun DEF CatalogInv, EntriesInOrder, StagingInOrder
  <1>3. ASSUME NEW result \in {"passed", "refused"}, Finish(publisher, result),
               result = "passed" => \A i \in Indices : directory.target[i] = publisher.fresh
        PROVE  CatalogInv'
    <2>1. publisher' = [publisher EXCEPT !.phase = "done", !.result = result]
      BY <1>3 DEF Finish
    <2>2. /\ publisher'.phase = "done" /\ publisher'.result = result /\ publisher'.fresh = publisher.fresh
          /\ publisher'.entry = publisher.entry /\ publisher' \in Publishers
      BY <1>1, <2>1 DEF CatalogType, Publishers, StagedEntries, CatalogPhases, CatalogResults
    <2>3. CatalogType'
      BY <1>1, <2>2, CatalogParts
    <2>4. NothingLost'
      BY <1>1, <1>2 DEF NothingLost, Began
    <2>5. FailureAtomic'
      BY <1>1, <1>2, <1>3, <2>2 DEF FailureAtomic, Committed
    <2> QED BY <2>2, <2>3, <2>4, <2>5, FinishHolds
  <1>4. ASSUME NEW version \in Versions, At("idle"),
               publisher' = [publisher EXCEPT !.phase = "stage", !.index = 1, !.fresh = version]
        PROVE  CatalogInv'
    <2>1. /\ publisher'.phase = "stage" /\ publisher'.index = 1 /\ publisher'.fresh = version
          /\ publisher'.entry = publisher.entry /\ publisher'.result = publisher.result
          /\ publisher' \in Publishers
      BY <1>1, <1>4, ArtifactIndices DEF CatalogType, Publishers, StagedEntries, CatalogPhases
    <2>2. CatalogType'
      BY <1>1, <2>1, CatalogParts
    <2>3. StagingInOrder'
      BY <1>1, <1>4, <2>1, ArtifactIndices DEF CatalogInv, StagingInOrder, At
    <2> QED BY <1>1, <1>2, <1>4, <2>1, <2>2, <2>3
            DEF CatalogInv, EntriesInOrder, SettingAside, ReplacingInOrder, DiscardingInOrder,
                RollingBack, Ending, Began, At
  <1>5. CASE Aggregate
    BY <1>3, <1>4, <1>5 DEF Aggregate
  <1>6. CASE CheckAggregate
    BY <1>3, <1>6 DEF CheckAggregate
  <1> QED BY <1>5, <1>6

\* The temporary file of the entry is written, or the staging is given up.
LEMMA StageNext == CatalogInv /\ Stage => CatalogInv'
  <1> SUFFICES ASSUME CatalogInv, Stage PROVE CatalogInv'
    OBVIOUS
  <1>1. /\ publisher.phase = "stage" /\ generation' = generation /\ CatalogType /\ publisher \in Publishers
        /\ publisher.fresh \in Versions /\ publisher.result = "none" /\ publisher.index \in Indices
        /\ fileFaults' \in 0..MaxFileFaults
    BY CatalogParts DEF CatalogInv, Stage, At, Ending, Publishers
  <1>2. \A i \in Indices : /\ directory.target[i] = Began(i)
                           /\ ~publisher.entry[i].backup /\ ~publisher.entry[i].published
                           /\ i < publisher.index =>
                                 /\ publisher.entry[i].existed <=> Began(i) # NoFile
                                 /\ directory.temporary[i] = publisher.fresh
    BY <1>1 DEF CatalogInv, EntriesInOrder, StagingInOrder
  <1>3. ASSUME NEW content \in {NoFile, Reserved, publisher.fresh}, File("temporary", content)
        PROVE  /\ directory' \in [target: [Indices -> Versions \cup {NoFile}],
                      temporary: [Indices -> FileContents], backup: [Indices -> FileContents],
                      remnants: [Indices -> SUBSET Versions]]
               /\ directory'.target = directory.target /\ directory'.backup = directory.backup
               /\ directory'.temporary = [directory.temporary EXCEPT ![publisher.index] = content]
    BY <1>1, <1>3 DEF CatalogType, File, FileContents
  <1>4. ASSUME NEW left \in {NoFile, Reserved}, File("temporary", left),
               publisher' = [publisher EXCEPT !.phase = "cleanup", !.index = 1]
        PROVE  CatalogInv'
    <2>1. /\ publisher'.phase = "cleanup" /\ publisher'.fresh = publisher.fresh
          /\ publisher'.entry = publisher.entry /\ publisher'.result = publisher.result
          /\ publisher' \in Publishers
      BY <1>1, <1>4, ArtifactIndices DEF Publishers, StagedEntries, CatalogPhases
    <2>2. CatalogType' /\ directory'.target = directory.target
      BY <1>1, <1>3, <1>4, <2>1, CatalogParts
    <2> QED BY <1>1, <1>2, <2>1, <2>2
            DEF CatalogInv, EntriesInOrder, StagingInOrder, SettingAside, ReplacingInOrder,
                DiscardingInOrder, RollingBack, Ending, Began, Preserved
  <1>5. ASSUME File("temporary", publisher.fresh),
               NextEntry([publisher EXCEPT !.entry[publisher.index] =
                           [Unstaged EXCEPT !.existed = directory.target[publisher.index] # NoFile,
                                            !.temporary = TRUE]], "stage", "reserve")
        PROVE  CatalogInv'
    <2> DEFINE staged == [Unstaged EXCEPT !.existed = directory.target[publisher.index] # NoFile,
                                          !.temporary = TRUE]
               memory == [publisher EXCEPT !.entry[publisher.index] = staged]
    <2>1. /\ staged \in StagedEntries /\ ~staged.backup /\ ~staged.published
          /\ (staged.existed <=> directory.target[publisher.index] # NoFile)
      BY DEF Unstaged, StagedEntries
    <2> HIDE DEF staged
    <2>2. /\ memory \in Publishers /\ memory.index = publisher.index /\ memory.fresh = publisher.fresh
          /\ memory.entry = [publisher.entry EXCEPT ![publisher.index] = staged]
          /\ memory.result = "none"
      BY <1>1, <2>1 DEF Publishers
    <2>3. NextEntry(memory, "stage", "reserve")
      BY <1>5 DEF staged
    <2> HIDE DEF memory
    <2>4. /\ publisher' \in Publishers /\ publisher'.fresh = publisher.fresh /\ publisher'.result = "none"
          /\ publisher'.entry = [publisher.entry EXCEPT ![publisher.index] = staged]
          /\ LastEntry => publisher'.phase = "reserve" /\ publisher'.index = 1
          /\ ~LastEntry => publisher'.phase = "stage" /\ publisher'.index = publisher.index + 1
      BY <2>2, <2>3, NextEntryKeeps DEF CatalogPhases
    <2>5. /\ CatalogType' /\ directory'.target = directory.target
          /\ directory'.temporary = [directory.temporary EXCEPT ![publisher.index] = publisher.fresh]
      BY <1>1, <1>3, <1>5, <2>4, CatalogParts
    <2>6. \A i \in Indices : /\ ~publisher'.entry[i].backup /\ ~publisher'.entry[i].published
                             /\ i <= publisher.index =>
                                   /\ publisher'.entry[i].existed <=> Began(i) # NoFile
                                   /\ directory'.temporary[i] = publisher.fresh
      <3> TAKE i \in Indices
      <3>1. publisher.entry \in [Indices -> StagedEntries] /\ directory.temporary \in [Indices -> FileContents]
        BY <1>1 DEF Publishers, CatalogType
      <3>2. CASE i = publisher.index
        BY <1>2, <2>1, <2>4, <2>5, <3>1, <3>2
      <3>3. CASE i # publisher.index
        <4>1. i <= publisher.index => i < publisher.index
          BY <1>1, <3>3, ArtifactIndices
        <4> QED BY <1>2, <2>4, <2>5, <3>1, <3>3, <4>1
      <3> QED BY <3>2, <3>3
    <2>7. /\ \A i \in Indices : LastEntry => i <= publisher.index
          /\ \A i \in Indices : i < publisher.index + 1 => i <= publisher.index
          /\ \A i \in Indices : ~(i < 1)
      BY <1>1, ArtifactIndices DEF LastEntry
    <2>8. EntriesInOrder'
      BY <1>1, <1>2, <2>5, <2>6 DEF EntriesInOrder, Began
    <2>9. CASE LastEntry
      <3>1. SettingAside'
        BY <1>1, <2>4, <2>6, <2>7, <2>9 DEF SettingAside, Began
      <3> QED BY <1>1, <2>4, <2>5, <2>8, <2>9, <3>1
              DEF CatalogInv, StagingInOrder, ReplacingInOrder, DiscardingInOrder, RollingBack, Ending
    <2>10. CASE ~LastEntry
      <3>1. StagingInOrder'
        BY <1>1, <2>4, <2>6, <2>7, <2>10 DEF StagingInOrder, Began
      <3> QED BY <1>1, <2>4, <2>5, <2>8, <2>10, <3>1
              DEF CatalogInv, SettingAside, ReplacingInOrder, DiscardingInOrder, RollingBack, Ending
    <2> QED BY <2>9, <2>10
  <1> QED BY <1>4, <1>5 DEF Stage

\* A failing operation of the exchange: every artifact is untouched, or set aside,
\* or published with its backup, when the rollback begins.
LEMMA RollBackBegins ==
  ASSUME CatalogInv, publisher.phase \in {"reserve", "vacate", "aside", "replace"}, RollBack,
         CatalogType', directory'.target = directory.target, generation' = generation,
         \A i \in Indices : publisher.entry[i].backup => directory'.backup[i] = directory.backup[i]
  PROVE  CatalogInv'
  <1>1. /\ publisher'.phase = "unpublish" /\ publisher'.index = Len(Artifacts)
        /\ publisher'.entry = publisher.entry /\ publisher'.fresh = publisher.fresh
        /\ publisher'.result = "none"
    BY DEF CatalogInv, CatalogType, RollBack, Ending
  <1>2. \A i \in Indices : ~(i > publisher'.index)
    BY <1>1, ArtifactIndices
  <1>3. EntriesInOrder'
    BY <1>1 DEF CatalogInv, EntriesInOrder, Began
  <1>4. ASSUME NEW i \in Indices
        PROVE  /\ Began(i) # NoFile => publisher.entry[i].backup \/ directory.target[i] = Began(i)
               /\ publisher.entry[i].published /\ Began(i) # NoFile => publisher.entry[i].backup
    BY DEF CatalogInv, EntriesInOrder, SettingAside, ReplacingInOrder
  <1>5. RollingBack'
    BY <1>1, <1>2, <1>4 DEF RollingBack, Preserved, Began
  <1> QED BY <1>1, <1>3, <1>5
          DEF CatalogInv, StagingInOrder, SettingAside, ReplacingInOrder, DiscardingInOrder, Ending

\* Files other than the entry's stay as they are.
LEMMA FileChanges ==
  ASSUME CatalogType, NEW kind \in {"target", "temporary", "backup"}, NEW content \in FileContents,
         kind = "target" => content # Reserved, File(kind, content)
  PROVE  /\ directory' \in [target: [Indices -> Versions \cup {NoFile}],
                      temporary: [Indices -> FileContents], backup: [Indices -> FileContents],
                      remnants: [Indices -> SUBSET Versions]]
         /\ directory'.target = IF kind = "target" THEN [directory.target EXCEPT ![publisher.index] = content]
                                ELSE directory.target
         /\ directory'.temporary = IF kind = "temporary" THEN [directory.temporary EXCEPT ![publisher.index] = content]
                                   ELSE directory.temporary
         /\ directory'.backup = IF kind = "backup" THEN [directory.backup EXCEPT ![publisher.index] = content]
                                ELSE directory.backup
  <1>1. CASE kind = "target"
    BY <1>1 DEF CatalogType, File, FileContents
  <1>2. CASE kind = "temporary"
    BY <1>2 DEF CatalogType, File, FileContents
  <1>3. CASE kind = "backup"
    BY <1>3 DEF CatalogType, File, FileContents
  <1> QED BY <1>1, <1>2, <1>3

\* A backup's name is reserved only for an artifact that exists.
LEMMA ReserveNext == CatalogInv /\ (Reserve \/ Vacate) => CatalogInv'
  <1> SUFFICES ASSUME CatalogInv, Reserve \/ Vacate PROVE CatalogInv'
    OBVIOUS
  <1>1. /\ publisher.phase \in {"reserve", "vacate"} /\ generation' = generation /\ CatalogType
        /\ publisher \in Publishers /\ publisher.fresh \in Versions /\ publisher.result = "none"
        /\ publisher.index \in Indices /\ fileFaults' \in 0..MaxFileFaults
    BY CatalogParts DEF CatalogInv, Reserve, Vacate, At, Ending, Publishers
  <1>2. \A i \in Indices : /\ publisher.entry[i].existed <=> Began(i) # NoFile
                           /\ publisher.entry[i].backup <=> publisher.entry[i].existed /\ i < publisher.index
                           /\ ~publisher.entry[i].published
                           /\ directory.temporary[i] = publisher.fresh
                           /\ publisher.entry[i].backup => directory.backup[i] = Began(i)
                           /\ ~publisher.entry[i].backup => directory.target[i] = Began(i)
    BY <1>1 DEF CatalogInv, EntriesInOrder, SettingAside
  <1>3. ~publisher.entry[publisher.index].backup
    BY <1>1, <1>2, ArtifactIndices
  <1>4. ASSUME NEW left \in {NoFile, Reserved}, File("backup", left)
        PROVE  /\ directory' \in [target: [Indices -> Versions \cup {NoFile}],
                      temporary: [Indices -> FileContents], backup: [Indices -> FileContents],
                      remnants: [Indices -> SUBSET Versions]]
               /\ directory'.target = directory.target /\ directory'.temporary = directory.temporary
               /\ \A i \in Indices : publisher.entry[i].backup => directory'.backup[i] = directory.backup[i]
    <2>1. left \in FileContents
      BY DEF FileContents
    <2>2. /\ directory' \in [target: [Indices -> Versions \cup {NoFile}],
                      temporary: [Indices -> FileContents], backup: [Indices -> FileContents],
                      remnants: [Indices -> SUBSET Versions]]
          /\ directory'.target = directory.target /\ directory'.temporary = directory.temporary
          /\ directory'.backup = [directory.backup EXCEPT ![publisher.index] = left]
      BY <1>1, <1>4, <2>1, FileChanges
    <2> QED BY <1>1, <1>3, <2>2 DEF CatalogType
  <1>5. ASSUME RollBack, UNCHANGED directory \/ \E left \in {NoFile, Reserved} : File("backup", left)
        PROVE  CatalogInv'
    <2>1. publisher' \in Publishers
      BY <1>1, <1>5, ArtifactIndices DEF RollBack, Publishers, CatalogPhases
    <2>2. /\ directory'.target = directory.target
          /\ \A i \in Indices : publisher.entry[i].backup => directory'.backup[i] = directory.backup[i]
      BY <1>4, <1>5
    <2>3. CatalogType'
      BY <1>1, <1>4, <1>5, <2>1, CatalogParts
    <2> QED BY <1>1, <1>5, <2>2, <2>3, RollBackBegins
  <1>6. ASSUME NEW left \in {NoFile, Reserved}, File("backup", left), Entry.existed,
               NEW phase \in {"vacate", "aside"}, publisher' = [publisher EXCEPT !.phase = phase]
        PROVE  CatalogInv'
    <2>1. /\ publisher'.phase = phase /\ publisher'.index = publisher.index /\ publisher'.fresh = publisher.fresh
          /\ publisher'.entry = publisher.entry /\ publisher'.result = "none" /\ publisher' \in Publishers
      BY <1>1, <1>6 DEF Publishers, CatalogPhases
    <2>2. CatalogType'
      BY <1>1, <1>4, <1>6, <2>1, CatalogParts
    <2>3. EntriesInOrder'
      BY <1>1, <1>2, <1>4, <1>6, <2>1 DEF CatalogInv, EntriesInOrder, Began
    <2>4. SettingAside'
      BY <1>1, <1>2, <1>4, <1>6, <2>1 DEF SettingAside, Began, Entry
    <2> QED BY <1>1, <1>6, <2>1, <2>2, <2>3, <2>4
            DEF CatalogInv, StagingInOrder, ReplacingInOrder, DiscardingInOrder, RollingBack, Ending
  <1>7. ASSUME At("reserve"), ~Entry.existed, NextEntry(publisher, "reserve", "replace"), UNCHANGED directory
        PROVE  CatalogInv'
    <2>1. /\ publisher' \in Publishers /\ publisher'.fresh = publisher.fresh /\ publisher'.result = "none"
          /\ publisher'.entry = publisher.entry
          /\ LastEntry => publisher'.phase = "replace" /\ publisher'.index = 1
          /\ ~LastEntry => publisher'.phase = "reserve" /\ publisher'.index = publisher.index + 1
      BY <1>1, <1>7, NextEntryKeeps DEF CatalogPhases
    <2>2. CatalogType'
      BY <1>1, <1>7, <2>1, CatalogParts
    <2>3. EntriesInOrder'
      BY <1>1, <1>7, <2>1 DEF CatalogInv, EntriesInOrder, Began
    <2>4. \A i \in Indices : /\ LastEntry => i <= publisher.index
                             /\ i < publisher.index + 1 <=> i <= publisher.index
                             /\ i <= publisher.index => i < publisher.index \/ i = publisher.index
                             /\ i < publisher.index => i <= publisher.index
                             /\ ~(i < 1) /\ i >= 1
      BY <1>1, ArtifactIndices DEF LastEntry
    <2>5. \A i \in Indices : publisher.entry[i].backup <=> publisher.entry[i].existed /\ i <= publisher.index
      BY <1>2, <1>7, <2>4 DEF Entry
    <2>6. CASE LastEntry
      <3>1. ReplacingInOrder'
        <4>1. ASSUME NEW i \in Indices
              PROVE  /\ publisher.entry[i].backup <=> Began(i) # NoFile
                     /\ ~publisher.entry[i].published /\ ~(i < 1)
                     /\ directory.temporary[i] = publisher.fresh
          BY <1>2, <2>4, <2>5, <2>6
        <4> QED BY <1>1, <1>7, <2>1, <2>6, <4>1 DEF ReplacingInOrder, Began
      <3> QED BY <1>1, <2>1, <2>2, <2>3, <2>6, <3>1
              DEF CatalogInv, StagingInOrder, SettingAside, DiscardingInOrder, RollingBack, Ending
    <2>7. CASE ~LastEntry
      <3>1. SettingAside'
        BY <1>1, <1>2, <1>7, <2>1, <2>4, <2>5, <2>7 DEF SettingAside, Began
      <3> QED BY <1>1, <2>1, <2>2, <2>3, <2>7, <3>1
              DEF CatalogInv, StagingInOrder, ReplacingInOrder, DiscardingInOrder, RollingBack, Ending
    <2> QED BY <2>6, <2>7
  <1>8. CASE Reserve
    BY <1>5, <1>6, <1>7, <1>8 DEF Reserve
  <1>9. CASE Vacate
    <2>1. Entry.existed
      BY <1>9 DEF Vacate, At, CatalogInv, SettingAside
    <2> QED BY <1>5, <1>6, <1>9, <2>1 DEF Vacate
  <1> QED BY <1>8, <1>9

\* The artifact moves to its backup.
LEMMA SetAsideNext == CatalogInv /\ SetAside => CatalogInv'
  <1> SUFFICES ASSUME CatalogInv, SetAside PROVE CatalogInv'
    OBVIOUS
  <1>1. /\ publisher.phase = "aside" /\ generation' = generation /\ CatalogType
        /\ publisher \in Publishers /\ publisher.fresh \in Versions /\ publisher.result = "none"
        /\ publisher.index \in Indices /\ fileFaults' \in 0..MaxFileFaults
    BY CatalogParts DEF CatalogInv, SetAside, At, Ending, Publishers
  <1>2. \A i \in Indices : /\ publisher.entry[i].existed <=> Began(i) # NoFile
                           /\ publisher.entry[i].backup <=> publisher.entry[i].existed /\ i < publisher.index
                           /\ ~publisher.entry[i].published
                           /\ directory.temporary[i] = publisher.fresh
                           /\ publisher.entry[i].backup => directory.backup[i] = Began(i)
                           /\ ~publisher.entry[i].backup => directory.target[i] = Began(i)
    BY <1>1 DEF CatalogInv, EntriesInOrder, SettingAside
  <1>3. /\ publisher.entry[publisher.index].existed /\ Began(publisher.index) # NoFile
        /\ directory.target[publisher.index] = Began(publisher.index)
    <2>1. publisher.entry[publisher.index].existed /\ ~(publisher.index < publisher.index)
      BY <1>1, ArtifactIndices DEF CatalogInv, SettingAside, Entry
    <2> QED BY <1>1, <1>2, <2>1
  <1>4. ASSUME RollBack, UNCHANGED directory PROVE CatalogInv'
    <2>1. publisher' \in Publishers
      BY <1>1, <1>4, ArtifactIndices DEF RollBack, Publishers, CatalogPhases
    <2>2. CatalogType'
      BY <1>1, <1>4, <2>1, CatalogParts
    <2> QED BY <1>1, <1>4, <2>2, RollBackBegins
  <1>5. ASSUME Moved("target", "backup"), NextEntry(Remember("backup", TRUE), "reserve", "replace")
        PROVE  CatalogInv'
    <2> DEFINE aside == [publisher.entry[publisher.index] EXCEPT !.backup = TRUE]
    <2>1. /\ aside \in StagedEntries /\ aside.backup
          /\ aside.existed = publisher.entry[publisher.index].existed
          /\ aside.published = publisher.entry[publisher.index].published
      BY <1>1 DEF Publishers, StagedEntries
    <2>2. /\ Remember("backup", TRUE) \in Publishers /\ Remember("backup", TRUE).index = publisher.index
          /\ Remember("backup", TRUE).fresh = publisher.fresh /\ Remember("backup", TRUE).result = "none"
          /\ Remember("backup", TRUE).entry = [publisher.entry EXCEPT ![publisher.index] = aside]
      BY <1>1, <2>1 DEF Publishers, Remember
    <2> HIDE DEF aside
    <2>3. /\ publisher' \in Publishers /\ publisher'.fresh = publisher.fresh /\ publisher'.result = "none"
          /\ publisher'.entry = [publisher.entry EXCEPT ![publisher.index] = aside]
          /\ LastEntry => publisher'.phase = "replace" /\ publisher'.index = 1
          /\ ~LastEntry => publisher'.phase = "reserve" /\ publisher'.index = publisher.index + 1
      BY <1>5, <2>2, NextEntryKeeps DEF CatalogPhases
    <2>4. /\ directory' \in [target: [Indices -> Versions \cup {NoFile}],
                      temporary: [Indices -> FileContents], backup: [Indices -> FileContents],
                      remnants: [Indices -> SUBSET Versions]]
          /\ directory'.target = [directory.target EXCEPT ![publisher.index] = NoFile]
          /\ directory'.backup = [directory.backup EXCEPT ![publisher.index] = Began(publisher.index)]
          /\ directory'.temporary = directory.temporary
      BY <1>1, <1>3, <1>5 DEF CatalogType, Moved, FileContents
    <2>5. CatalogType'
      BY <1>1, <2>3, <2>4, CatalogParts
    <2>6. \A i \in Indices : /\ LastEntry => i <= publisher.index
                             /\ i < publisher.index + 1 <=> i <= publisher.index
                             /\ i <= publisher.index => i < publisher.index \/ i = publisher.index
                             /\ i < publisher.index => i <= publisher.index
                             /\ ~(i < 1) /\ i >= 1
      BY <1>1, ArtifactIndices DEF LastEntry
    <2>7. ASSUME NEW i \in Indices
          PROVE  /\ publisher'.entry[i].existed <=> Began(i) # NoFile
                 /\ publisher'.entry[i].backup <=> publisher'.entry[i].existed /\ i <= publisher.index
                 /\ ~publisher'.entry[i].published
                 /\ publisher'.entry[i].backup => directory'.backup[i] = Began(i)
                 /\ ~publisher'.entry[i].backup => directory'.target[i] = Began(i)
      <3>1. CASE i = publisher.index
        <4>1. publisher'.entry[i] = aside /\ directory'.backup[i] = Began(publisher.index)
          BY <1>1, <2>3, <2>4, <3>1 DEF CatalogType, Publishers
        <4>2. Began(i) = Began(publisher.index) /\ i <= publisher.index
          BY <1>1, <3>1, ArtifactIndices DEF Began
        <4>3. aside.existed /\ ~aside.published
          BY <1>1, <1>2, <1>3, <2>1
        <4> QED BY <1>3, <2>1, <4>1, <4>2, <4>3
      <3>2. CASE i # publisher.index
        BY <1>1, <1>2, <2>3, <2>4, <2>6, <3>2 DEF CatalogType, Publishers
      <3> QED BY <3>1, <3>2
    <2>8. EntriesInOrder'
      BY <1>1, <2>7 DEF EntriesInOrder, Began
    <2>9. CASE LastEntry
      <3>1. ReplacingInOrder'
        BY <1>1, <1>2, <2>3, <2>4, <2>6, <2>7, <2>9 DEF ReplacingInOrder, Began
      <3> QED BY <1>1, <2>3, <2>5, <2>8, <2>9, <3>1
              DEF CatalogInv, StagingInOrder, SettingAside, DiscardingInOrder, RollingBack, Ending
    <2>10. CASE ~LastEntry
      <3>1. SettingAside'
        BY <1>1, <1>2, <2>3, <2>4, <2>6, <2>7, <2>10 DEF SettingAside, Began
      <3> QED BY <1>1, <2>3, <2>5, <2>8, <2>10, <3>1
              DEF CatalogInv, StagingInOrder, ReplacingInOrder, DiscardingInOrder, RollingBack, Ending
    <2> QED BY <2>9, <2>10
  <1> QED BY <1>4, <1>5 DEF SetAside

\* The rendered artifact takes the place of the one that was set aside.
LEMMA ReplaceNext == CatalogInv /\ Replace => CatalogInv'
  <1> SUFFICES ASSUME CatalogInv, Replace PROVE CatalogInv'
    OBVIOUS
  <1>1. /\ publisher.phase = "replace" /\ generation' = generation /\ CatalogType
        /\ publisher \in Publishers /\ publisher.fresh \in Versions /\ publisher.result = "none"
        /\ publisher.index \in Indices /\ fileFaults' \in 0..MaxFileFaults
    BY CatalogParts DEF CatalogInv, Replace, At, Ending, Publishers
  <1>2. \A i \in Indices : /\ publisher.entry[i].backup <=> Began(i) # NoFile
                           /\ publisher.entry[i].published <=> i < publisher.index
                           /\ i < publisher.index => directory.target[i] = publisher.fresh
                           /\ i >= publisher.index => directory.temporary[i] = publisher.fresh
                           /\ publisher.entry[i].backup => directory.backup[i] = Began(i)
                           /\ ~publisher.entry[i].backup /\ ~publisher.entry[i].published =>
                                 directory.target[i] = Began(i)
    BY <1>1 DEF CatalogInv, EntriesInOrder, ReplacingInOrder
  <1>3. directory.temporary[publisher.index] = publisher.fresh
    BY <1>1, <1>2, ArtifactIndices
  <1>4. ASSUME RollBack, UNCHANGED directory PROVE CatalogInv'
    <2>1. publisher' \in Publishers
      BY <1>1, <1>4, ArtifactIndices DEF RollBack, Publishers, CatalogPhases
    <2>2. CatalogType'
      BY <1>1, <1>4, <2>1, CatalogParts
    <2> QED BY <1>1, <1>4, <2>2, RollBackBegins
  <1>5. ASSUME Moved("temporary", "target"),
               NextEntry([publisher EXCEPT !.entry[publisher.index].temporary = FALSE,
                                           !.entry[publisher.index].published = TRUE],
                         "replace", "discard")
        PROVE  CatalogInv'
    <2> DEFINE replaced == [publisher.entry[publisher.index] EXCEPT !.temporary = FALSE, !.published = TRUE]
               memory == [publisher EXCEPT !.entry[publisher.index].temporary = FALSE,
                                           !.entry[publisher.index].published = TRUE]
    <2>1. /\ replaced \in StagedEntries /\ replaced.published
          /\ replaced.backup = publisher.entry[publisher.index].backup
      BY <1>1 DEF Publishers, StagedEntries
    <2>2. /\ memory \in Publishers /\ memory.index = publisher.index
          /\ memory.fresh = publisher.fresh /\ memory.result = "none"
          /\ memory.entry = [publisher.entry EXCEPT ![publisher.index] = replaced]
      <3> DEFINE emptied == [publisher.entry[publisher.index] EXCEPT !.temporary = FALSE]
                 first == [publisher EXCEPT !.entry[publisher.index].temporary = FALSE]
      <3>1. emptied \in StagedEntries /\ replaced = [emptied EXCEPT !.published = TRUE]
        BY <1>1 DEF Publishers, StagedEntries
      <3>2. first = [publisher EXCEPT !.entry = [publisher.entry EXCEPT ![publisher.index] = emptied]]
        BY <1>1 DEF Publishers
      <3> HIDE DEF emptied
      <3>3. /\ first \in Publishers /\ first.index = publisher.index /\ first.fresh = publisher.fresh
            /\ first.result = "none" /\ first.entry = [publisher.entry EXCEPT ![publisher.index] = emptied]
        BY <1>1, <3>1, <3>2 DEF Publishers
      <3>4. memory = [first EXCEPT !.entry[publisher.index].published = TRUE]
        OBVIOUS
      <3> HIDE DEF first, memory, replaced
      <3>5. first.entry[publisher.index] = emptied
        BY <1>1, <3>3 DEF Publishers
      <3>6. memory = [first EXCEPT !.entry = [first.entry EXCEPT ![publisher.index] = replaced]]
        BY <3>1, <3>3, <3>4, <3>5
      <3>7. [first.entry EXCEPT ![publisher.index] = replaced] = [publisher.entry EXCEPT ![publisher.index] = replaced]
        BY <1>1, <3>3 DEF Publishers
      <3> QED BY <1>1, <2>1, <3>3, <3>6, <3>7 DEF Publishers
    <2>3. NextEntry(memory, "replace", "discard")
      BY <1>5
    <2> HIDE DEF replaced, memory
    <2>4. /\ publisher' \in Publishers /\ publisher'.fresh = publisher.fresh /\ publisher'.result = "none"
          /\ publisher'.entry = [publisher.entry EXCEPT ![publisher.index] = replaced]
          /\ LastEntry => publisher'.phase = "discard" /\ publisher'.index = 1
          /\ ~LastEntry => publisher'.phase = "replace" /\ publisher'.index = publisher.index + 1
      BY <2>2, <2>3, NextEntryKeeps DEF CatalogPhases
    <2>5. /\ directory' \in [target: [Indices -> Versions \cup {NoFile}],
                      temporary: [Indices -> FileContents], backup: [Indices -> FileContents],
                      remnants: [Indices -> SUBSET Versions]]
          /\ directory'.target = [directory.target EXCEPT ![publisher.index] = publisher.fresh]
          /\ directory'.temporary = [directory.temporary EXCEPT ![publisher.index] = NoFile]
          /\ directory'.backup = directory.backup
      BY <1>1, <1>3, <1>5 DEF CatalogType, Moved, FileContents
    <2>6. CatalogType'
      BY <1>1, <2>4, <2>5, CatalogParts
    <2>7. \A i \in Indices : /\ LastEntry => i <= publisher.index
                             /\ i < publisher.index + 1 <=> i <= publisher.index
                             /\ i >= publisher.index + 1 => i >= publisher.index /\ i # publisher.index
                             /\ i # publisher.index => (i <= publisher.index <=> i < publisher.index)
                             /\ publisher.index <= publisher.index
                             /\ ~(i < 1)
      BY <1>1, ArtifactIndices DEF LastEntry
    <2>8. ASSUME NEW i \in Indices
          PROVE  /\ publisher'.entry[i].backup <=> Began(i) # NoFile
                 /\ publisher'.entry[i].published <=> i <= publisher.index
                 /\ i <= publisher.index => directory'.target[i] = publisher.fresh
                 /\ i >= publisher.index + 1 => directory'.temporary[i] = publisher.fresh
                 /\ publisher'.entry[i].backup => directory'.backup[i] = Began(i)
                 /\ ~publisher'.entry[i].backup /\ ~publisher'.entry[i].published =>
                       directory'.target[i] = Began(i)
      <3>1. CASE i = publisher.index
        <4>1. publisher'.entry[i] = replaced /\ directory'.target[i] = publisher.fresh
          BY <1>1, <2>4, <2>5, <3>1 DEF CatalogType, Publishers
        <4>2. replaced.backup <=> publisher.entry[i].backup
          BY <2>1, <3>1
        <4>3. i <= publisher.index /\ ~(i >= publisher.index + 1)
          BY <2>7, <3>1
        <4> QED BY <1>2, <2>1, <2>5, <4>1, <4>2, <4>3
      <3>2. CASE i # publisher.index
        <4>1. /\ publisher'.entry[i] = publisher.entry[i] /\ directory'.target[i] = directory.target[i]
              /\ directory'.temporary[i] = directory.temporary[i]
          BY <1>1, <2>4, <2>5, <3>2 DEF CatalogType, Publishers
        <4> QED BY <1>2, <2>5, <2>7, <3>2, <4>1
      <3> QED BY <3>1, <3>2
    <2>9. EntriesInOrder'
      BY <1>1, <2>8 DEF EntriesInOrder, Began
    <2>10. CASE LastEntry
      <3>1. DiscardingInOrder'
        BY <2>4, <2>7, <2>8, <2>10 DEF DiscardingInOrder
      <3> QED BY <1>1, <2>4, <2>6, <2>9, <2>10, <3>1
              DEF CatalogInv, StagingInOrder, SettingAside, ReplacingInOrder, RollingBack, Ending
    <2>11. CASE ~LastEntry
      <3>1. ReplacingInOrder'
        BY <1>1, <2>4, <2>7, <2>8, <2>11 DEF ReplacingInOrder, Began
      <3> QED BY <1>1, <2>4, <2>6, <2>9, <2>11, <3>1
              DEF CatalogInv, StagingInOrder, SettingAside, DiscardingInOrder, RollingBack, Ending
    <2> QED BY <2>10, <2>11
  <1> QED BY <1>4, <1>5 DEF Replace

\* The set is complete: its backups go, one by one.
LEMMA DiscardNext == CatalogInv /\ Discard => CatalogInv'
  <1> SUFFICES ASSUME CatalogInv, Discard PROVE CatalogInv'
    OBVIOUS
  <1>1. /\ publisher.phase = "discard" /\ generation' = generation /\ CatalogType
        /\ publisher \in Publishers /\ publisher.fresh \in Versions /\ publisher.result = "none"
        /\ publisher.index \in Indices /\ fileFaults' \in 0..MaxFileFaults
    BY CatalogParts DEF CatalogInv, Discard, At, Ending, Publishers
  <1>2. \A i \in Indices : /\ directory.target[i] = publisher.fresh /\ publisher.entry[i].published
                           /\ i < publisher.index => ~publisher.entry[i].backup
                           /\ publisher.entry[i].backup => directory.backup[i] = Began(i) /\ Began(i) # NoFile
    BY <1>1 DEF CatalogInv, EntriesInOrder, DiscardingInOrder
  <1>3. ASSUME Finish(publisher, "undiscarded"), UNCHANGED directory PROVE CatalogInv'
    <2>1. /\ publisher'.phase = "done" /\ publisher'.result = "undiscarded"
          /\ publisher'.fresh = publisher.fresh /\ publisher' \in Publishers
      BY <1>1, <1>3 DEF Finish, Publishers, CatalogPhases, CatalogResults
    <2>2. CatalogType'
      BY <1>1, <1>3, <2>1, CatalogParts
    <2>3. Committed'
      BY <1>2, <1>3, <2>1 DEF Committed
    <2>4. FailureAtomic' /\ NothingLost'
      BY <2>1, <2>3 DEF FailureAtomic, NothingLost
    <2> QED BY <2>1, <2>2, <2>4, FinishHolds
  <1>4. ASSUME IF Entry.backup THEN File("backup", NoFile) ELSE UNCHANGED directory,
               IF LastEntry THEN Finish(Remember("backup", FALSE), "passed")
                            ELSE NextEntry(Remember("backup", FALSE), "discard", "done")
        PROVE  CatalogInv'
    <2> DEFINE bare == [publisher.entry[publisher.index] EXCEPT !.backup = FALSE]
    <2>1. /\ bare \in StagedEntries /\ ~bare.backup
          /\ bare.published = publisher.entry[publisher.index].published
      BY <1>1 DEF Publishers, StagedEntries
    <2>2. /\ Remember("backup", FALSE) \in Publishers /\ Remember("backup", FALSE).index = publisher.index
          /\ Remember("backup", FALSE).fresh = publisher.fresh /\ Remember("backup", FALSE).result = "none"
          /\ Remember("backup", FALSE).entry = [publisher.entry EXCEPT ![publisher.index] = bare]
      BY <1>1, <2>1 DEF Publishers, Remember
    <2> HIDE DEF bare
    <2>3. /\ publisher' \in Publishers /\ publisher'.fresh = publisher.fresh
          /\ publisher'.entry = [publisher.entry EXCEPT ![publisher.index] = bare]
          /\ LastEntry => publisher'.phase = "done" /\ publisher'.result = "passed"
          /\ ~LastEntry => /\ publisher'.phase = "discard" /\ publisher'.index = publisher.index + 1
                           /\ publisher'.result = "none"
      <3>1. CASE LastEntry
        BY <1>4, <2>2, <3>1 DEF Finish, Publishers, CatalogPhases, CatalogResults
      <3>2. CASE ~LastEntry
        BY <1>4, <2>2, <3>2, NextEntryKeeps DEF CatalogPhases
      <3> QED BY <3>1, <3>2
    <2>4. /\ directory' \in [target: [Indices -> Versions \cup {NoFile}],
                      temporary: [Indices -> FileContents], backup: [Indices -> FileContents],
                      remnants: [Indices -> SUBSET Versions]]
          /\ directory'.target = directory.target
          /\ \A i \in Indices : i # publisher.index => directory'.backup[i] = directory.backup[i]
      <3>1. NoFile \in FileContents
        BY DEF FileContents
      <3>2. CASE Entry.backup
        <4>1. /\ directory' \in [target: [Indices -> Versions \cup {NoFile}],
                      temporary: [Indices -> FileContents], backup: [Indices -> FileContents],
                      remnants: [Indices -> SUBSET Versions]]
              /\ directory'.target = directory.target
              /\ directory'.backup = [directory.backup EXCEPT ![publisher.index] = NoFile]
          BY <1>1, <1>4, <3>1, <3>2, FileChanges
        <4> QED BY <1>1, <4>1 DEF CatalogType
      <3>3. CASE ~Entry.backup
        BY <1>1, <1>4, <3>3 DEF CatalogType
      <3> QED BY <3>2, <3>3
    <2>5. CatalogType'
      BY <1>1, <2>3, <2>4, CatalogParts
    <2>6. \A i \in Indices : /\ LastEntry => i <= publisher.index
                             /\ i < publisher.index + 1 <=> i <= publisher.index
                             /\ i # publisher.index => (i <= publisher.index <=> i < publisher.index)
      BY <1>1, ArtifactIndices DEF LastEntry
    <2>7. ASSUME NEW i \in Indices
          PROVE  /\ publisher'.entry[i].published /\ (i <= publisher.index => ~publisher'.entry[i].backup)
                 /\ publisher'.entry[i].backup => directory'.backup[i] = Began(i) /\ Began(i) # NoFile
      <3>1. CASE i = publisher.index
        <4>1. publisher'.entry[i] = bare
          BY <1>1, <2>3, <3>1 DEF Publishers
        <4>2. bare.published
          BY <1>1, <1>2, <2>1
        <4> QED BY <2>1, <4>1, <4>2
      <3>2. CASE i # publisher.index
        <4>1. publisher'.entry[i] = publisher.entry[i]
          BY <1>1, <2>3, <3>2 DEF Publishers
        <4> QED BY <1>2, <2>4, <2>6, <3>2, <4>1
      <3> QED BY <3>1, <3>2
    <2>8. CASE LastEntry
      <3>1. Committed' /\ \A i \in Indices : ~publisher'.entry[i].backup
        BY <1>2, <2>3, <2>4, <2>6, <2>7, <2>8 DEF Committed
      <3>2. FailureAtomic' /\ NothingLost'
        BY <2>3, <2>8, <3>1 DEF FailureAtomic, NothingLost
      <3> QED BY <2>3, <2>5, <2>8, <3>2, FinishHolds
    <2>9. CASE ~LastEntry
      <3>1. EntriesInOrder'
        BY <1>1, <2>7 DEF EntriesInOrder, Began
      <3>2. DiscardingInOrder'
        BY <1>2, <2>3, <2>4, <2>6, <2>7, <2>9 DEF DiscardingInOrder
      <3> QED BY <1>1, <2>3, <2>5, <2>9, <3>1, <3>2
              DEF CatalogInv, StagingInOrder, SettingAside, ReplacingInOrder, RollingBack, Ending
    <2> QED BY <2>8, <2>9
  <1> QED BY <1>3, <1>4 DEF Discard

\* What the rollback knows of its entries.
LEMMA RollBackKnows ==
  ASSUME CatalogInv, publisher.phase \in {"unpublish", "restore"}
  PROVE  /\ CatalogType /\ publisher \in Publishers /\ publisher.fresh \in Versions
         /\ publisher.result = "none" /\ publisher.index \in Indices
         /\ \A i \in Indices :
               /\ publisher.entry[i].backup => directory.backup[i] = Began(i) /\ Began(i) # NoFile
               /\ ~publisher.entry[i].backup /\ ~publisher.entry[i].published => directory.target[i] = Began(i)
               /\ Began(i) # NoFile => publisher.entry[i].backup \/ directory.target[i] = Began(i)
               /\ i > publisher.index /\ ~publisher.trouble => directory.target[i] = Began(i)
  BY CatalogParts DEF CatalogInv, EntriesInOrder, RollingBack, Preserved, Ending, Publishers

\* A published artifact goes away before its backup returns.
LEMMA UnpublishNext == CatalogInv /\ Unpublish => CatalogInv'
  <1> SUFFICES ASSUME CatalogInv, Unpublish PROVE CatalogInv'
    OBVIOUS
  <1>1. publisher.phase = "unpublish" /\ generation' = generation /\ fileFaults' \in 0..MaxFileFaults
    BY CatalogParts DEF CatalogInv, Unpublish, At
  <1>2. /\ CatalogType /\ publisher \in Publishers /\ publisher.fresh \in Versions
        /\ publisher.result = "none" /\ publisher.index \in Indices
        /\ \A i \in Indices :
              /\ publisher.entry[i].backup => directory.backup[i] = Began(i) /\ Began(i) # NoFile
              /\ ~publisher.entry[i].backup /\ ~publisher.entry[i].published => directory.target[i] = Began(i)
              /\ Began(i) # NoFile => publisher.entry[i].backup \/ directory.target[i] = Began(i)
              /\ i > publisher.index /\ ~publisher.trouble => directory.target[i] = Began(i)
              /\ i < publisher.index \/ i = publisher.index =>
                    (publisher.entry[i].published /\ Began(i) # NoFile => publisher.entry[i].backup)
    BY <1>1, RollBackKnows DEF CatalogInv, RollingBack
  <1>3. ASSUME NEW trouble \in BOOLEAN, publisher' = [publisher EXCEPT !.phase = "restore", !.trouble = trouble],
               publisher.trouble => trouble,
               \/ trouble /\ UNCHANGED directory
               \/ Entry.published /\ File("target", NoFile)
               \/ ~Entry.published /\ UNCHANGED directory
        PROVE  CatalogInv'
    <2>1. /\ publisher'.phase = "restore" /\ publisher'.index = publisher.index
          /\ publisher'.entry = publisher.entry /\ publisher'.fresh = publisher.fresh
          /\ publisher'.trouble = trouble /\ publisher'.result = "none" /\ publisher' \in Publishers
      BY <1>2, <1>3 DEF Publishers, CatalogPhases
    <2>2. /\ directory' \in [target: [Indices -> Versions \cup {NoFile}],
                      temporary: [Indices -> FileContents], backup: [Indices -> FileContents],
                      remnants: [Indices -> SUBSET Versions]]
          /\ directory'.backup = directory.backup
          /\ \/ directory'.target = directory.target /\ (trouble \/ ~publisher.entry[publisher.index].published)
             \/ /\ directory'.target = [directory.target EXCEPT ![publisher.index] = NoFile]
                /\ publisher.entry[publisher.index].published
      <3>1. NoFile \in FileContents /\ NoFile # Reserved
        BY CatalogAssumption DEF FileContents
      <3>2. CASE Entry.published /\ File("target", NoFile)
        BY <1>2, <3>1, <3>2, FileChanges DEF Entry
      <3>3. CASE UNCHANGED directory /\ (trouble \/ ~Entry.published)
        BY <1>2, <3>3 DEF CatalogType, Entry
      <3> QED BY <1>3, <3>2, <3>3
    <2>3. CatalogType'
      BY <1>1, <1>2, <2>1, <2>2, CatalogParts
    <2>4. ASSUME NEW i \in Indices, i # publisher.index PROVE directory'.target[i] = directory.target[i]
      BY <1>2, <2>2, <2>4 DEF CatalogType
    <2>5. ASSUME NEW i \in Indices, i = publisher.index
          PROVE  /\ directory'.target[i] = directory.target[i] \/ publisher.entry[i].published
                 /\ Began(i) # NoFile => publisher.entry[i].backup \/ directory'.target[i] = Began(i)
                 /\ ~trouble => publisher.entry[i].backup \/ directory'.target[i] = Began(i)
      <3>1. CASE directory'.target = directory.target /\ (trouble \/ ~publisher.entry[i].published)
        BY <1>2, <3>1
      <3>2. CASE directory'.target[i] = NoFile /\ publisher.entry[i].published
        BY <1>2, <2>5, <3>2
      <3>3. directory'.target = directory.target \/ directory'.target[i] = NoFile
        BY <1>2, <2>2, <2>5 DEF CatalogType
      <3> QED BY <2>2, <2>5, <3>1, <3>2, <3>3
    <2>6. \A i \in Indices : /\ i > publisher.index \/ i < publisher.index => i # publisher.index
                             /\ ~(publisher.index < publisher.index)
      BY <1>2, ArtifactIndices
    <2>7. EntriesInOrder'
      BY <1>1, <1>2, <2>1, <2>2, <2>4, <2>5 DEF EntriesInOrder, Began
    <2>8. ASSUME NEW i \in Indices
          PROVE  /\ Began(i) # NoFile => publisher.entry[i].backup \/ directory'.target[i] = Began(i)
                 /\ i > publisher.index /\ ~trouble => directory'.target[i] = Began(i)
                 /\ i = publisher.index /\ ~trouble => publisher.entry[i].backup \/ directory'.target[i] = Began(i)
      BY <1>2, <1>3, <2>4, <2>5, <2>6
    <2>9. RollingBack'
      BY <1>1, <1>2, <2>1, <2>6, <2>8 DEF RollingBack, Preserved, Began
    <2> QED BY <1>2, <2>1, <2>3, <2>7, <2>9
            DEF CatalogInv, StagingInOrder, SettingAside, ReplacingInOrder, DiscardingInOrder, Ending
  <1>4. CASE Entry.published /\ Fault /\ UNCHANGED directory
             /\ publisher' = [publisher EXCEPT !.phase = "restore", !.trouble = TRUE]
    BY <1>3, <1>4
  <1>5. CASE /\ IF Entry.published THEN File("target", NoFile) ELSE UNCHANGED directory
             /\ publisher' = [publisher EXCEPT !.phase = "restore"]
    <2>1. publisher.trouble \in BOOLEAN /\ publisher' = [publisher EXCEPT !.phase = "restore", !.trouble = publisher.trouble]
      BY <1>2, <1>5 DEF Publishers
    <2> QED BY <1>3, <1>5, <2>1
  <1> QED BY <1>4, <1>5 DEF Unpublish

\* The backup of the entry returns, and the rollback goes on with the one before it.
LEMMA RestoreNext == CatalogInv /\ Restore => CatalogInv'
  <1> SUFFICES ASSUME CatalogInv, Restore PROVE CatalogInv'
    OBVIOUS
  <1>1. publisher.phase = "restore" /\ generation' = generation /\ fileFaults' \in 0..MaxFileFaults
    BY CatalogParts DEF CatalogInv, Restore, At
  <1>2. /\ CatalogType /\ publisher \in Publishers /\ publisher.fresh \in Versions
        /\ publisher.result = "none" /\ publisher.index \in Indices
        /\ \A i \in Indices :
              /\ publisher.entry[i].backup => directory.backup[i] = Began(i) /\ Began(i) # NoFile
              /\ ~publisher.entry[i].backup /\ ~publisher.entry[i].published => directory.target[i] = Began(i)
              /\ Began(i) # NoFile => publisher.entry[i].backup \/ directory.target[i] = Began(i)
              /\ i > publisher.index /\ ~publisher.trouble => directory.target[i] = Began(i)
              /\ i = publisher.index /\ ~publisher.trouble =>
                    publisher.entry[i].backup \/ directory.target[i] = Began(i)
              /\ i < publisher.index =>
                    (publisher.entry[i].published /\ Began(i) # NoFile => publisher.entry[i].backup)
    BY <1>1, RollBackKnows DEF CatalogInv, RollingBack
  <1>3. \A i \in Indices : i >= publisher.index <=> i > publisher.index \/ i = publisher.index
    BY <1>2, ArtifactIndices
  <1>4. ASSUME NEW memory \in Publishers, memory.index = publisher.index, memory.phase = "restore",
               memory.fresh = publisher.fresh, memory.result = "none", Restored(memory),
               directory' \in [target: [Indices -> Versions \cup {NoFile}],
                      temporary: [Indices -> FileContents], backup: [Indices -> FileContents],
                      remnants: [Indices -> SUBSET Versions]],
               \A i \in Indices :
                  /\ memory.entry[i].backup => directory'.backup[i] = Began(i) /\ Began(i) # NoFile
                  /\ ~memory.entry[i].backup /\ ~memory.entry[i].published => directory'.target[i] = Began(i)
                  /\ Began(i) # NoFile => memory.entry[i].backup \/ directory'.target[i] = Began(i)
                  /\ i >= publisher.index /\ ~memory.trouble => directory'.target[i] = Began(i)
                  /\ i < publisher.index =>
                        (memory.entry[i].published /\ Began(i) # NoFile => memory.entry[i].backup)
        PROVE  CatalogInv'
    <2>1. /\ publisher' \in Publishers /\ publisher'.entry = memory.entry /\ publisher'.fresh = publisher.fresh
          /\ publisher'.trouble = memory.trouble /\ publisher'.result = "none"
          /\ publisher.index = 1 => publisher'.phase = "cleanup"
          /\ publisher.index # 1 => publisher'.phase = "unpublish" /\ publisher'.index = publisher.index - 1
      <3>1. CASE publisher.index = 1
        BY <1>4, <3>1 DEF Restored, Publishers, CatalogPhases
      <3>2. CASE publisher.index # 1
        <4>1. publisher.index - 1 \in Indices
          BY <1>2, <3>2, ArtifactIndices
        <4> QED BY <1>4, <3>2, <4>1 DEF Restored, Publishers, CatalogPhases
      <3> QED BY <3>1, <3>2
    <2>2. CatalogType'
      BY <1>1, <1>2, <1>4, <2>1, CatalogParts
    <2>3. EntriesInOrder'
      BY <1>1, <1>4, <2>1 DEF EntriesInOrder, Began
    <2>4. CASE publisher.index = 1
      <3>1. \A i \in Indices : i >= publisher.index
        BY <2>4, ArtifactIndices
      <3>2. Ending'
        BY <1>1, <1>4, <2>1, <2>4, <3>1 DEF Ending, Preserved, Began
      <3> QED BY <1>2, <2>1, <2>2, <2>3, <2>4, <3>2
              DEF CatalogInv, StagingInOrder, SettingAside, ReplacingInOrder, DiscardingInOrder, RollingBack
    <2>5. CASE publisher.index # 1
      <3>1. \A i \in Indices : /\ i > publisher.index - 1 => i >= publisher.index
                               /\ i < publisher.index - 1 \/ i = publisher.index - 1 => i < publisher.index
        BY <1>2, ArtifactIndices
      <3>2. RollingBack'
        BY <1>1, <1>4, <2>1, <2>5, <3>1 DEF RollingBack, Preserved, Began
      <3> QED BY <1>2, <2>1, <2>2, <2>3, <2>5, <3>2
              DEF CatalogInv, StagingInOrder, SettingAside, ReplacingInOrder, DiscardingInOrder, Ending
    <2> QED BY <2>4, <2>5
  <1>5. ASSUME ~Entry.backup, Restored(publisher), UNCHANGED directory PROVE CatalogInv'
    BY <1>1, <1>2, <1>3, <1>4, <1>5 DEF Entry, CatalogType
  <1>6. ASSUME Restored([publisher EXCEPT !.trouble = TRUE]), UNCHANGED directory PROVE CatalogInv'
    <2> DEFINE memory == [publisher EXCEPT !.trouble = TRUE]
    <2>1. /\ memory \in Publishers /\ memory.index = publisher.index /\ memory.phase = "restore"
          /\ memory.fresh = publisher.fresh /\ memory.result = "none" /\ memory.entry = publisher.entry
          /\ memory.trouble
      BY <1>1, <1>2 DEF Publishers
    <2> HIDE DEF memory
    <2>2. Restored(memory)
      BY <1>6 DEF memory
    <2> QED BY <1>2, <1>4, <1>6, <2>1, <2>2 DEF CatalogType
  <1>7. ASSUME Entry.backup, Moved("backup", "target"), Restored(Remember("backup", FALSE)) PROVE CatalogInv'
    <2> DEFINE bare == [publisher.entry[publisher.index] EXCEPT !.backup = FALSE]
               memory == Remember("backup", FALSE)
    <2>1. bare \in StagedEntries /\ ~bare.backup /\ bare.published = publisher.entry[publisher.index].published
      BY <1>2 DEF Publishers, StagedEntries
    <2>2. /\ memory \in Publishers /\ memory.index = publisher.index /\ memory.phase = "restore"
          /\ memory.fresh = publisher.fresh /\ memory.result = "none" /\ memory.trouble = publisher.trouble
          /\ memory.entry = [publisher.entry EXCEPT ![publisher.index] = bare]
      BY <1>1, <1>2, <2>1 DEF Publishers, Remember
    <2> HIDE DEF bare, memory
    <2>3. /\ directory.backup[publisher.index] = Began(publisher.index)
          /\ Began(publisher.index) \in Versions \cup {NoFile}
      BY <1>2, <1>7 DEF Entry, CatalogType, Began
    <2>4. /\ directory' \in [target: [Indices -> Versions \cup {NoFile}],
                      temporary: [Indices -> FileContents], backup: [Indices -> FileContents],
                      remnants: [Indices -> SUBSET Versions]]
          /\ directory'.target = [directory.target EXCEPT ![publisher.index] = Began(publisher.index)]
          /\ directory'.backup = [directory.backup EXCEPT ![publisher.index] = NoFile]
      <3> PICK content \in Versions \cup {NoFile} : content = directory.backup[publisher.index]
        BY <2>3
      <3>1. directory' = [directory EXCEPT !.backup = [directory.backup EXCEPT ![publisher.index] = NoFile],
                                           !.target = [directory.target EXCEPT ![publisher.index] = content]]
        BY <1>2, <1>7 DEF CatalogType, Moved
      <3>2. NoFile \in FileContents
        BY DEF FileContents
      <3> QED BY <1>2, <2>3, <3>1, <3>2 DEF CatalogType
    <2>5. ASSUME NEW i \in Indices
          PROVE  /\ memory.entry[i].backup => directory'.backup[i] = Began(i) /\ Began(i) # NoFile
                 /\ ~memory.entry[i].backup /\ ~memory.entry[i].published => directory'.target[i] = Began(i)
                 /\ Began(i) # NoFile => memory.entry[i].backup \/ directory'.target[i] = Began(i)
                 /\ i >= publisher.index /\ ~memory.trouble => directory'.target[i] = Began(i)
                 /\ i < publisher.index =>
                       (memory.entry[i].published /\ Began(i) # NoFile => memory.entry[i].backup)
      <3>1. CASE i = publisher.index
        <4>1. memory.entry[i] = bare /\ directory'.target[i] = Began(publisher.index)
          BY <1>2, <2>2, <2>4, <3>1 DEF CatalogType, Publishers
        <4>2. Began(i) = Began(publisher.index) /\ ~(i < publisher.index)
          BY <1>2, <3>1, ArtifactIndices DEF Began
        <4> QED BY <2>1, <4>1, <4>2
      <3>2. CASE i # publisher.index
        <4>1. /\ memory.entry[i] = publisher.entry[i] /\ directory'.target[i] = directory.target[i]
              /\ directory'.backup[i] = directory.backup[i]
          BY <1>2, <2>2, <2>4, <3>2 DEF CatalogType, Publishers
        <4> QED BY <1>2, <1>3, <2>2, <3>2, <4>1
      <3> QED BY <3>1, <3>2
    <2>6. Restored(memory)
      BY <1>7 DEF memory
    <2> QED BY <1>4, <2>2, <2>4, <2>5, <2>6
  <1> QED BY <1>5, <1>6, <1>7 DEF Restore

\* The temporaries go, and the error says whether the rollback had trouble.
LEMMA CleanupNext == CatalogInv /\ Cleanup => CatalogInv'
  <1> SUFFICES ASSUME CatalogInv, Cleanup PROVE CatalogInv'
    OBVIOUS
  <1> DEFINE result == IF publisher.trouble THEN "unrestored" ELSE "restored"
  <1>1. /\ publisher.phase = "cleanup" /\ generation' = generation /\ CatalogType /\ publisher \in Publishers
        /\ fileFaults' \in 0..MaxFileFaults
        /\ publisher' = [publisher EXCEPT !.phase = "done", !.result = result]
    BY CatalogParts DEF CatalogInv, Cleanup, At, Finish
  <1>2. /\ publisher'.phase = "done" /\ publisher'.result = result /\ publisher' \in Publishers
        /\ publisher'.entry = publisher.entry
    BY <1>1 DEF Publishers, CatalogPhases, CatalogResults
  <1>3. /\ directory' \in [target: [Indices -> Versions \cup {NoFile}],
                      temporary: [Indices -> FileContents], backup: [Indices -> FileContents],
                      remnants: [Indices -> SUBSET Versions]]
        /\ directory'.target = directory.target /\ directory'.backup = directory.backup
    BY <1>1 DEF Cleanup, CatalogType, FileContents
  <1>4. CatalogType'
    BY <1>1, <1>2, <1>3, CatalogParts
  <1>5. NothingLost'
    BY <1>1, <1>3 DEF CatalogInv, EntriesInOrder, Ending, Preserved, NothingLost, Began
  <1>6. ~publisher.trouble => directory.target = generation.began
    BY <1>1, UntouchedIsBegun DEF CatalogInv, Ending
  <1>7. FailureAtomic'
    BY <1>1, <1>2, <1>3, <1>6 DEF FailureAtomic
  <1> QED BY <1>2, <1>4, <1>5, <1>7, FinishHolds

\* A kill finds every earlier artifact in the directory, in whatever phase.
LEMMA KilledNext == CatalogInv /\ CatalogKilled => CatalogInv'
  <1> SUFFICES ASSUME CatalogInv, CatalogKilled PROVE CatalogInv'
    OBVIOUS
  <1>1. /\ directory' = directory /\ generation' = generation /\ CatalogType /\ fileFaults' \in 0..MaxFileFaults
        /\ publisher' = [publisher EXCEPT !.phase = "done", !.result = "killed"]
    BY CatalogParts DEF CatalogInv, CatalogKilled, Finish
  <1>2. /\ publisher'.phase = "done" /\ publisher'.result = "killed" /\ publisher' \in Publishers
        /\ publisher'.fresh = publisher.fresh
    BY <1>1, CatalogParts DEF Publishers, CatalogPhases, CatalogResults
  <1>3. CatalogType' /\ FailureAtomic'
    BY <1>1, <1>2, CatalogParts DEF FailureAtomic
  <1>4. NothingLost'
    BY <1>1, <1>2, CatalogKeeps DEF NothingLost, Committed
  <1> QED BY <1>2, <1>3, <1>4, FinishHolds

\* Every step of the publication.
LEMMA CatalogStepNext ==
  CatalogInv /\ (CatalogStep \/ CatalogKilled \/ CatalogAgain \/ UNCHANGED catalogVars) => CatalogInv'
  <1>1. ASSUME CatalogInv, UNCHANGED catalogVars PROVE CatalogInv'
    BY <1>1 DEF catalogVars, CatalogInv, CatalogType, EntriesInOrder, StagingInOrder, SettingAside,
                ReplacingInOrder, DiscardingInOrder, RollingBack, Ending, NothingLost, FailureAtomic,
                Committed, Preserved, Began, Entry
  <1> QED BY <1>1, AggregateNext, StageNext, ReserveNext, SetAsideNext, ReplaceNext, DiscardNext,
             UnpublishNext, RestoreNext, CleanupNext, KilledNext, CatalogBeginsAgain DEF CatalogStep

\* It holds in every process that aggregates.
LEMMA CatalogHolds == CommandSpec => [](ProcessInv /\ (golib.command = "aggregate" => CatalogInv))
  <1>1. CommandInit => ProcessInv /\ (golib.command = "aggregate" => CatalogInv)
    BY ProcessInit, CatalogStarts DEF CommandInit
  <1>2. /\ ProcessInv /\ (golib.command = "aggregate" => CatalogInv)
        /\ [CommandNext]_commandVars
        => ProcessInv' /\ (golib.command = "aggregate" => CatalogInv)'
    BY ProcessStep, ProcessNext, CatalogStepNext DEF ProcessInv
  <1> QED BY <1>1, <1>2, PTL DEF CommandSpec

\* golib cohesion aggregate loses no artifact, whatever fails and wherever it is
\* killed, before the whole new set is in place.
THEOREM AggregateKeepsEverything == CommandSpec => []AggregateLosesNothing
  <1>1. (golib.command = "aggregate" => CatalogInv) => AggregateLosesNothing
    BY CatalogKeeps DEF AggregateLosesNothing, CatalogInv
  <1> QED BY CatalogHolds, <1>1, PTL

\* Its exit code tells what is in the directory.
THEOREM AggregateIsAllOrNothing == CommandSpec => []AggregateIsAtomic
  <1>1. ProcessInv /\ (golib.command = "aggregate" => CatalogInv) => AggregateIsAtomic
    <2>1. CatalogInv => FailureAtomic
      BY DEF CatalogInv, Ending, FailureAtomic
    <2> QED BY <2>1 DEF AggregateIsAtomic, Exits, ProcessInv, Succeeded, FailureAtomic
  <1> QED BY CatalogHolds, <1>1, PTL

-----------------------------------------------------------------------------
(* golib specification check. *)

ModulesInOrder == Entries(SpecModules)
Repositories == {repository[module] : repository \in Trees, module \in ModulesInOrder}
Identifiers == UNION {Ids(held.decisions) : held \in Repositories}
Pins == UNION {Entries(held.authorities) : held \in Repositories}
CheckStages == {"module", "monitoring", "documents", "contract", "ledger", "claim", "fetch"}

FetchStates ==
    [left : Seq(Pins), requests : Nat, at : {"idle", "validate", "dial", "respond"},
     contacted : SUBSET PublicAddresses, answers : SUBSET ({pin.id : pin \in Pins} \X Statuses \X Bodies)]

SpecificationType ==
    /\ tree \in Trees
    /\ checker \in [at : CheckStages, module : 1..(Len(SpecModules) + 1), owned : SUBSET Identifiers,
                    specified : SUBSET ModulesInOrder, unresolved : Nat, online : BOOLEAN,
                    verdict : {"none", "accepted", "refused"}]
    /\ fetch \in FetchStates

\* What the check has found of the module at hand when it comes to a stage.
StagesPassed ==
    /\ checker.at \notin {"module", "fetch"} =>
          /\ checker.module <= Len(SpecModules)
          /\ Provenance(CheckedModule, Checked)
    /\ checker.at \in {"documents", "contract", "ledger", "claim"} => Monitored(Checked)
    /\ checker.at \in {"contract", "ledger", "claim"} => Readable(Checked)
    /\ checker.at \in {"ledger", "claim"} => Contract(CheckedModule, Checked)
    /\ checker.at = "claim" => LedgerKeeps(Checked)

\* A module with everything its decisions rest on.
Passed(module) ==
    /\ Monitored(tree[module])
    /\ Contract(module, tree[module])
    /\ LedgerKeeps(tree[module])

\* The modules behind: each declares nothing or has passed, and identifiers have one owner.
ModulesPassed ==
    /\ \A i \in 1..Len(SpecModules) :
          i < checker.module => tree[SpecModules[i]].specifications = {} \/ SpecModules[i] \in checker.specified
    /\ \A m \in checker.specified :
          /\ Passed(m) /\ Ids(tree[m].decisions) \subseteq checker.owned
          /\ checker.unresolved = 0 => \A d \in Entries(tree[m].decisions) : d.status # "unresolved"
    /\ \A m, n \in checker.specified : m # n => Ids(tree[m].decisions) \cap Ids(tree[n].decisions) = {}

\* An authority's final answer was as its pin says.
AnswersPin(answer, pin) == answer[1] = pin.id /\ AsReviewed(pin, answer[2], answer[3])
SeenAsReviewed(pin) == \E answer \in fetch.answers : AnswersPin(answer, pin)

\* An answer as reviewed to a well-formed pin is the content or the denial that was pinned.
LEMMA PinAnswered ==
  ASSUME NEW pin, NEW answer, ExactPin(pin), AnswersPin(answer, pin)
  PROVE  /\ answer[1] = pin.id
         /\ \/ pin.access # "restricted" /\ SeenContent(pin, answer)
            \/ ~Public(pin) /\ SeenDenial(pin, answer)
  BY DEF ExactPin, AnswersPin, AsReviewed, SeenContent, SeenDenial, Public, MayBeDenied

\* While authorities are fetched, each has been seen or is still to be.
AuthoritiesSeen ==
    /\ checker.at = "fetch" \/ checker.verdict = "accepted" =>
          checker.module > Len(SpecModules) /\ checker.unresolved = 0
    /\ checker.at = "fetch" /\ checker.verdict = "none" => fetch.left # <<>>
    /\ checker.at = "fetch" =>
          \A m \in checker.specified : \A pin \in Entries(tree[m].authorities) :
             SeenAsReviewed(pin) \/ pin \in Entries(fetch.left)
    /\ checker.verdict = "accepted" /\ checker.online =>
          \A m \in checker.specified : \A pin \in Entries(tree[m].authorities) : SeenAsReviewed(pin)

DecisionsInv == SpecificationType /\ StagesPassed /\ ModulesPassed /\ AuthoritiesSeen

\* Induction on the natural numbers, for a set.
LEMMA Induct ==
  ASSUME NEW S \in SUBSET Nat, 0 \in S, \A n \in S : n + 1 \in S
  PROVE  S = Nat
  <1> SUFFICES ASSUME Nat \ S # {} PROVE FALSE
    OBVIOUS
  <1> DEFINE R == OpToRel(<, Nat)
  <1>1. IsWellFoundedOn(R, Nat)
    BY NatLessThanWellFounded
  <1>2. PICK x \in Nat \ S : \A y \in Nat \ S : ~ (<<y, x>> \in R)
    <2> HIDE DEF R
    <2> QED BY <1>1, WFMin
  <1>3. x # 0 /\ x - 1 \in Nat /\ x - 1 < x
    OBVIOUS
  <1>4. <<x - 1, x>> \in R
    BY <1>3, Zenon DEF OpToRel
  <1>5. x - 1 \in S
    BY <1>2, <1>3, <1>4
  <1> QED BY <1>5, <1>3

\* The partial results of FlattenSeq.
Flattening(seqs, n, f) ==
    f = [i \in 1..n |-> IF i = 1 THEN seqs[i] ELSE f[i-1] \o seqs[i]]

\* A partial result is the one before it and one part more.
LEMMA FlatteningAt ==
  ASSUME NEW seqs, NEW n \in Nat, NEW f, Flattening(seqs, n, f), NEW i \in 1..n
  PROVE  f[i] = IF i = 1 THEN seqs[i] ELSE f[i-1] \o seqs[i]
  <1> DEFINE e(k) == IF k = 1 THEN seqs[k] ELSE f[k-1] \o seqs[k]
  <1>1. f = [k \in 1..n |-> e(k)]
    BY DEF Flattening
  <1> HIDE DEF e
  <1>2. f[i] = e(i)
    BY <1>1
  <1> QED BY <1>2 DEF e

\* A function with that equation exists, so the recursion has its meaning.
LEMMA FlatteningExists ==
  ASSUME NEW seqs, NEW n \in Nat
  PROVE  \E f : Flattening(seqs, n, f)
  <1> DEFINE S == {k \in Nat : \E f : Flattening(seqs, k, f)}
  <1>1. 0 \in S
    <2> DEFINE g == [i \in 1..0 |-> IF i = 1 THEN seqs[i] ELSE seqs[i]]
    <2>1. Flattening(seqs, 0, g) BY DEF Flattening
    <2> QED BY <2>1
  <1>2. ASSUME NEW k \in S PROVE k + 1 \in S
    <2>1. PICK f : Flattening(seqs, k, f) OBVIOUS
    <2> DEFINE g == [i \in 1..(k + 1) |-> IF i = 1 THEN seqs[i] ELSE f[i-1] \o seqs[i]]
    <2>2. \A i \in 1..k : g[i] = f[i]
      BY <2>1, FlatteningAt
    <2>3. \A i \in 1..(k + 1) : i # 1 => i - 1 \in 1..k
      OBVIOUS
    <2>4. Flattening(seqs, k + 1, g)
      BY <2>2, <2>3 DEF Flattening
    <2> QED BY <2>4
  <1> HIDE DEF S
  <1>3. S = Nat BY <1>1, <1>2, Induct DEF S
  <1> QED BY <1>3 DEF S

\* The whole is the last of them.
LEMMA FlattenIsLast ==
  ASSUME NEW seqs, NEW n \in Nat \ {0}, Len(seqs) = n
  PROVE  \E f : /\ FlattenSeq(seqs) = f[n]
                /\ f[1] = seqs[1]
                /\ \A i \in 2..n : f[i] = f[i-1] \o seqs[i]
  <1> DEFINE f == CHOOSE f : Flattening(seqs, n, f)
  <1>1. Flattening(seqs, n, f)
    BY FlatteningExists
  <1>2. FlattenSeq(seqs) = f[n]
    BY DEF FlattenSeq, Flattening
  <1> HIDE DEF f
  <1> DEFINE e(k) == IF k = 1 THEN seqs[k] ELSE f[k-1] \o seqs[k]
  <1>3. f = [k \in 1..n |-> e(k)]
    BY <1>1 DEF Flattening
  <1>4. 1 \in 1..n /\ \A k \in 2..n : k \in 1..n /\ k # 1
    OBVIOUS
  <1>5. e(1) = seqs[1] /\ \A k \in 2..n : e(k) = f[k-1] \o seqs[k]
    BY <1>4, Zenon
  <1> HIDE DEF e
  <1>6. \A k \in 1..n : f[k] = e(k)
    BY <1>3
  <1> QED BY <1>2, <1>4, <1>5, <1>6

\* What a set that is closed under concatenation has of the parts, it has of the whole.
LEMMA FlattenStays ==
  ASSUME NEW Q, <<>> \in Q, \A a, b \in Q : a \o b \in Q,
         NEW seqs \in Seq(Q)
  PROVE  FlattenSeq(seqs) \in Q
  <1>1. CASE Len(seqs) = 0
    <2>1. seqs = <<>> BY <1>1
    <2> QED BY <1>1, <2>1 DEF FlattenSeq
  <1>2. CASE Len(seqs) # 0
    <2> DEFINE n == Len(seqs)
    <2>1. n \in Nat \ {0} /\ \A i \in 1..n : seqs[i] \in Q BY <1>2
    <2> HIDE DEF n
    <2>2. PICK f : /\ FlattenSeq(seqs) = f[n]
                   /\ f[1] = seqs[1]
                   /\ \A i \in 2..n : f[i] = f[i-1] \o seqs[i]
      BY <2>1, FlattenIsLast DEF n
    <2> DEFINE S == {k \in Nat : k + 1 <= n => f[k + 1] \in Q}
    <2>3. 0 \in S
      BY <2>1, <2>2
    <2>4. ASSUME NEW k \in S PROVE k + 1 \in S
      <3>1. SUFFICES ASSUME k + 2 <= n PROVE f[k + 2] \in Q OBVIOUS
      <3>2. k + 2 \in 2..n /\ k + 2 \in 1..n /\ (k + 2) - 1 = k + 1 /\ k + 1 <= n
        BY <2>1, <3>1
      <3>3. f[k + 2] = f[k + 1] \o seqs[k + 2]
        BY <2>2, <3>2
      <3>4. f[k + 1] \in Q BY <3>2
      <3> QED BY <3>3, <3>4, <3>2, <2>1
    <2>5. S = Nat
      <3> HIDE DEF S
      <3>1. S \in SUBSET Nat BY DEF S
      <3> QED BY <2>3, <2>4, <3>1, Induct
    <2>6. n - 1 \in S /\ (n - 1) + 1 = n
      <3> HIDE DEF S
      <3> QED BY <2>1, <2>5
    <2>7. f[n] \in Q
      BY <2>6, <2>1
    <2> QED BY <2>2, <2>7
  <1> QED BY <1>1, <1>2

\* An element of a part is an element of the whole.
LEMMA FlattenKeeps ==
  ASSUME NEW K, NEW seqs \in Seq(Seq(K)), NEW x, NEW j \in 1..Len(seqs),
         \E i \in 1..Len(seqs[j]) : seqs[j][i] = x
  PROVE  \E i \in 1..Len(FlattenSeq(seqs)) : FlattenSeq(seqs)[i] = x
  <1> DEFINE n == Len(seqs)
             Has(s) == \E i \in 1..Len(s) : s[i] = x
  <1>0. \A a, b \in Seq(K) : a \o b \in Seq(K) /\ (Has(a) \/ Has(b) => Has(a \o b))
    <2> SUFFICES ASSUME NEW a \in Seq(K), NEW b \in Seq(K)
                 PROVE  a \o b \in Seq(K) /\ (Has(a) \/ Has(b) => Has(a \o b))
      OBVIOUS
    <2>1. a \o b \in Seq(K) /\ Len(a \o b) = Len(a) + Len(b) OBVIOUS
    <2>2. ASSUME Has(a) PROVE Has(a \o b)
      <3>1. PICK i \in 1..Len(a) : a[i] = x BY <2>2
      <3>2. i \in 1..Len(a \o b) /\ (a \o b)[i] = x BY <2>1, <3>1
      <3> QED BY <3>2
    <2>3. ASSUME Has(b) PROVE Has(a \o b)
      <3>1. PICK i \in 1..Len(b) : b[i] = x BY <2>3
      <3>2. Len(a) + i \in 1..Len(a \o b) /\ (a \o b)[Len(a) + i] = x BY <2>1, <3>1
      <3> QED BY <3>2
    <2> QED BY <2>1, <2>2, <2>3
  <1>1. n \in Nat \ {0} /\ (\A i \in 1..n : seqs[i] \in Seq(K)) /\ j \in 1..n /\ Has(seqs[j])
    OBVIOUS
  <1> HIDE DEF n, Has
  <1>2. PICK f : /\ FlattenSeq(seqs) = f[n]
                 /\ f[1] = seqs[1]
                 /\ \A i \in 2..n : f[i] = f[i-1] \o seqs[i]
    BY <1>1, FlattenIsLast DEF n
  <1> DEFINE S == {k \in Nat : k + 1 <= n => f[k + 1] \in Seq(K) /\ (j <= k + 1 => Has(f[k + 1]))}
  <1>3. 0 \in S
    BY <1>1, <1>2
  <1>4. ASSUME NEW k \in S PROVE k + 1 \in S
    <2>1. SUFFICES ASSUME k + 2 <= n
                   PROVE  f[k + 2] \in Seq(K) /\ (j <= k + 2 => Has(f[k + 2]))
      OBVIOUS
    <2>2. k + 2 \in 2..n /\ k + 2 \in 1..n /\ (k + 2) - 1 = k + 1 /\ k + 1 <= n
      BY <1>1, <2>1
    <2>3. f[k + 2] = f[k + 1] \o seqs[k + 2]
      BY <1>2, <2>2
    <2>4. f[k + 1] \in Seq(K) /\ (j <= k + 1 => Has(f[k + 1])) BY <2>2
    <2>5. j <= k + 2 => j <= k + 1 \/ j = k + 2 BY <1>1
    <2>6. seqs[k + 2] \in Seq(K) BY <1>1, <2>2
    <2> QED BY <2>3, <2>4, <2>5, <2>6, <1>1, <1>0
  <1>5. S = Nat
    <2> HIDE DEF S
    <2>1. S \in SUBSET Nat BY DEF S
    <2> QED BY <1>3, <1>4, <2>1, Induct
  <1>6. n - 1 \in S /\ (n - 1) + 1 = n
    <2> HIDE DEF S
    <2> QED BY <1>1, <1>5
  <1>7. Has(f[n])
    BY <1>6, <1>1
  <1> QED BY <1>2, <1>7 DEF Has

\* A list with as many identifiers as entries has one entry for each.
LEMMA DistinctEntries ==
  ASSUME NEW list, IsList(list), Distinct(list),
         NEW x \in Entries(list), NEW y \in Entries(list), x.id = y.id
  PROVE  x = y
  <1> DEFINE n == Len(list)
             f == [i \in 1..n |-> list[i].id]
  <1>1. n \in Nat
    BY DEF IsList
  <1>2. f \in Surjection(1..n, Ids(list))
    BY DEF Surjection, Ids
  <1>3. IsFiniteSet(1..n) /\ Cardinality(1..n) = n
    BY <1>1, FS_Interval
  <1>4. Cardinality(Ids(list)) = n
    BY DEF Distinct
  <1>5. \A i, j \in 1..n : f[i] = f[j] => i = j
    <2> HIDE DEF n, f
    <2>1. f \in Injection(1..n, Ids(list))
      BY <1>2, <1>3, <1>4, FS_Surjection
    <2> QED BY <2>1 DEF Injection, IsInjective
  <1>6. PICK i, j \in 1..n : x = list[i] /\ y = list[j]
    BY DEF Entries
  <1> QED BY <1>5, <1>6

\* A list has finitely many entries.
LEMMA ListIsFinite ==
  ASSUME NEW list, IsList(list)
  PROVE  IsFiniteSet(Entries(list))
  <1> DEFINE n == Len(list)
             f == [i \in 1..n |-> list[i]]
  <1>1. n \in Nat
    BY DEF IsList
  <1>2. f \in Surjection(1..n, Entries(list))
    BY DEF Surjection, Entries
  <1>3. IsFiniteSet(1..n)
    BY <1>1, FS_Interval
  <1> HIDE DEF n, f
  <1> QED BY <1>2, <1>3, FS_Surjection

\* The lists of a repository's documents are lists.
LEMMA ListsOfDocuments ==
  ASSUME NEW repository \in Trees, NEW module \in ModulesInOrder
  PROVE  /\ IsList(repository[module].authorities) /\ IsList(repository[module].decisions)
         /\ IsList(repository[module].conformance) /\ IsList(repository[module].history)
  BY SpecificationAssumption DEF ModulesInOrder

\* The identifiers of a list are those of its entries.
LEMMA IdsOfEntries ==
  ASSUME NEW list
  PROVE  Ids(list) = {entry.id : entry \in Entries(list)}
  BY DEF Ids, Entries

\* Each identifier is in the other list, and no other is.
LEMMA SameIds ==
  ASSUME NEW list, NEW other, Ids(other) \subseteq Ids(list),
         \A d \in Entries(list) : \E entry \in Entries(other) : entry.id = d.id
  PROVE  Ids(other) = Ids(list)
  <1> SUFFICES ASSUME NEW id \in Ids(list) PROVE id \in Ids(other)
    OBVIOUS
  <1>1. PICK d \in Entries(list) : id = d.id
    BY IdsOfEntries
  <1>2. PICK entry \in Entries(other) : entry.id = d.id
    OBVIOUS
  <1>3. entry.id \in {e.id : e \in Entries(other)}
    OBVIOUS
  <1>4. {e.id : e \in Entries(other)} = Ids(other)
    BY IdsOfEntries
  <1> QED BY <1>1, <1>2, <1>3, <1>4

\* What is accepted of a module makes its documents agree.
LEMMA PassedAgrees ==
  ASSUME NEW module, NEW held, IsList(held.history),
         Contract(module, held), LedgerKeeps(held)
  PROVE  DocumentsAgree(held)
  <1> DEFINE ids == Ids(held.decisions)
  <1>1. Entries(held.matrix) = ids
    <2>1. \A d \in Entries(held.decisions) : d.id \in Entries(held.matrix)
      BY DEF Contract
    <2>2. ids \subseteq Entries(held.matrix)
      BY <2>1, IdsOfEntries
    <2> QED BY <2>2 DEF Contract
  <1>2. Ids(held.history) = ids
    <2>1. \A d \in Entries(held.decisions) : \E entry \in Entries(held.history) : entry.id = d.id
      BY DEF LedgerKeeps
    <2>2. Ids(held.history) \subseteq ids
      BY DEF LedgerKeeps
    <2> QED BY ONLY <2>1, <2>2, SameIds
  <1>3. Ids(held.register) = ids /\ Ids(held.conformance) = ids
    <2>1. \A d \in Entries(held.decisions) : \E entry \in Entries(held.register) : entry.id = d.id
      BY DEF Contract
    <2>2. \A d \in Entries(held.decisions) : \E row \in Entries(held.conformance) : row.id = d.id
      BY DEF Contract
    <2>3. Ids(held.register) \subseteq ids /\ Ids(held.conformance) \subseteq ids
      BY DEF Contract
    <2>4. Ids(held.register) = ids
      BY ONLY <2>1, <2>3, SameIds
    <2>5. Ids(held.conformance) = ids
      BY ONLY <2>2, <2>3, SameIds
    <2> QED BY <2>4, <2>5
  <1>4. {mention.id : mention \in held.changelog} = ids
    BY DEF Contract, ChangeLogged
  <1>5. \A d \in Entries(held.decisions), entry \in Entries(held.history) :
           entry.id = d.id => \E digest \in entry.digests : digest.sha256 = d
    <2> SUFFICES ASSUME NEW d \in Entries(held.decisions), NEW entry \in Entries(held.history), entry.id = d.id
                 PROVE  \E digest \in entry.digests : digest.sha256 = d
      OBVIOUS
    <2>1. Distinct(held.history)
      BY DEF LedgerKeeps
    <2>2. PICK own \in Entries(held.history) : own.id = d.id /\ Digest(d) \in own.digests
      BY DEF LedgerKeeps
    <2>3. own = entry
      BY <2>1, <2>2, DistinctEntries
    <2> QED BY <2>2, <2>3 DEF Digest
  <1> QED BY <1>1, <1>2, <1>3, <1>4, <1>5 DEF DocumentsAgree

\* And what it accepts of resolved decisions backs them.
LEMMA PassedIsBacked ==
  ASSUME NEW module, NEW held, IsList(held.conformance),
         Monitored(held), Contract(module, held),
         \A d \in Entries(held.decisions) : d.status # "unresolved"
  PROVE  DecisionsAreBacked(held)
  <1>1. held.review.age <= 90
    <2>1. held.review.interval \in 1..90 /\ held.review.age \in 0..held.review.interval
      BY Zenon DEF Monitored
    <2> QED BY ONLY <2>1
  <1>2. SUFFICES ASSUME NEW row \in Entries(held.conformance), NEW d \in Entries(held.decisions), row.id = d.id
                 PROVE  /\ \E id \in row.sources, a \in Entries(held.authorities) :
                              a.id = id /\ a.kind \in SourceKinds /\ d.specification \in a.specifications
                        /\ Current(d) => /\ row.fixtures \cup row.interoperability \cup row.differential
                                                \subseteq held.files
                                         /\ row.tests \cap held.tests \cap TestNames # {}
    BY <1>1 DEF DecisionsAreBacked
  <1>3. ValidDecision(module, held, d) /\ Distinct(held.conformance)
    BY DEF Contract
  <1>4. PICK own \in Entries(held.conformance) : own.id = d.id /\ Bound(held, d, own)
    BY DEF Contract
  <1>5. own = row
    BY <1>2, <1>3, <1>4, DistinctEntries
  <1>6. /\ d.source \in row.sources /\ row.tests = d.tests /\ row.fixtures = d.fixtures
        /\ row.interoperability \subseteq d.interoperability
        /\ row.differential \subseteq d.interoperability \cup d.differential
    BY <1>4, <1>5, Zenon DEF Bound
  <1>7. \E a \in Entries(held.authorities) :
           a.id = d.source /\ a.kind \in SourceKinds /\ d.specification \in a.specifications
    BY <1>3 DEF ValidDecision, SourceOf, Sources
  <1>8. ASSUME Current(d)
        PROVE  /\ d.fixtures \cup d.interoperability \cup d.differential \subseteq held.files
               /\ d.tests \subseteq held.tests /\ d.tests \cap TestNames # {}
    BY <1>3, <1>8 DEF ValidDecision, Current
  <1> QED BY <1>6, <1>7, <1>8

\* The module at hand is one of the catalog's, and its documents are the repository's.
LEMMA ModuleAtHand ==
  ASSUME SpecificationType, NEW i \in 1..Len(SpecModules)
  PROVE  /\ SpecModules[i] \in ModulesInOrder
         /\ Ids(tree[SpecModules[i]].decisions) \subseteq Identifiers
         /\ Entries(tree[SpecModules[i]].authorities) \subseteq Pins
         /\ IsList(tree[SpecModules[i]].decisions) /\ IsList(tree[SpecModules[i]].authorities)
  <1>1. SpecModules[i] \in ModulesInOrder
    BY DEF ModulesInOrder, Entries
  <1>2. tree \in Trees
    BY DEF SpecificationType
  <1>3. tree[SpecModules[i]] \in Repositories
    BY <1>1, <1>2 DEF Repositories
  <1> QED BY <1>1, <1>2, <1>3, ListsOfDocuments DEF Identifiers, Pins

\* At the beginning there is nothing behind.
LEMMA DecisionsStart == SpecificationInit => DecisionsInv
  <1> SUFFICES ASSUME SpecificationInit PROVE DecisionsInv
    OBVIOUS
  <1>0. Len(SpecModules) \in Nat
    BY SpecificationAssumption DEF IsList
  <1>1. SpecificationType
    BY <1>0 DEF SpecificationInit, SpecificationType, CheckStages, FetchStates
  <1>2. /\ checker.at = "module" /\ checker.verdict = "none" /\ checker.module = 1
        /\ checker.specified = {} /\ checker.unresolved = 0
    BY DEF SpecificationInit
  <1>3. StagesPassed /\ AuthoritiesSeen
    BY <1>2 DEF StagesPassed, AuthoritiesSeen
  <1>4. ModulesPassed
    BY <1>0, <1>2 DEF ModulesPassed
  <1> QED BY <1>1, <1>3, <1>4 DEF DecisionsInv

\* What is known of the modules behind does not depend on the stage.
LEMMA ModulesPassedKept ==
  ASSUME ModulesPassed, tree' = tree, checker'.module = checker.module,
         checker'.specified = checker.specified, checker'.owned = checker.owned,
         checker'.unresolved = checker.unresolved
  PROVE  ModulesPassed'
  BY DEF ModulesPassed, Passed

\* Neither a refusal nor a step of a fetch takes anything back.
LEMMA FetchKeeps ==
  ASSUME DecisionsInv, tree' = tree, checker' = checker \/ Verdict("refused"),
         fetch' \in FetchStates, fetch'.left = fetch.left, fetch'.answers = fetch.answers
  PROVE  DecisionsInv'
  <1>1. SpecificationType /\ StagesPassed /\ ModulesPassed /\ AuthoritiesSeen
    BY DEF DecisionsInv
  <1>2. /\ checker' \in [at : CheckStages, module : 1..(Len(SpecModules) + 1), owned : SUBSET Identifiers,
                         specified : SUBSET ModulesInOrder, unresolved : Nat, online : BOOLEAN,
                         verdict : {"none", "accepted", "refused"}]
        /\ checker'.at = checker.at /\ checker'.module = checker.module
        /\ checker'.specified = checker.specified /\ checker'.owned = checker.owned
        /\ checker'.unresolved = checker.unresolved /\ checker'.online = checker.online
        /\ checker'.verdict \in {checker.verdict, "refused"}
    BY <1>1 DEF SpecificationType, Verdict
  <1>3. SpecificationType'
    BY <1>1, <1>2 DEF SpecificationType
  <1>4. StagesPassed'
    BY <1>1, <1>2 DEF StagesPassed, Checked, CheckedModule
  <1>5. ModulesPassed'
    BY <1>1, <1>2, ModulesPassedKept
  <1>6. AuthoritiesSeen'
    <2>1. \A pin : SeenAsReviewed(pin) => SeenAsReviewed(pin)'
      BY DEF SeenAsReviewed
    <2>2. checker'.verdict = "none" => checker.verdict = "none"
      BY <1>2
    <2>3. checker'.verdict = "accepted" => checker.verdict = "accepted"
      BY <1>2
    <2> QED BY <1>1, <1>2, <2>1, <2>2, <2>3 DEF AuthoritiesSeen
  <1> QED BY <1>3, <1>4, <1>5, <1>6 DEF DecisionsInv

\* A refusal changes nothing but the verdict.
LEMMA RefusalKeeps ==
  ASSUME DecisionsInv, Verdict("refused"), UNCHANGED <<tree, fetch>>
  PROVE  DecisionsInv'
  BY FetchKeeps DEF DecisionsInv, SpecificationType

\* A stage of the module at hand that follows one whose check held.
LEMMA StageFollows ==
  ASSUME DecisionsInv, checker.verdict = "none", checker.module <= Len(SpecModules),
         NEW name \in {"monitoring", "documents", "contract", "ledger", "claim"},
         checker' = [checker EXCEPT !.at = name], UNCHANGED <<tree, fetch>>,
         Provenance(CheckedModule, Checked),
         name # "monitoring" => Monitored(Checked),
         name \in {"contract", "ledger", "claim"} => Readable(Checked),
         name \in {"ledger", "claim"} => Contract(CheckedModule, Checked),
         name = "claim" => LedgerKeeps(Checked)
  PROVE  DecisionsInv'
  <1>1. SpecificationType /\ ModulesPassed
    BY DEF DecisionsInv
  <1>2. /\ checker' \in [at : CheckStages, module : 1..(Len(SpecModules) + 1), owned : SUBSET Identifiers,
                         specified : SUBSET ModulesInOrder, unresolved : Nat, online : BOOLEAN,
                         verdict : {"none", "accepted", "refused"}]
        /\ checker'.at = name /\ checker'.module = checker.module
        /\ checker'.specified = checker.specified /\ checker'.owned = checker.owned
        /\ checker'.unresolved = checker.unresolved
        /\ checker'.verdict = "none"
    BY <1>1 DEF SpecificationType, CheckStages
  <1>3. SpecificationType'
    BY <1>1, <1>2 DEF SpecificationType
  <1>4. Checked' = Checked /\ CheckedModule' = CheckedModule
    BY <1>2 DEF Checked, CheckedModule
  <1>5. StagesPassed'
    <2>1. /\ Provenance(CheckedModule, Checked)'
          /\ name # "monitoring" => Monitored(Checked)'
          /\ name \in {"contract", "ledger", "claim"} => Readable(Checked)'
          /\ name \in {"ledger", "claim"} => Contract(CheckedModule, Checked)'
          /\ name = "claim" => LedgerKeeps(Checked)'
      BY <1>4, Zenon
    <2> QED BY <1>2, <2>1 DEF StagesPassed
  <1>6. ModulesPassed'
    BY <1>1, <1>2, ModulesPassedKept
  <1>7. AuthoritiesSeen'
    BY <1>2 DEF AuthoritiesSeen
  <1> QED BY <1>3, <1>5, <1>6, <1>7 DEF DecisionsInv

\* The stages of a module that declares a specification.
LEMMA StagesNext ==
  ASSUME DecisionsInv, Declared \/ LoadMonitoring \/ ReadDocuments \/ ValidateContract \/ ValidateLedger
  PROVE  DecisionsInv'
  <1>1. checker.verdict = "none" /\ checker.module <= Len(SpecModules)
    BY DEF Declared, LoadMonitoring, ReadDocuments, ValidateContract, ValidateLedger, AtStage
  <1>2. StagesPassed
    BY DEF DecisionsInv
  <1>3. ASSUME Verdict("refused"), UNCHANGED <<tree, fetch>> PROVE DecisionsInv'
    BY <1>3, RefusalKeeps
  <1>4. CASE Declared
    BY <1>1, <1>3, <1>4, StageFollows DEF Declared, NextStage
  <1>5. CASE LoadMonitoring
    BY <1>1, <1>2, <1>3, <1>5, StageFollows DEF LoadMonitoring, NextStage, AtStage, StagesPassed
  <1>6. CASE ReadDocuments
    BY <1>1, <1>2, <1>3, <1>6, StageFollows DEF ReadDocuments, NextStage, AtStage, StagesPassed
  <1>7. CASE ValidateContract
    BY <1>1, <1>2, <1>3, <1>7, StageFollows DEF ValidateContract, NextStage, AtStage, StagesPassed
  <1>8. CASE ValidateLedger
    BY <1>1, <1>2, <1>3, <1>8, StageFollows DEF ValidateLedger, NextStage, AtStage, StagesPassed
  <1> QED BY <1>4, <1>5, <1>6, <1>7, <1>8

\* A module without a specification is passed over.
LEMMA UndeclaredNext == DecisionsInv /\ Undeclared => DecisionsInv'
  <1> SUFFICES ASSUME DecisionsInv, Undeclared PROVE DecisionsInv'
    OBVIOUS
  <1>1. CASE Verdict("refused")
    BY <1>1, RefusalKeeps DEF Undeclared
  <1>2. CASE checker' = [checker EXCEPT !.module = @ + 1]
    <2>1. SpecificationType /\ ModulesPassed
      BY DEF DecisionsInv
    <2>2. /\ checker.at = "module" /\ checker.verdict = "none" /\ checker.module <= Len(SpecModules)
          /\ tree[SpecModules[checker.module]].specifications = {} /\ UNCHANGED <<tree, fetch>>
      BY DEF Undeclared, AtStage, Checked, CheckedModule
    <2>3. Len(SpecModules) \in Nat
      BY SpecificationAssumption DEF IsList
    <2>4. /\ checker' \in [at : CheckStages, module : 1..(Len(SpecModules) + 1), owned : SUBSET Identifiers,
                           specified : SUBSET ModulesInOrder, unresolved : Nat, online : BOOLEAN,
                           verdict : {"none", "accepted", "refused"}]
          /\ checker'.at = "module" /\ checker'.module = checker.module + 1
          /\ checker'.specified = checker.specified /\ checker'.owned = checker.owned
          /\ checker'.unresolved = checker.unresolved /\ checker'.verdict = "none"
      BY <1>2, <2>1, <2>2, <2>3 DEF SpecificationType
    <2>5. SpecificationType' /\ StagesPassed' /\ AuthoritiesSeen'
      BY <2>1, <2>2, <2>4 DEF SpecificationType, StagesPassed, AuthoritiesSeen
    <2>6. \A i \in 1..Len(SpecModules) :
             i < checker.module + 1 =>
                tree[SpecModules[i]].specifications = {} \/ SpecModules[i] \in checker.specified
      <3>1. checker.module \in Nat
        BY <2>1 DEF SpecificationType
      <3>2. \A i \in 1..Len(SpecModules) : i < checker.module + 1 => i < checker.module \/ i = checker.module
        BY <2>3, <3>1
      <3> QED BY <2>1, <2>2, <3>2 DEF ModulesPassed
    <2>7. ModulesPassed'
      BY <2>1, <2>2, <2>4, <2>6 DEF ModulesPassed, Passed
    <2> QED BY <2>5, <2>7 DEF DecisionsInv
  <1> QED BY <1>1, <1>2 DEF Undeclared

\* The number of unresolved decisions is a number, and 0 if there is none.
LEMMA OpenDecisions ==
  ASSUME NEW list, IsList(list)
  PROVE  LET open == {d \in Entries(list) : d.status = "unresolved"}
         IN  Cardinality(open) \in Nat /\ (Cardinality(open) = 0 => open = {})
  <1> DEFINE open == {d \in Entries(list) : d.status = "unresolved"}
  <1>1. open \in SUBSET Entries(list)
    OBVIOUS
  <1> HIDE DEF open
  <1>2. IsFiniteSet(open)
    BY <1>1, ListIsFinite, FS_Subset
  <1>3. Cardinality(open) \in Nat /\ (Cardinality(open) = 0 => open = {})
    BY <1>2, FS_CardinalityType, FS_EmptySet
  <1> QED BY <1>3 DEF open

\* The identifiers of a module that has come through its stages become its own.
LEMMA ClaimNext == DecisionsInv /\ ClaimIdentifiers => DecisionsInv'
  <1> SUFFICES ASSUME DecisionsInv, ClaimIdentifiers PROVE DecisionsInv'
    OBVIOUS
  <1> DEFINE ids == Ids(Checked.decisions)
             open == {d \in Entries(Checked.decisions) : d.status = "unresolved"}
             count == Cardinality(open)
  <1>1. CASE Verdict("refused")
    BY <1>1, RefusalKeeps DEF ClaimIdentifiers
  <1>2. CASE /\ ids \cap checker.owned = {}
             /\ checker' = [checker EXCEPT !.at = "module", !.module = @ + 1, !.owned = @ \cup ids,
                                           !.specified = @ \cup {CheckedModule}, !.unresolved = @ + count]
    <2>1. SpecificationType /\ ModulesPassed /\ StagesPassed
      BY DEF DecisionsInv
    <2>2. /\ checker.at = "claim" /\ checker.verdict = "none" /\ checker.module <= Len(SpecModules)
          /\ UNCHANGED <<tree, fetch>>
      BY DEF ClaimIdentifiers, AtStage
    <2>3. Len(SpecModules) \in Nat /\ checker.module \in 1..Len(SpecModules)
      BY <2>1, <2>2, SpecificationAssumption DEF IsList, SpecificationType
    <2>4. CheckedModule \in ModulesInOrder /\ ids \subseteq Identifiers /\ IsList(Checked.decisions)
      BY <2>1, <2>3, ModuleAtHand DEF Checked, CheckedModule
    <2>5. count \in Nat /\ (count = 0 => open = {})
      BY <2>4, OpenDecisions, Zenon
    <2>6. Passed(CheckedModule)
      BY <2>1, <2>2 DEF StagesPassed, Passed, Checked
    <2>7. (count = 0 => \A d \in Entries(Checked.decisions) : d.status # "unresolved")
      BY <2>5
    <2>8. /\ checker' \in [at : CheckStages, module : 1..(Len(SpecModules) + 1), owned : SUBSET Identifiers,
                           specified : SUBSET ModulesInOrder, unresolved : Nat, online : BOOLEAN,
                           verdict : {"none", "accepted", "refused"}]
          /\ checker'.at = "module" /\ checker'.module = checker.module + 1
          /\ checker'.specified = checker.specified \cup {CheckedModule}
          /\ checker'.owned = checker.owned \cup ids
          /\ checker'.unresolved = checker.unresolved + count /\ checker'.verdict = "none"
      <3> HIDE DEF ids, count
      <3>1. checker \in [at : CheckStages, module : 1..(Len(SpecModules) + 1), owned : SUBSET Identifiers,
                         specified : SUBSET ModulesInOrder, unresolved : Nat, online : BOOLEAN,
                         verdict : {"none", "accepted", "refused"}]
        BY <2>1 DEF SpecificationType
      <3>2. /\ checker.module + 1 \in 1..(Len(SpecModules) + 1) /\ checker.unresolved + count \in Nat
            /\ checker.owned \cup ids \in SUBSET Identifiers
            /\ checker.specified \cup {CheckedModule} \in SUBSET ModulesInOrder
        BY <2>3, <2>4, <2>5, <3>1
      <3>3. checker' = [checker EXCEPT !.at = "module", !.module = checker.module + 1,
                                       !.owned = checker.owned \cup ids,
                                       !.specified = checker.specified \cup {CheckedModule},
                                       !.unresolved = checker.unresolved + count]
        BY <1>2
      <3> QED BY ONLY <2>2, <3>1, <3>2, <3>3 DEF CheckStages
    <2>9. SpecificationType' /\ StagesPassed' /\ AuthoritiesSeen'
      BY <2>1, <2>2, <2>8 DEF SpecificationType, StagesPassed, AuthoritiesSeen
    <2>10. checker.unresolved + count = 0 => checker.unresolved = 0 /\ count = 0
      <3>1. checker.unresolved \in Nat
        BY <2>1 DEF SpecificationType
      <3> HIDE DEF count
      <3> QED BY <2>5, <3>1
    <2>11. ModulesPassed'
      <3> HIDE DEF count, open, ids
      <3>1. \A i \in 1..Len(SpecModules) : i < checker'.module => i < checker.module \/ i = checker.module
        BY <2>3, <2>8
      <3>2. \A i \in 1..Len(SpecModules) :
               i < checker'.module => tree[SpecModules[i]].specifications = {} \/ SpecModules[i] \in checker'.specified
        BY <2>1, <2>8, <3>1 DEF ModulesPassed, CheckedModule
      <3>3. \A m \in checker'.specified :
               /\ Passed(m) /\ Ids(tree[m].decisions) \subseteq checker'.owned
               /\ checker'.unresolved = 0 => \A d \in Entries(tree[m].decisions) : d.status # "unresolved"
        <4> SUFFICES ASSUME NEW m \in checker'.specified
                     PROVE  /\ Passed(m) /\ Ids(tree[m].decisions) \subseteq checker'.owned
                            /\ checker'.unresolved = 0 =>
                                  \A d \in Entries(tree[m].decisions) : d.status # "unresolved"
          OBVIOUS
        <4>1. CASE m = CheckedModule
          BY <2>6, <2>7, <2>8, <2>10, <4>1 DEF ids, Checked
        <4>2. CASE m \in checker.specified
          BY <2>1, <2>8, <2>10, <4>2 DEF ModulesPassed
        <4> QED BY <2>8, <4>1, <4>2
      <3>4. \A m, n \in checker'.specified : m # n => Ids(tree[m].decisions) \cap Ids(tree[n].decisions) = {}
        <4>1. \A m \in checker.specified : Ids(tree[m].decisions) \cap Ids(tree[CheckedModule].decisions) = {}
          BY <1>2, <2>1 DEF ModulesPassed, ids, Checked
        <4> QED BY <2>1, <2>8, <4>1 DEF ModulesPassed
      <3> QED BY <2>2, <3>2, <3>3, <3>4 DEF ModulesPassed, Passed
    <2> QED BY <2>9, <2>11 DEF DecisionsInv
  <1> QED BY <1>1, <1>2 DEF ClaimIdentifiers

\* The authorities of the modules with decisions, in the order in which they are asked.
Policies == [i \in 1..Len(SpecModules) |->
                IF SpecModules[i] \in checker.specified THEN tree[SpecModules[i]].authorities ELSE <<>>]

\* Every authority of a module with decisions is among those asked.
LEMMA PoliciesFlattened ==
  ASSUME DecisionsInv
  PROVE  /\ FlattenSeq(Policies) \in Seq(Pins)
         /\ \A m \in checker.specified : Entries(tree[m].authorities) \subseteq Entries(FlattenSeq(Policies))
  <1>1. SpecificationType
    BY DEF DecisionsInv
  <1>2. Len(SpecModules) \in Nat
    BY SpecificationAssumption DEF IsList
  <1>3. \A i \in 1..Len(SpecModules) : tree[SpecModules[i]].authorities \in Seq(Pins)
    <2> SUFFICES ASSUME NEW i \in 1..Len(SpecModules)
                 PROVE  tree[SpecModules[i]].authorities \in Seq(Pins)
      OBVIOUS
    <2> DEFINE list == tree[SpecModules[i]].authorities
    <2>1. list \in Seq(Entries(list)) /\ Entries(list) \subseteq Pins
      BY <1>1, ModuleAtHand DEF IsList
    <2> HIDE DEF list
    <2>2. list \in Seq(Pins)
      BY <2>1
    <2> QED BY <2>2 DEF list
  <1>4. Policies \in Seq(Seq(Pins)) /\ Len(Policies) = Len(SpecModules)
    <2>1. \A i \in 1..Len(SpecModules) : Policies[i] \in Seq(Pins)
      BY <1>3 DEF Policies
    <2>2. DOMAIN Policies = 1..Len(SpecModules) /\ Policies = [i \in 1..Len(SpecModules) |-> Policies[i]]
      BY DEF Policies
    <2> HIDE DEF Policies
    <2> QED BY <1>2, <2>1, <2>2
  <1>5. FlattenSeq(Policies) \in Seq(Pins)
    <2>1. <<>> \in Seq(Pins) /\ \A a, b \in Seq(Pins) : a \o b \in Seq(Pins)
      OBVIOUS
    <2> QED BY <1>4, <2>1, FlattenStays
  <1>6. ASSUME NEW m \in checker.specified, NEW pin \in Entries(tree[m].authorities)
        PROVE  pin \in Entries(FlattenSeq(Policies))
    <2>1. PICK j \in 1..Len(SpecModules) : SpecModules[j] = m
      BY <1>1 DEF SpecificationType, ModulesInOrder, Entries
    <2>2. Policies[j] = tree[m].authorities
      BY <2>1, <1>6 DEF Policies
    <2>3. j \in 1..Len(Policies) /\ \E i \in 1..Len(Policies[j]) : Policies[j][i] = pin
      BY <1>4, <1>6, <2>2 DEF Entries
    <2>4. \E i \in 1..Len(FlattenSeq(Policies)) : FlattenSeq(Policies)[i] = pin
      BY <1>4, <2>3, FlattenKeeps
    <2> QED BY <2>4 DEF Entries
  <1> QED BY <1>5, <1>6

\* Behind the last module: refused, accepted, or still to be fetched.
LEMMA ReviewedNext == DecisionsInv /\ Reviewed => DecisionsInv'
  <1> SUFFICES ASSUME DecisionsInv, Reviewed PROVE DecisionsInv'
    OBVIOUS
  <1>1. SpecificationType /\ StagesPassed /\ ModulesPassed /\ AuthoritiesSeen
    BY DEF DecisionsInv
  <1>2. /\ checker.verdict = "none" /\ checker.at = "module" /\ checker.module > Len(SpecModules)
        /\ tree' = tree
    BY DEF Reviewed
  <1>3. \/ Verdict("refused") /\ UNCHANGED fetch
        \/ /\ ~(checker.unresolved > 0) /\ checker.online /\ checker.specified # {}
           /\ checker' = [checker EXCEPT !.at = "fetch"]
           /\ fetch' = [fetch EXCEPT !.left = FlattenSeq(Policies), !.at = "validate", !.requests = 1]
        \/ /\ ~(checker.unresolved > 0) /\ ~(checker.online /\ checker.specified # {})
           /\ Verdict("accepted") /\ UNCHANGED fetch
    BY Zenon DEF Reviewed, Policies
  <1>4. ~(checker.unresolved > 0) => checker.unresolved = 0
    BY <1>1 DEF SpecificationType
  <1>5. CASE Verdict("refused") /\ UNCHANGED fetch
    BY <1>2, <1>5, RefusalKeeps
  <1>6. CASE /\ ~(checker.unresolved > 0) /\ checker.online /\ checker.specified # {}
             /\ checker' = [checker EXCEPT !.at = "fetch"]
             /\ fetch' = [fetch EXCEPT !.left = FlattenSeq(Policies), !.at = "validate", !.requests = 1]
    <2> DEFINE list == FlattenSeq(Policies)
    <2>1. list \in Seq(Pins) /\ \A m \in checker.specified : Entries(tree[m].authorities) \subseteq Entries(list)
      BY PoliciesFlattened
    <2> HIDE DEF list
    <2>2. list # <<>>
      <3>1. PICK m \in checker.specified : TRUE
        BY <1>6
      <3>2. Len(tree[m].authorities) \in 1..MaximumAuthorities
        BY <1>1, Zenon DEF ModulesPassed, Passed, Monitored
      <3>3. 1 \in 1..Len(tree[m].authorities)
        BY <3>2, SpecificationAssumption
      <3>4. tree[m].authorities[1] \in Entries(list)
        BY <2>1, <3>3 DEF Entries
      <3>5. Entries(<<>>) = {}
        BY DEF Entries
      <3> QED BY <3>4, <3>5
    <2>3. fetch' = [fetch EXCEPT !.left = list, !.at = "validate", !.requests = 1]
      BY <1>6 DEF list
    <2>4. fetch' \in FetchStates /\ fetch'.left = list /\ fetch'.answers = fetch.answers
      <3>1. fetch \in FetchStates
        BY <1>1 DEF SpecificationType
      <3> QED BY ONLY <3>1, <2>1, <2>3 DEF FetchStates
    <2>5. /\ checker' \in [at : CheckStages, module : 1..(Len(SpecModules) + 1), owned : SUBSET Identifiers,
                           specified : SUBSET ModulesInOrder, unresolved : Nat, online : BOOLEAN,
                           verdict : {"none", "accepted", "refused"}]
          /\ checker'.at = "fetch" /\ checker'.module = checker.module
          /\ checker'.specified = checker.specified /\ checker'.owned = checker.owned
          /\ checker'.unresolved = checker.unresolved /\ checker'.verdict = "none"
      BY <1>1, <1>2, <1>6 DEF SpecificationType, CheckStages
    <2>6. SpecificationType' /\ StagesPassed'
      BY <1>1, <1>2, <2>4, <2>5 DEF SpecificationType, StagesPassed
    <2>7. ModulesPassed'
      BY <1>1, <1>2, <2>5, ModulesPassedKept
    <2>8. AuthoritiesSeen'
      BY <1>2, <1>4, <1>6, <2>1, <2>2, <2>4, <2>5 DEF AuthoritiesSeen
    <2> QED BY <2>6, <2>7, <2>8 DEF DecisionsInv
  <1>7. CASE /\ ~(checker.unresolved > 0) /\ ~(checker.online /\ checker.specified # {})
             /\ Verdict("accepted") /\ UNCHANGED fetch
    <2>1. /\ checker' \in [at : CheckStages, module : 1..(Len(SpecModules) + 1), owned : SUBSET Identifiers,
                           specified : SUBSET ModulesInOrder, unresolved : Nat, online : BOOLEAN,
                           verdict : {"none", "accepted", "refused"}]
          /\ checker'.at = "module" /\ checker'.module = checker.module
          /\ checker'.specified = checker.specified /\ checker'.owned = checker.owned
          /\ checker'.unresolved = checker.unresolved /\ checker'.online = checker.online
      BY <1>1, <1>2, <1>7 DEF SpecificationType, CheckStages, Verdict
    <2>2. SpecificationType' /\ StagesPassed'
      BY <1>1, <1>2, <1>7, <2>1 DEF SpecificationType, StagesPassed
    <2>3. ModulesPassed'
      BY <1>1, <1>2, <2>1, ModulesPassedKept
    <2>4. AuthoritiesSeen'
      BY <1>2, <1>4, <1>7, <2>1 DEF AuthoritiesSeen
    <2> QED BY <2>2, <2>3, <2>4 DEF DecisionsInv
  <1> QED BY <1>3, <1>5, <1>6, <1>7

\* When the modules are all behind, the check has passed every module that declares one.
LEMMA SpecifiedIsBehind ==
  ASSUME SpecificationType, ModulesPassed, AuthoritiesSeen, checker.verdict = "accepted"
  PROVE  Specified \subseteq checker.specified
  <1>1. checker.module > Len(SpecModules) /\ checker.module \in Nat /\ Len(SpecModules) \in Nat
    BY SpecificationAssumption DEF AuthoritiesSeen, SpecificationType, IsList
  <1>2. \A i \in 1..Len(SpecModules) : i < checker.module
    BY <1>1
  <1> QED BY <1>2 DEF ModulesPassed, Specified

\* The entries of a list that is not empty: its head, and those of its tail.
LEMMA HeadAndTail ==
  ASSUME NEW S, NEW list \in Seq(S), list # <<>>
  PROVE  /\ Head(list) \in S /\ Tail(list) \in Seq(S)
         /\ Entries(list) = {Head(list)} \cup Entries(Tail(list))
         /\ Tail(list) = <<>> <=> Len(list) = 1
  <1>1. Len(list) \in Nat /\ Len(list) >= 1 /\ Tail(list) \in Seq(S) /\ Len(Tail(list)) = Len(list) - 1
    OBVIOUS
  <1>2. Head(list) = list[1] /\ \A i \in 1..(Len(list) - 1) : Tail(list)[i] = list[i + 1]
    OBVIOUS
  <1>3. Entries(list) \subseteq {Head(list)} \cup Entries(Tail(list))
    <2> SUFFICES ASSUME NEW i \in 1..Len(list), i # 1 PROVE list[i] \in Entries(Tail(list))
      BY <1>2 DEF Entries
    <2>1. i - 1 \in 1..Len(Tail(list)) /\ Tail(list)[i - 1] = list[i]
      BY <1>1, <1>2
    <2> QED BY <2>1 DEF Entries
  <1>4. Entries(Tail(list)) \subseteq Entries(list)
    <2> SUFFICES ASSUME NEW i \in 1..Len(Tail(list)) PROVE Tail(list)[i] \in Entries(list)
      BY DEF Entries
    <2>1. i + 1 \in 1..Len(list) /\ Tail(list)[i] = list[i + 1]
      BY <1>1, <1>2
    <2> QED BY <2>1 DEF Entries
  <1>5. Head(list) \in Entries(list) /\ Head(list) \in S
    BY <1>1, <1>2 DEF Entries
  <1>6. Tail(list) = <<>> <=> Len(list) = 1
    <2>1. \A t \in Seq(S) : t = <<>> <=> Len(t) = 0
      OBVIOUS
    <2>2. Tail(list) = <<>> <=> Len(Tail(list)) = 0
      BY ONLY <1>1, <2>1
    <2> QED BY ONLY <1>1, <2>2
  <1> QED BY <1>1, <1>3, <1>4, <1>5, <1>6

\* What leads to an answer contacts public addresses only.
LEMMA FetchNext ==
  ASSUME DecisionsInv, ValidateDestination \/ Dial \/ UseConnection \/ Redirected \/ FetchFails
  PROVE  DecisionsInv'
  <1>0. tree' = tree
    BY DEF ValidateDestination, Dial, UseConnection, Redirected, FetchFails
  <1>1. fetch \in FetchStates
    BY DEF DecisionsInv, SpecificationType
  <1>2. CASE ValidateDestination
    <2>1. /\ checker' = checker \/ Verdict("refused")
          /\ fetch' = [fetch EXCEPT !.at = "dial"] \/ fetch' = fetch
      BY <1>2 DEF ValidateDestination
    <2>2. fetch' \in FetchStates /\ fetch'.left = fetch.left /\ fetch'.answers = fetch.answers
      BY <1>1, <2>1 DEF FetchStates
    <2> QED BY <1>0, <2>1, <2>2, FetchKeeps
  <1>3. CASE Dial
    <2>1. /\ checker' = checker \/ Verdict("refused")
          /\ \/ fetch' = fetch
             \/ \E tried \in SUBSET PublicAddresses :
                   \/ fetch' = [fetch EXCEPT !.at = "respond", !.contacted = fetch.contacted \cup tried]
                   \/ fetch' = [fetch EXCEPT !.contacted = fetch.contacted \cup tried]
      <3>1. PICK answer \in SUBSET Addresses :
               IF ~Admitted(answer) THEN Verdict("refused") /\ UNCHANGED fetch
               ELSE \/ \E tried \in SUBSET answer \ {{}} :
                          /\ fetch' = [fetch EXCEPT !.at = "respond", !.contacted = @ \cup tried]
                          /\ UNCHANGED checker
                    \/ /\ fetch' = [fetch EXCEPT !.contacted = @ \cup answer]
                       /\ Verdict("refused")
        BY <1>3 DEF Dial
      <3>2. CASE ~Admitted(answer)
        BY <3>1, <3>2
      <3>3. CASE Admitted(answer)
        <4>1. answer \in SUBSET PublicAddresses /\ \A tried \in SUBSET answer : tried \in SUBSET PublicAddresses
          BY <3>3 DEF Admitted
        <4> QED BY <3>1, <3>3, <4>1
      <3> QED BY <3>2, <3>3
    <2>2. fetch' \in FetchStates /\ fetch'.left = fetch.left /\ fetch'.answers = fetch.answers
      <3>1. CASE fetch' = fetch
        BY <1>1, <3>1
      <3>2. ASSUME NEW tried \in SUBSET PublicAddresses,
                   \/ fetch' = [fetch EXCEPT !.at = "respond", !.contacted = fetch.contacted \cup tried]
                   \/ fetch' = [fetch EXCEPT !.contacted = fetch.contacted \cup tried]
            PROVE  fetch' \in FetchStates /\ fetch'.left = fetch.left /\ fetch'.answers = fetch.answers
        <4>1. fetch.contacted \cup tried \in SUBSET PublicAddresses
          BY <1>1 DEF FetchStates
        <4> QED BY ONLY <1>1, <3>2, <4>1 DEF FetchStates
      <3> QED BY ONLY <2>1, <3>1, <3>2
    <2> QED BY <1>0, <2>1, <2>2, FetchKeeps
  <1>4. CASE UseConnection
    <2>1. fetch' \in FetchStates /\ fetch'.left = fetch.left /\ fetch'.answers = fetch.answers
      BY <1>1, <1>4 DEF UseConnection, FetchStates
    <2> QED BY <1>0, <1>4, <2>1, FetchKeeps DEF UseConnection
  <1>5. CASE Redirected
    <2>1. /\ checker' = checker \/ Verdict("refused")
          /\ \/ fetch' = [fetch EXCEPT !.at = "validate", !.requests = fetch.requests + 1]
             \/ fetch' = fetch
      BY <1>5 DEF Redirected
    <2>2. fetch' \in FetchStates /\ fetch'.left = fetch.left /\ fetch'.answers = fetch.answers
      <3>1. fetch.requests + 1 \in Nat
        BY <1>1 DEF FetchStates
      <3> QED BY ONLY <1>1, <2>1, <3>1 DEF FetchStates
    <2> QED BY <1>0, <2>1, <2>2, FetchKeeps
  <1>6. CASE FetchFails
    BY <1>6, RefusalKeeps DEF FetchFails
  <1> QED BY <1>2, <1>3, <1>4, <1>5, <1>6

\* A final answer is that of the first authority left.
LEMMA AnsweredNext == DecisionsInv /\ Answered => DecisionsInv'
  <1> SUFFICES ASSUME DecisionsInv, Answered PROVE DecisionsInv'
    OBVIOUS
  <1>1. SpecificationType /\ StagesPassed /\ ModulesPassed /\ AuthoritiesSeen
    BY DEF DecisionsInv
  <1>2. checker.verdict = "none" /\ checker.at = "fetch" /\ tree' = tree
    BY DEF Answered, Fetching
  <1>3. CASE Verdict("refused") /\ UNCHANGED fetch
    BY <1>2, <1>3, RefusalKeeps
  <1>4. ASSUME NEW status \in Statuses, NEW body \in Bodies, AsReviewed(Authority, status, body),
               fetch' = [fetch EXCEPT !.left = Tail(@), !.requests = 1, !.at = "validate",
                                      !.answers = @ \cup {<<Authority.id, status, body>>}],
               IF Len(fetch.left) = 1 THEN Verdict("accepted") ELSE UNCHANGED checker
        PROVE  DecisionsInv'
    <2>1. fetch \in FetchStates /\ fetch.left \in Seq(Pins) /\ fetch.left # <<>>
      BY <1>1, <1>2 DEF SpecificationType, AuthoritiesSeen, FetchStates
    <2>2. /\ Authority \in Pins /\ Tail(fetch.left) \in Seq(Pins)
          /\ Entries(fetch.left) = {Authority} \cup Entries(Tail(fetch.left))
          /\ Tail(fetch.left) = <<>> <=> Len(fetch.left) = 1
      BY <2>1, HeadAndTail DEF Authority
    <2> DEFINE answer == <<Authority.id, status, body>>
    <2>3. answer \in {pin.id : pin \in Pins} \X Statuses \X Bodies
      BY <2>2
    <2>4. AnswersPin(answer, Authority)
      BY <1>4 DEF AnswersPin
    <2> HIDE DEF answer
    <2>5. /\ fetch' \in FetchStates /\ fetch'.left = Tail(fetch.left)
          /\ fetch'.answers = fetch.answers \cup {answer}
      <3>1. fetch' = [fetch EXCEPT !.left = Tail(fetch.left), !.requests = 1, !.at = "validate",
                                   !.answers = fetch.answers \cup {answer}]
        BY <1>4 DEF answer
      <3> QED BY ONLY <3>1, <2>1, <2>2, <2>3 DEF FetchStates
    <2>6. /\ checker' \in [at : CheckStages, module : 1..(Len(SpecModules) + 1), owned : SUBSET Identifiers,
                           specified : SUBSET ModulesInOrder, unresolved : Nat, online : BOOLEAN,
                           verdict : {"none", "accepted", "refused"}]
          /\ checker'.at = "fetch" /\ checker'.module = checker.module
          /\ checker'.specified = checker.specified /\ checker'.owned = checker.owned
          /\ checker'.unresolved = checker.unresolved
          /\ checker'.verdict = IF Len(fetch.left) = 1 THEN "accepted" ELSE "none"
      <3>1. \/ Len(fetch.left) = 1 /\ checker' = [checker EXCEPT !.verdict = "accepted"]
            \/ Len(fetch.left) # 1 /\ checker' = checker
        BY <1>4 DEF Verdict
      <3>2. checker \in [at : CheckStages, module : 1..(Len(SpecModules) + 1), owned : SUBSET Identifiers,
                         specified : SUBSET ModulesInOrder, unresolved : Nat, online : BOOLEAN,
                         verdict : {"none", "accepted", "refused"}]
        BY <1>1 DEF SpecificationType
      <3> QED BY ONLY <3>1, <3>2, <1>2
    <2>7. SpecificationType' /\ StagesPassed'
      BY <1>1, <1>2, <2>5, <2>6 DEF SpecificationType, StagesPassed
    <2>8. ModulesPassed'
      BY <1>1, <1>2, <2>6, ModulesPassedKept
    <2>9. \A m \in checker.specified : \A pin \in Entries(tree[m].authorities) :
             SeenAsReviewed(pin)' \/ pin \in Entries(Tail(fetch.left))
      <3> SUFFICES ASSUME NEW m \in checker.specified, NEW pin \in Entries(tree[m].authorities),
                          pin \notin Entries(Tail(fetch.left))
                   PROVE  SeenAsReviewed(pin)'
        OBVIOUS
      <3>1. SeenAsReviewed(pin) \/ pin = Authority
        BY <1>1, <1>2, <2>2 DEF AuthoritiesSeen
      <3>2. CASE SeenAsReviewed(pin)
        BY <2>5, <3>2 DEF SeenAsReviewed
      <3>3. CASE pin = Authority
        BY <2>4, <2>5, <3>3 DEF SeenAsReviewed
      <3> QED BY <3>1, <3>2, <3>3
    <2>10. Entries(<<>>) = {}
      BY DEF Entries
    <2>11. AuthoritiesSeen'
      <3>1. checker'.verdict = "none" => fetch'.left # <<>>
        BY <2>2, <2>5, <2>6
      <3>2. checker'.verdict = "accepted" => Entries(Tail(fetch.left)) = {}
        BY <2>2, <2>6, <2>10
      <3>3. checker.module > Len(SpecModules) /\ checker.unresolved = 0
        BY <1>1, <1>2 DEF AuthoritiesSeen
      <3> QED BY <1>2, <2>5, <2>6, <2>9, <3>1, <3>2, <3>3 DEF AuthoritiesSeen
    <2> QED BY <2>7, <2>8, <2>11 DEF DecisionsInv
  <1>5. PICK status \in Statuses, body \in Bodies :
           IF ~AsReviewed(Authority, status, body) THEN Verdict("refused") /\ UNCHANGED fetch
           ELSE /\ fetch' = [fetch EXCEPT !.left = Tail(@), !.requests = 1, !.at = "validate",
                                          !.answers = @ \cup {<<Authority.id, status, body>>}]
                /\ IF Len(fetch.left) = 1 THEN Verdict("accepted") ELSE UNCHANGED checker
    BY Zenon DEF Answered
  <1>6. CASE AsReviewed(Authority, status, body)
    BY <1>4, <1>5, <1>6, Zenon
  <1>7. CASE ~AsReviewed(Authority, status, body)
    BY <1>3, <1>5, <1>7, Zenon
  <1> QED BY <1>6, <1>7

\* Every step of the check.
LEMMA DecisionsNext == DecisionsInv /\ (SpecificationNext \/ UNCHANGED specificationVars) => DecisionsInv'
  <1>1. ASSUME DecisionsInv, UNCHANGED specificationVars PROVE DecisionsInv'
    BY <1>1, FetchKeeps DEF specificationVars, DecisionsInv, SpecificationType
  <1> QED BY <1>1, UndeclaredNext, StagesNext, ClaimNext, ReviewedNext, FetchNext, AnsweredNext
          DEF SpecificationNext

\* What the check accepts: decisions that agree and are backed, of one owner each.
LEMMA AcceptedIsPassed ==
  ASSUME DecisionsInv, checker.verdict = "accepted"
  PROVE  AcceptedDecisionsAgree
  <1>1. SpecificationType /\ ModulesPassed /\ AuthoritiesSeen
    BY DEF DecisionsInv
  <1>2. Specified \subseteq checker.specified
    BY <1>1, SpecifiedIsBehind
  <1>3. ASSUME NEW m \in Specified PROVE DocumentsAgree(tree[m]) /\ DecisionsAreBacked(tree[m])
    <2>1. /\ Monitored(tree[m]) /\ Contract(m, tree[m]) /\ LedgerKeeps(tree[m])
          /\ \A d \in Entries(tree[m].decisions) : d.status # "unresolved"
      BY <1>1, <1>2 DEF ModulesPassed, Passed, AuthoritiesSeen
    <2>2. IsList(tree[m].conformance) /\ IsList(tree[m].history)
      BY <1>1, <1>2, ListsOfDocuments DEF SpecificationType
    <2> QED BY <2>1, <2>2, PassedAgrees, PassedIsBacked
  <1>4. \A m, n \in Specified : m # n => Ids(tree[m].decisions) \cap Ids(tree[n].decisions) = {}
    BY <1>1, <1>2 DEF ModulesPassed
  <1> QED BY <1>3, <1>4 DEF AcceptedDecisionsAgree

\* The inductive invariant of the check holds in every process that checks specifications.
LEMMA DecisionsHold == CommandSpec => [](ProcessInv /\ (golib.command = "specification" => DecisionsInv))
  <1>1. CommandInit => ProcessInv /\ (golib.command = "specification" => DecisionsInv)
    BY ProcessInit, DecisionsStart DEF CommandInit
  <1>2. /\ ProcessInv /\ (golib.command = "specification" => DecisionsInv)
        /\ [CommandNext]_commandVars
        => ProcessInv' /\ (golib.command = "specification" => DecisionsInv)'
    BY ProcessStep, ProcessNext, DecisionsNext DEF ProcessInv
  <1> QED BY <1>1, <1>2, PTL DEF CommandSpec

\* golib specification check exits 0 only over repositories whose documents tell of
\* the same decisions, each backed and owned once, and online only when every
\* authority gave the content or the denial its policy pins; and it contacts
\* public addresses only.
THEOREM DecisionsAreReviewed == CommandSpec => []SpecificationIsReviewed
  <1>1. DecisionsInv => AcceptedDecisionsAgree
    BY AcceptedIsPassed DEF AcceptedDecisionsAgree
  <1>2. ASSUME DecisionsInv PROVE OnlineIsReviewed
    <2>1. fetch.contacted \subseteq PublicAddresses
      BY <1>2 DEF DecisionsInv, SpecificationType, FetchStates
    <2>2. ASSUME checker.verdict = "accepted", checker.online, NEW m \in Specified,
                 NEW pin \in Entries(tree[m].authorities)
          PROVE  \E answer \in fetch.answers :
                    /\ answer[1] = pin.id
                    /\ \/ pin.access # "restricted" /\ SeenContent(pin, answer)
                       \/ ~Public(pin) /\ SeenDenial(pin, answer)
      <3>1. m \in checker.specified
        BY <1>2, <2>2, SpecifiedIsBehind DEF DecisionsInv
      <3>2. PICK answer \in fetch.answers : AnswersPin(answer, pin)
        BY <1>2, <2>2, <3>1 DEF DecisionsInv, AuthoritiesSeen, SeenAsReviewed
      <3>3. ExactPin(pin)
        BY <1>2, <2>2, <3>1 DEF DecisionsInv, ModulesPassed, Passed, Monitored
      <3> QED BY <3>2, <3>3, PinAnswered
    <2> QED BY <2>1, <2>2 DEF OnlineIsReviewed
  <1>3. ProcessInv /\ (golib.command = "specification" => DecisionsInv) => SpecificationIsReviewed
    BY <1>1, <1>2 DEF SpecificationIsReviewed, Exits, ProcessInv, Succeeded
  <1> QED BY DecisionsHold, <1>3, PTL
=============================================================================
