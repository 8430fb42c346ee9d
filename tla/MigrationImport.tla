-------------------------- MODULE MigrationImport --------------------------
(***************************************************************************)
(* golib mutation import: approved checkpoints of the old tooling become   *)
(* evidence of today's content (internal/mutation campaign.go Import,      *)
(* migration.go, verifier_compatibility.go).  The checkpoints are taken in *)
(* order; each is hashed, approved by the ledger, checked for the old      *)
(* verifier's package paths, and published as a report and a record.       *)
(*                                                                         *)
(* Contents stand for what a package's digests are taken of: an input is   *)
(* the scheme of a digest with the content.  While the import runs the     *)
(* sources are edited, a campaign executes packages and publishes under    *)
(* the same digests, and the process may be killed and run again.          *)
(***************************************************************************)
EXTENDS Naturals, Sequences, FiniteSets

CONSTANTS
    Contents,       \* contents of a package
    Native,         \* contents with no file excluded on this platform
    SamePaths,      \* contents whose package paths the old verifier resolves alike
    Archives,       \* archives read: sequences of checkpoints, sorted by package
    Ledgers,        \* ledgers read
    Absent,         \* no file, no value
    MaxImportEdits, \* bound: edits of the sources
    MaxImports      \* bound: imports started

\* A report has two digests, and a record or an approval names one of them.
Digested(outcome, form) == [outcome |-> outcome, form |-> form]
Forms == {"canonical", "legacy"}
Schemes == {"v1", "v2"}

Identity(scheme, content) == [scheme |-> scheme, content |-> content]

MigratedPackages == UNION {{checkpoints[n].package : n \in DOMAIN checkpoints} : checkpoints \in Archives}
Outcomes == UNION {{checkpoints[n].outcome : n \in DOMAIN checkpoints} : checkpoints \in Archives}

EvidenceKeys == [package : MigratedPackages, content : Contents]
EvidenceRecords ==
    [report : [outcome : Outcomes, form : Forms], origin : {"imported", "executed"},
     verifier : {"current"} \cup {read.verifier : read \in Ledgers}]

ASSUME MigrationAssumption ==
    /\ Native \subseteq Contents /\ SamePaths \subseteq Contents
    /\ \A checkpoints \in Archives :
          Len(checkpoints) \in Nat \ {0} /\ DOMAIN checkpoints = 1..Len(checkpoints)
    /\ Absent \notin Contents \cup Outcomes \cup EvidenceRecords
    /\ MaxImportEdits \in Nat /\ MaxImports \in Nat

VARIABLES
    sources,    \* content of every package
    archive, ledger,
    published,  \* what the report of every key says, or Absent
    imported,   \* evidence records by key
    importer,   \* the import: step, checkpoint at hand, hash, packages skipped
    importBudget

importVars == <<sources, archive, ledger, published, imported, importer, importBudget>>

Idle == [step |-> "idle", next |-> 1, content |-> Absent, skipped |-> {}, existing |-> Absent]

-----------------------------------------------------------------------------
(* A release that digested reports in the legacy form may have imported a  *)
(* checkpoint before, at the content it was executed on.                   *)
EarlierImport(checkpoint) ==
    [key |-> [package |-> checkpoint.package, content |-> checkpoint.input.content],
     record |-> [report |-> Digested(checkpoint.outcome, "legacy"),
                 origin |-> "imported", verifier |-> ledger.verifier]]

Checkpoint == archive[importer.next]
Hashed == importer.content
EvidenceKey == [package |-> Checkpoint.package, content |-> Hashed]

(* migration.go approve: exactly one verifier approval for the checkpoint's *)
(* input or its lineage, and the verifier it names itself.                 *)
Lineage(checkpoint) == {checkpoint.input} \cup checkpoint.lineage
VerifierApproved(checkpoint) ==
    /\ Cardinality({approval \in ledger.verifiers :
            /\ approval.package = checkpoint.package /\ approval.input \in Lineage(checkpoint)
            /\ approval.report.outcome = checkpoint.outcome}) = 1
    /\ checkpoint.verifier \in {"", ledger.verifier}

(* An input is approved when it is the checkpoint's own, or exactly one    *)
(* entry replaces the checkpoint's own input by it.                        *)
InputApproved(checkpoint, input) ==
    \/ checkpoint.input = input
    \/ Cardinality({entry \in ledger.entries :
            /\ entry.package = checkpoint.package /\ entry.input = checkpoint.input
            /\ entry.replacement = input /\ entry.report.outcome = checkpoint.outcome}) = 1

(* Current and older digests of the same observed content are candidates.  *)
Candidates(content) == {Identity(scheme, content) : scheme \in Schemes}

MigrationInit ==
    /\ archive \in Archives /\ ledger \in Ledgers
    /\ sources \in [MigratedPackages -> Contents]
    /\ importer = Idle
    /\ importBudget = [edits |-> MaxImportEdits, imports |-> MaxImports]
    /\ \E earlier \in SUBSET {EarlierImport(archive[n]) : n \in DOMAIN archive} :
          /\ published = [key \in EvidenceKeys |->
                 IF \E one \in earlier : one.key = key
                 THEN (CHOOSE one \in earlier : one.key = key).record.report.outcome ELSE Absent]
          /\ imported = [key \in EvidenceKeys |->
                 IF \E one \in earlier : one.key = key
                 THEN (CHOOSE one \in earlier : one.key = key).record ELSE Absent]

Goto(step) == importer' = [importer EXCEPT !.step = step]
NextCheckpoint(skipped) ==
    importer' = [importer EXCEPT
        !.skipped = @ \cup skipped, !.content = Absent, !.existing = Absent,
        !.next = IF @ = Len(archive) THEN @ ELSE @ + 1,
        !.step = IF importer.next < Len(archive) THEN "hash"
                 ELSE IF importer.skipped \cup skipped = {} THEN "imported" ELSE "changed"]
Skip == NextCheckpoint({Checkpoint.package})
Abort == Goto("failed")
Disk == <<sources, archive, ledger, published, imported>>

Import ==
    /\ importer.step = "idle" /\ importBudget.imports > 0
    /\ importBudget' = [importBudget EXCEPT !.imports = @ - 1]
    /\ Goto("hash") /\ UNCHANGED Disk

(* Mutant of Hash: ends at the first checkpoint of another platform. *)
HashEnds ==
    /\ importer.step = "hash"
    /\ LET content == sources[Checkpoint.package] IN
       IF content \notin Native \/ ~Checkpoint.native
       THEN Goto("imported")
       ELSE importer' = [importer EXCEPT !.step = "approve", !.content = content]
    /\ UNCHANGED <<Disk, importBudget>>

(* packageInputsForVerifiers (module Campaign has its steps): the content  *)
(* hashed now.  A package of another platform selection is left to the     *)
(* campaign before anybody asks whether it is approved.                    *)
Hash ==
    /\ importer.step = "hash"
    /\ LET content == sources[Checkpoint.package] IN
       IF content \notin Native \/ ~Checkpoint.native
       THEN Skip
       ELSE importer' = [importer EXCEPT !.step = "approve", !.content = content]
    /\ UNCHANGED <<Disk, importBudget>>

(* A missing or ambiguous verifier approval ends the import, a changed     *)
(* input only skips the checkpoint.                                        *)
Approve ==
    /\ importer.step = "approve"
    /\ CASE ~VerifierApproved(Checkpoint) -> Abort
         [] VerifierApproved(Checkpoint)
              /\ \E input \in Candidates(Hashed) : InputApproved(Checkpoint, input) ->
                  Goto(IF ledger.verifier = "current" THEN "report" ELSE "paths")
         [] OTHER -> Skip
    /\ UNCHANGED <<Disk, importBudget>>

(* Mutant of ComparePaths: does not compare the digest of what it read. *)
ComparePathsUndigested ==
    /\ importer.step = "paths"
    /\ IF sources[Checkpoint.package] \in SamePaths THEN Goto("report") ELSE Skip
    /\ UNCHANGED <<Disk, importBudget>>

(* legacyPackagePathsUnchanged reads the files again: they must resolve to *)
(* the package and digest to the source that was hashed.                   *)
ComparePaths ==
    /\ importer.step = "paths"
    /\ LET content == sources[Checkpoint.package] IN
       IF content \in SamePaths /\ content = Hashed THEN Goto("report") ELSE Skip
    /\ UNCHANGED <<Disk, importBudget>>

(* storeReport publishes once; an equal report is reused.                  *)
StoreCheckpoint ==
    /\ importer.step = "report"
    /\ IF published[EvidenceKey] \in {Absent, Checkpoint.outcome}
       THEN /\ published' = [published EXCEPT ![EvidenceKey] = Checkpoint.outcome]
            /\ Goto("load")
       ELSE Abort /\ UNCHANGED published
    /\ UNCHANGED <<sources, archive, ledger, imported, importBudget>>

(* An earlier import may have recorded the legacy form of the digest.      *)
LoadExisting ==
    /\ importer.step = "load"
    /\ importer' = [importer EXCEPT !.step = "record", !.existing = imported[EvidenceKey]]
    /\ UNCHANGED <<Disk, importBudget>>

ImportedRecord ==
    LET legacy == Digested(Checkpoint.outcome, "legacy") IN
    [report |-> IF importer.existing # Absent /\ importer.existing.report = legacy
                THEN legacy ELSE Digested(Checkpoint.outcome, "canonical"),
     origin |-> "imported", verifier |-> ledger.verifier]

StoreImported ==
    /\ importer.step = "record"
    /\ IF imported[EvidenceKey] \in {Absent, ImportedRecord}
       THEN /\ imported' = [imported EXCEPT ![EvidenceKey] = ImportedRecord]
            /\ NextCheckpoint({})
       ELSE Abort /\ UNCHANGED imported
    /\ UNCHANGED <<sources, archive, ledger, published, importBudget>>

(* Any of the calls may fail, and the process may be killed.               *)
ImportFails ==
    /\ importer.step \in {"hash", "paths", "report", "load", "record"}
    /\ Abort /\ UNCHANGED <<Disk, importBudget>>

ImportAgain ==
    /\ importer.step \in {"imported", "changed", "failed"} /\ importBudget.imports > 0
    /\ importer' = Idle
    /\ UNCHANGED <<Disk, importBudget>>

MigrationStep ==
    \/ Import \/ Hash \/ Approve \/ ComparePaths \/ StoreCheckpoint
    \/ LoadExisting \/ StoreImported \/ ImportFails

-----------------------------------------------------------------------------
(* Meanwhile: an edit, and a campaign (golib mutation --package) that has  *)
(* executed the content and publishes its report and then its record.      *)
EditPackage ==
    /\ importBudget.edits > 0
    /\ importBudget' = [importBudget EXCEPT !.edits = @ - 1]
    /\ \E package \in MigratedPackages, content \in Contents :
          /\ content # sources[package]
          /\ sources' = [sources EXCEPT ![package] = content]
    /\ UNCHANGED <<archive, ledger, published, imported, importer>>

CampaignReport(key) ==
    /\ published[key] = Absent /\ key.content = sources[key.package]
    /\ \E outcome \in Outcomes : published' = [published EXCEPT ![key] = outcome]
    /\ UNCHANGED <<sources, archive, ledger, imported, importer, importBudget>>

CampaignRecord(key) ==
    /\ imported[key] = Absent /\ published[key] # Absent
    /\ imported' = [imported EXCEPT ![key] =
           [report |-> Digested(published[key], "canonical"), origin |-> "executed",
            verifier |-> "current"]]
    /\ UNCHANGED <<sources, archive, ledger, published, importer, importBudget>>

Meanwhile ==
    EditPackage \/ \E key \in EvidenceKeys : CampaignReport(key) \/ CampaignRecord(key)

MigrationNext == MigrationStep \/ Meanwhile \/ ImportAgain
MigrationSpec == MigrationInit /\ [][MigrationNext]_importVars
-----------------------------------------------------------------------------
(* "No old execution is reported as rerun" and nothing is vouched for that *)
(* nobody approved: an imported record stands on a published report of a   *)
(* checkpoint whose verifier was reviewed and which was executed on this   *)
(* content or on one whose replacement by it was reviewed; under a         *)
(* historical verifier the content must resolve to the package it did,     *)
(* though the files are read twice and may be edited in between.           *)
ImportedIsApproved ==
    \A key \in EvidenceKeys :
        LET record == imported[key] IN
        record # Absent /\ record.origin = "imported" =>
            /\ published[key] = record.report.outcome
            /\ record.verifier = "historical" /\ record.report.form = "canonical" =>
                  key.content \in SamePaths
            /\ \E n \in DOMAIN archive :
                  LET checkpoint == archive[n] IN
                  /\ checkpoint.package = key.package /\ checkpoint.outcome = published[key]
                  /\ \/ checkpoint.input.content = key.content
                     \/ \E entry \in ledger.entries :
                           /\ entry.package = key.package /\ entry.input = checkpoint.input
                           /\ entry.replacement.content = key.content
                           /\ entry.report.outcome = checkpoint.outcome

(* docs/configuration.md: a changed checkpoint "is skipped, while approved *)
(* packages are imported".  An import that comes to its end has dealt with *)
(* every checkpoint, whatever was skipped before it, and says whether any  *)
(* was skipped.                                                            *)
ImportAccounts ==
    importer.step \in {"imported", "changed"} =>
        /\ importer.step = "imported" <=> importer.skipped = {}
        /\ \A n \in DOMAIN archive :
              \/ archive[n].package \in importer.skipped
              \/ \E key \in EvidenceKeys :
                    /\ key.package = archive[n].package /\ imported[key] # Absent
                    /\ imported[key].origin = "imported"
=============================================================================
