------------------------------ MODULE Upgrade -------------------------------
(***************************************************************************)
(* golib upgrade (internal/upgrade): the tooling pins of a repository live *)
(* in two files, .golib.yaml and the CI workflow.  Apply plans both, then  *)
(* replaces one after the other, each atomically, and restores the first   *)
(* when the second cannot be written.  Any file operation may fail, and    *)
(* the process or the machine may stop between any two of them; whoever    *)
(* asked for the upgrade runs it again.                                    *)
(***************************************************************************)
EXTENDS Naturals

CONSTANTS
    Releases,       \* each with a version, a checksum and a workflow commit
    None,           \* a pin that the file does not have
    Torn,           \* a file whose data never reached the disk
    MaxFaults       \* bound: failed operations and stops

Files == {"config", "workflow"}

\* .golib.yaml: tool_version, and tool_checksums_sha256 if there is one.
Configurations == [version : Releases, digest : Releases \cup {None}]

\* The workflow: library-ci.yml@commit, its comment, and tooling_sha.
Workflows == [use : Releases, comment : Releases \cup {None}, input : Releases]

ASSUME UpgradeAssumption ==
    /\ MaxFaults \in Nat
    /\ None \notin Releases
    /\ Torn \notin Configurations \cup Workflows

Contents == Configurations \cup Workflows \cup {Torn}

VARIABLES
    request,        \* the release asked for
    disk,           \* disk[f]: content of a file as programs read it
    old,            \* old[f]: contents a power loss may bring back
    pc,
    original,       \* the files as Plan read them
    temporary,      \* the file being written: "none", "written", "synced"
    faults

vars == <<request, disk, old, pc, original, temporary, faults>>

-----------------------------------------------------------------------------

\* Mutant of Rewritten: the commit passed as tooling_sha stays.
RewrittenUse(f) ==
    IF f = "config"
    THEN [version |-> request, digest |-> request]
    ELSE [original["workflow"] EXCEPT !.use = request, !.comment = request]

\* rewriteConfiguration, rewriteWorkflow: every pin becomes the requested one.
Rewritten(f) ==
    IF f = "config"
    THEN [version |-> request, digest |-> request]
    ELSE [use |-> request, comment |-> request, input |-> request]

Changed(f) == original[f] # Rewritten(f)

\* What Plan accepts: every pin is there once, and the workflow agrees with itself.
Plannable(files) ==
    /\ files["config"] # Torn
    /\ files["workflow"] # Torn /\ files["workflow"].use = files["workflow"].input

Pinned(files) ==
    /\ files["config"] = [version |-> request, digest |-> request]
    /\ files["workflow"] = [use |-> request, comment |-> request, input |-> request]

Ended == {"refused", "updated", "failed", "rollbackFailed", "stopped"}

TypeOK ==
    /\ request \in Releases
    /\ disk \in [Files -> Contents] /\ original \in [Files -> Contents]
    /\ disk["config"] \in Configurations \cup {Torn}
    /\ disk["workflow"] \in Workflows \cup {Torn}
    /\ old \in [Files -> SUBSET Contents]
    /\ pc \in {"plan", "config", "workflow", "rollback"} \cup Ended
    /\ temporary \in {"none", "written", "synced"}
    /\ faults \in 0..MaxFaults

Init ==
    /\ request \in Releases
    /\ disk \in [Files -> Configurations \cup Workflows]
    /\ disk["config"] \in Configurations /\ disk["workflow"] \in Workflows
    /\ old = [f \in Files |-> {}]
    /\ pc = "plan"
    /\ original = disk
    /\ temporary = "none"
    /\ faults = 0

-----------------------------------------------------------------------------

\* Mutant of Plan: the two files must agree on a release.
PlanAgreeing ==
    /\ pc = "plan"
    /\ original' = disk
    /\ pc' = IF Plannable(disk) /\ disk["config"].version = disk["workflow"].use THEN "config" ELSE "refused"
    /\ UNCHANGED <<request, disk, old, temporary, faults>>

\* buildPlan: nothing is written before both files are understood.
Plan ==
    /\ pc = "plan"
    /\ original' = disk
    /\ pc' = IF Plannable(disk) THEN "config" ELSE "refused"
    /\ UNCHANGED <<request, disk, old, temporary, faults>>

\* The file that is written at pc, and with what.
Target == IF pc = "workflow" THEN "workflow" ELSE "config"

Content == IF pc = "rollback" THEN original["config"] ELSE Rewritten(Target)

Writing == pc = "rollback" \/ (pc \in {"config", "workflow"} /\ Changed(Target))

Written ==
    CASE pc = "config" -> "workflow" [] pc = "workflow" -> "updated" [] OTHER -> "failed"

\* Mutant of NotWritten: the first file is left as it is.
NotWrittenKeeps ==
    CASE pc = "config" -> "failed" [] pc = "workflow" -> "failed" [] OTHER -> "rollbackFailed"

\* apply: the first file is restored if it was replaced.
NotWritten ==
    CASE pc = "config" -> "failed"
      [] pc = "workflow" -> (IF Changed("config") THEN "rollback" ELSE "failed")
      [] OTHER -> "rollbackFailed"

\* A file that does not change is not written.
Skip ==
    /\ pc \in {"config", "workflow"} /\ ~Changed(Target)
    /\ pc' = Written
    /\ UNCHANGED <<request, disk, old, original, temporary, faults>>

\* atomicWriteWithFiles: into a temporary file in the same directory, ...
WriteTemporary ==
    /\ Writing /\ temporary = "none"
    /\ temporary' = "written"
    /\ UNCHANGED <<request, disk, old, pc, original, faults>>

Sync ==
    /\ temporary = "written"
    /\ temporary' = "synced"
    /\ UNCHANGED <<request, disk, old, pc, original, faults>>

\* Mutant of Rename: of a temporary file that was not synced.
RenameUnsynced ==
    /\ temporary # "none"
    /\ disk' = [disk EXCEPT ![Target] = Content]
    /\ old' = [old EXCEPT ![Target] = @ \cup {disk[Target], Torn}]
    /\ temporary' = "none"
    /\ pc' = Written
    /\ UNCHANGED <<request, original, faults>>

\* ... and renamed over the target.  The directory is not synced.
Rename ==
    /\ temporary = "synced"
    /\ disk' = [disk EXCEPT ![Target] = Content]
    /\ old' = [old EXCEPT ![Target] = @ \cup {disk[Target]}]
    /\ temporary' = "none"
    /\ pc' = Written
    /\ UNCHANGED <<request, original, faults>>

Fault == faults < MaxFaults /\ faults' = faults + 1

\* Any operation of the write fails; the temporary file is removed.
WriteFails ==
    /\ Fault /\ Writing
    /\ temporary' = "none"
    /\ pc' = NotWritten
    /\ UNCHANGED <<request, disk, old, original>>

\* The process is killed.
Killed ==
    /\ Fault /\ pc \notin Ended
    /\ pc' = "stopped"
    /\ temporary' = "none"
    /\ UNCHANGED <<request, disk, old, original>>

\* The machine loses power: each rename may be undone, on its own.
PowerLoss ==
    /\ Fault
    /\ disk' \in [Files -> Contents]
    /\ \A f \in Files : disk'[f] \in {disk[f]} \cup old[f]
    /\ old' = [f \in Files |-> {}]
    /\ pc' = "stopped"
    /\ temporary' = "none"
    /\ UNCHANGED <<request, original>>

\* Upgrade is run again.
Again ==
    /\ pc \in {"failed", "rollbackFailed", "stopped"}
    /\ pc' = "plan"
    /\ UNCHANGED <<request, disk, old, original, temporary, faults>>

Go == Plan \/ Skip \/ WriteTemporary \/ Sync \/ Rename \/ Again

Next == Go \/ WriteFails \/ Killed \/ PowerLoss

Spec == Init /\ [][Next]_vars

\* The program goes on, and an upgrade that did not succeed is run again.
FairSpec == Spec /\ WF_vars(Go)

-----------------------------------------------------------------------------

\* Besides the types: success means that both files pin the requested release, whatever earlier
\* attempts left behind; an attempt that reports an error, and no rollback error
\* beside it, has left both files as it found them, to the last pin
\* (upgrade.go:185-203).
AnswerIsTrue ==
    /\ TypeOK
    /\ pc = "updated" => Pinned(disk)
    /\ pc = "failed" => disk = original

\* No sequence of failures and stops leaves a file that the next attempt refuses.
StaysPlannable == [][Plannable(disk) => Plannable(disk')]_vars

\* An upgrade that was possible once is complete in the end, if it is run again
\* after every failure.
EventuallyPinned == Plannable(disk) => <>[]Pinned(disk)
=============================================================================
