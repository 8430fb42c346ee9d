------------------------- MODULE CatalogPublication -------------------------
(***************************************************************************)
(* golib cohesion aggregate: the ecosystem catalog is rendered in memory   *)
(* from locked projections, staged beside its destination and exchanged    *)
(* for the published set by renames (internal/cohesion/aggregate.go).      *)
(*                                                                         *)
(* The directory is what survives the process: for every artifact its      *)
(* target, the temporary file and the backup of the current invocation,    *)
(* and what earlier, killed invocations left.  The publisher is the        *)
(* process's memory: stagedCatalog's fields, and the errors it will join.  *)
(* Any file operation may fail, the process may be killed anywhere and the *)
(* command may be run again on inputs of another version.                  *)
(***************************************************************************)
EXTENDS Naturals, Sequences

CONSTANTS Artifacts,      \* aggregateArtifactNames, in their order
          Versions,       \* contents of the locked inputs
          NoFile,         \* no file of that name
          Reserved,       \* an empty file made by CreateTemp
          MaxFileFaults,  \* bound: failing file operations and kills
          MaxGenerations  \* bound: invocations of the command

ASSUME CatalogAssumption ==
    /\ Artifacts \in Seq(STRING) /\ Len(Artifacts) > 0
    /\ \A i, j \in 1..Len(Artifacts) : Artifacts[i] = Artifacts[j] => i = j
    /\ {NoFile, Reserved} \cap Versions = {} /\ NoFile # Reserved
    /\ MaxFileFaults \in Nat /\ MaxGenerations \in Nat \ {0}

VARIABLES directory,  \* the files of the output directory
          publisher,  \* the memory of the process
          generation, \* what the invocation began from, and how many there were
          fileFaults  \* failures and kills so far

catalogVars == <<directory, publisher, generation, fileFaults>>

Indices == 1..Len(Artifacts)
FileContents == Versions \cup {NoFile, Reserved}

CatalogPhases == {"idle", "stage", "reserve", "vacate", "aside", "replace",
                  "discard", "unpublish", "restore", "cleanup", "done"}
CatalogResults == {"none", "passed", "refused", "restored", "unrestored",
                   "undiscarded", "killed"}

(* A stagedCatalog: what publishCatalogSet remembers of one artifact. *)
Unstaged == [existed |-> FALSE, temporary |-> FALSE, backup |-> FALSE, published |-> FALSE]

CatalogInit ==
    /\ \E version \in Versions, present \in SUBSET Indices :
          directory = [target |-> [i \in Indices |-> IF i \in present THEN version ELSE NoFile],
                       temporary |-> [i \in Indices |-> NoFile],
                       backup |-> [i \in Indices |-> NoFile],
                       remnants |-> [i \in Indices |-> {}]]
    /\ publisher = [phase |-> "idle", index |-> 1, fresh |-> NoFile,
                    entry |-> [i \in Indices |-> Unstaged],
                    trouble |-> FALSE, result |-> "none"]
    /\ generation = [number |-> 1, began |-> directory.target]
    /\ fileFaults = 0

-----------------------------------------------------------------------------
At(phase) == publisher.phase = phase
Entry == publisher.entry[publisher.index]
LastEntry == publisher.index = Len(Artifacts)

(* The loop over the entries goes on in a phase, and leaves it at its end. *)
NextEntry(memory, phase, following) ==
    publisher' = IF LastEntry THEN [memory EXCEPT !.phase = following, !.index = 1]
                         ELSE [memory EXCEPT !.phase = phase, !.index = @ + 1]

Remember(field, value) == [publisher EXCEPT !.entry[publisher.index][field] = value]
Finish(memory, result) == publisher' = [memory EXCEPT !.phase = "done", !.result = result]

(* A failing operation of the publication: rollbackCatalogSet goes through *)
(* the entries from the last to the first, whichever of them it was.       *)
RollBack == publisher' = [publisher EXCEPT !.phase = "unpublish", !.index = Len(Artifacts)]

File(kind, content) == directory' = [directory EXCEPT ![kind][publisher.index] = content]
Moved(from, to) ==
    directory' = [directory EXCEPT ![from][publisher.index] = NoFile,
                                   ![to][publisher.index] = directory[from][publisher.index]]

Fault == fileFaults < MaxFileFaults /\ fileFaults' = fileFaults + 1
NoFault == UNCHANGED fileFaults

(* Aggregate: every projection is read, compared with its locked digest,   *)
(* decoded and rendered before anything is written.  The result is the set *)
(* of artifacts of one version of the inputs, or an error.                 *)
Aggregate ==
    /\ At("idle")
    /\ \/ \E version \in Versions :
             publisher' = [publisher EXCEPT !.phase = "stage", !.index = 1, !.fresh = version]
       \/ Finish(publisher, "refused")
    /\ UNCHANGED <<directory, generation>> /\ NoFault

(* CheckAggregate reads every artifact and compares it with the rendering. *)
CheckAggregate ==
    /\ At("stage") /\ publisher.index = 1 /\ \A i \in Indices : ~publisher.entry[i].temporary
    /\ Finish(publisher,
              IF \A i \in Indices : directory.target[i] = publisher.fresh THEN "passed" ELSE "refused")
    /\ UNCHANGED <<directory, generation>> /\ NoFault

(* stageCatalog writes, syncs and closes a temporary file; when it fails   *)
(* its own file is removed (an error of that is dropped) and the earlier   *)
(* ones by cleanupStagedCatalogs.                                          *)
Stage ==
    /\ At("stage")
    /\ \/ /\ File("temporary", publisher.fresh)
          /\ NextEntry([publisher EXCEPT !.entry[publisher.index] =
                           [Unstaged EXCEPT !.existed = directory.target[publisher.index] # NoFile,
                                            !.temporary = TRUE]], "stage", "reserve")
          /\ NoFault
       \/ /\ Fault
          /\ \E left \in {NoFile, Reserved} : File("temporary", left)
          /\ publisher' = [publisher EXCEPT !.phase = "cleanup", !.index = 1]
    /\ UNCHANGED generation

(* The backup's name is reserved by creating and closing it ...            *)
Reserve ==
    /\ At("reserve")
    /\ \/ /\ ~Entry.existed
          /\ NextEntry(publisher, "reserve", "replace") /\ UNCHANGED directory /\ NoFault
       \/ /\ Entry.existed
          /\ File("backup", Reserved)
          /\ publisher' = [publisher EXCEPT !.phase = "vacate"] /\ NoFault
       \/ /\ Entry.existed /\ Fault
          /\ \E left \in {NoFile, Reserved} : File("backup", left)
          /\ RollBack
    /\ UNCHANGED generation

(* ... and removed again for the rename, which must not find it.           *)
Vacate ==
    /\ At("vacate")
    /\ \/ File("backup", NoFile) /\ publisher' = [publisher EXCEPT !.phase = "aside"] /\ NoFault
       \/ Fault /\ RollBack /\ UNCHANGED directory
    /\ UNCHANGED generation

SetAside ==
    /\ At("aside")
    /\ \/ /\ Moved("target", "backup")
          /\ NextEntry(Remember("backup", TRUE), "reserve", "replace") /\ NoFault
       \/ Fault /\ RollBack /\ UNCHANGED directory
    /\ UNCHANGED generation

(* Mutant of Replace: drops the backup with the rename instead of at the end. *)
ReplaceDiscards ==
    /\ At("replace")
    /\ \/ /\ directory' = [directory EXCEPT !.temporary[publisher.index] = NoFile,
                                          !.target[publisher.index] = directory.temporary[publisher.index],
                                          !.backup[publisher.index] = NoFile]
          /\ NextEntry([publisher EXCEPT !.entry[publisher.index].temporary = FALSE,
                                         !.entry[publisher.index].published = TRUE],
                       "replace", "discard")
          /\ NoFault
       \/ Fault /\ RollBack /\ UNCHANGED directory
    /\ UNCHANGED generation

Replace ==
    /\ At("replace")
    /\ \/ /\ Moved("temporary", "target")
          /\ NextEntry([publisher EXCEPT !.entry[publisher.index].temporary = FALSE,
                                         !.entry[publisher.index].published = TRUE],
                       "replace", "discard")
          /\ NoFault
       \/ Fault /\ RollBack /\ UNCHANGED directory
    /\ UNCHANGED generation

(* All artifacts are published: an error here returns without a rollback. *)
Discard ==
    /\ At("discard")
    /\ \/ /\ IF Entry.backup THEN File("backup", NoFile) ELSE UNCHANGED directory
          /\ IF LastEntry THEN Finish(Remember("backup", FALSE), "passed")
                     ELSE NextEntry(Remember("backup", FALSE), "discard", "done")
          /\ NoFault
       \/ Entry.backup /\ Fault /\ Finish(publisher, "undiscarded") /\ UNCHANGED directory
    /\ UNCHANGED generation

(* Mutant of Unpublish: leaves published artifacts that had no earlier file. *)
UnpublishReplaced ==
    /\ At("unpublish")
    /\ IF Entry.published /\ Entry.existed THEN File("target", NoFile) ELSE UNCHANGED directory
    /\ publisher' = [publisher EXCEPT !.phase = "restore"]
    /\ NoFault /\ UNCHANGED generation

(* rollbackCatalogSet: remove what was published, then restore the backup. *)
Unpublish ==
    /\ At("unpublish")
    /\ \/ /\ IF Entry.published THEN File("target", NoFile) ELSE UNCHANGED directory
          /\ publisher' = [publisher EXCEPT !.phase = "restore"] /\ NoFault
       \/ /\ Entry.published /\ Fault
          /\ publisher' = [publisher EXCEPT !.phase = "restore", !.trouble = TRUE]
          /\ UNCHANGED directory
    /\ UNCHANGED generation

Restored(memory) ==
    publisher' = IF publisher.index = 1 THEN [memory EXCEPT !.phase = "cleanup"]
                 ELSE [memory EXCEPT !.phase = "unpublish", !.index = @ - 1]

Restore ==
    /\ At("restore")
    /\ \/ /\ Entry.backup /\ Moved("backup", "target") /\ Restored(Remember("backup", FALSE)) /\ NoFault
       \/ /\ Entry.backup /\ Fault /\ Restored([publisher EXCEPT !.trouble = TRUE]) /\ UNCHANGED directory
       \/ /\ ~Entry.backup /\ Restored(publisher) /\ UNCHANGED directory /\ NoFault
    /\ UNCHANGED generation

(* cleanupStagedCatalogs removes the temporaries; its errors are dropped. *)
Cleanup ==
    /\ At("cleanup")
    /\ \/ /\ directory' = [directory EXCEPT !.temporary =
                             [i \in Indices |-> IF publisher.entry[i].temporary THEN NoFile ELSE @[i]]]
          /\ NoFault
       \/ Fault /\ UNCHANGED directory
    /\ Finish(publisher, IF publisher.trouble THEN "unrestored" ELSE "restored")
    /\ UNCHANGED generation

CatalogStep ==
    \/ Aggregate \/ CheckAggregate \/ Stage \/ Reserve \/ Vacate \/ SetAside
    \/ Replace \/ Discard \/ Unpublish \/ Restore \/ Cleanup

CatalogKilled ==
    /\ publisher.phase \notin {"idle", "done"} /\ Fault
    /\ Finish(publisher, "killed")
    /\ UNCHANGED <<directory, generation>>

(* The command is run again: it knows nothing of the files left behind,    *)
(* which keep their random names.                                          *)
CatalogAgain ==
    /\ At("done") /\ generation.number < MaxGenerations
    /\ directory' = [directory EXCEPT
          !.temporary = [i \in Indices |-> NoFile],
          !.backup = [i \in Indices |-> NoFile],
          !.remnants = [i \in Indices |-> @[i] \cup ({directory.backup[i]} \ {NoFile, Reserved})]]
    /\ publisher' = [phase |-> "idle", index |-> 1, fresh |-> NoFile,
                     entry |-> [i \in Indices |-> Unstaged],
                     trouble |-> FALSE, result |-> "none"]
    /\ generation' = [number |-> generation.number + 1, began |-> directory.target]
    /\ NoFault

CatalogNext == CatalogStep \/ CatalogKilled \/ CatalogAgain
CatalogSpec == CatalogInit /\ [][CatalogNext]_catalogVars
-----------------------------------------------------------------------------
(* The whole set is what this invocation rendered. *)
Committed == \A i \in Indices : directory.target[i] = publisher.fresh

CatalogType ==
    /\ directory \in [target: [Indices -> Versions \cup {NoFile}],
                      temporary: [Indices -> FileContents], backup: [Indices -> FileContents],
                      remnants: [Indices -> SUBSET Versions]]
    /\ publisher \in [phase: CatalogPhases, index: Indices, fresh: Versions \cup {NoFile},
                      entry: [Indices -> [existed: BOOLEAN, temporary: BOOLEAN,
                                          backup: BOOLEAN, published: BOOLEAN]],
                      trouble: BOOLEAN, result: CatalogResults]
    /\ generation \in [number: 1..MaxGenerations, began: [Indices -> Versions \cup {NoFile}]]
    /\ fileFaults \in 0..MaxFileFaults

(* "Preserve existing artifacts until all staged data is ready, then retain *)
(* backups through the replacement phase": until the whole new set is in   *)
(* place, whatever fails and wherever the process dies, the content each   *)
(* artifact had when the command began is still in the directory.          *)
NothingLost ==
    \/ Committed
    \/ \A i \in Indices : generation.began[i] # NoFile =>
          generation.began[i] \in {directory.target[i], directory.backup[i]} \cup directory.remnants[i]

(* docs/cli.md: aggregation generates the files "as one failure-atomic     *)
(* set".  A returned error that reports no failed restoration leaves the   *)
(* set as it was or wholly replaced, and success means wholly replaced     *)
(* with no backup left beside it.                                          *)
FailureAtomic ==
    /\ publisher.result = "passed" => Committed /\ \A i \in Indices : ~publisher.entry[i].backup
    /\ publisher.result \in {"refused", "restored"} => directory.target = generation.began
    /\ publisher.result = "undiscarded" => Committed
=============================================================================
