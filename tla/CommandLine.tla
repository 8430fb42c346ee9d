------------------------------ MODULE CommandLine ------------------------------
(***************************************************************************)
(* The golib process around one command (internal/cli executeContext): the *)
(* repository is admitted, the arguments are parsed, the command works and *)
(* its error, joined with that of the executor's cleanup, becomes the exit *)
(* code.  The commands whose work is a component of its own are composed   *)
(* here: cohesion aggregate, mutation import, workflows check, inventory   *)
(* --base-sha, the fuzz selection of check --local --base-sha, and         *)
(* specification check.                                                    *)
(***************************************************************************)
EXTENDS CatalogPublication, MigrationImport, LocalActions, ChangeSelection, SpecificationDecisions

CONSTANT Unused  \* the state of a component the command does not have

VARIABLE golib   \* the command, where its process is, and its exit code

commandVars == <<golib, catalogVars, importVars, localActionVars, selectionVars, specificationVars>>

CommandNames == {"aggregate", "import", "workflows", "inventory", "fuzz", "specification"}
\* Commands that take no executor.
Direct == {"aggregate", "specification"}

CommandInit ==
    \E command \in CommandNames :
        /\ golib = [command |-> command, at |-> "admission", exit |-> "none"]
        /\ IF command = "aggregate" THEN CatalogInit
           ELSE /\ directory = Unused /\ publisher = Unused
                /\ generation = Unused /\ fileFaults = Unused
        /\ IF command = "import" THEN MigrationInit
           ELSE /\ sources = Unused /\ archive = Unused /\ ledger = Unused /\ published = Unused
                /\ imported = Unused /\ importer = Unused /\ importBudget = Unused
        /\ IF command = "workflows" THEN LocalActionsInit
           ELSE documents = Unused /\ inspection = Unused /\ workflows = Unused
        /\ IF command \in {"inventory", "fuzz"} THEN SelectionInit
           ELSE change = Unused /\ selection = Unused /\ search = Unused
        /\ IF command = "specification" THEN SpecificationInit
           ELSE tree = Unused /\ checker = Unused /\ fetch = Unused

Components == <<catalogVars, importVars, localActionVars, selectionVars, specificationVars>>
Before(stage) == golib.at = stage
Continue(stage) == golib' = [golib EXCEPT !.at = stage]
ExitWith(code) == golib' = [golib EXCEPT !.at = "exited", !.exit = code]

-----------------------------------------------------------------------------
(* The root, its configuration, the version of the tool and the inventory. *)
Admit ==
    /\ Before("admission")
    /\ Continue("arguments") \/ ExitWith("1")
    /\ UNCHANGED Components

(* The arguments of a command are only looked at in an admitted repository. *)
ParseArguments ==
    /\ Before("arguments")
    /\ \/ Continue(IF golib.command \in Direct THEN "work" ELSE "executor")
       \/ ExitWith("2")
    /\ UNCHANGED Components

CreateExecutor ==
    /\ Before("executor")
    /\ Continue("work") \/ ExitWith("1")
    /\ UNCHANGED Components

AggregateWorks ==
    /\ golib.command = "aggregate" /\ Before("work") /\ CatalogStep
    /\ UNCHANGED <<golib, importVars, localActionVars, selectionVars, specificationVars>>

ImportWorks ==
    /\ golib.command = "import" /\ Before("work") /\ MigrationStep
    /\ UNCHANGED <<golib, catalogVars, localActionVars, selectionVars, specificationVars>>

(* Editors and campaigns do not wait for the import.                       *)
ImportMeanwhile ==
    /\ golib.command = "import" /\ Before("work") /\ Meanwhile
    /\ UNCHANGED <<golib, catalogVars, localActionVars, selectionVars, specificationVars>>

WorkflowsWork ==
    /\ golib.command = "workflows" /\ Before("work") /\ LocalActionsNext
    /\ UNCHANGED <<golib, catalogVars, importVars, selectionVars, specificationVars>>

InventoryWorks ==
    /\ golib.command = "inventory" /\ Before("work") /\ ChangedModules
    /\ UNCHANGED <<golib, catalogVars, importVars, localActionVars, specificationVars>>

FuzzWorks ==
    /\ golib.command = "fuzz" /\ Before("work") /\ FuzzTargetAffected
    /\ UNCHANGED <<golib, catalogVars, importVars, localActionVars, specificationVars>>

SpecificationWorks ==
    /\ golib.command = "specification" /\ Before("work") /\ SpecificationNext
    /\ UNCHANGED <<golib, catalogVars, importVars, localActionVars, selectionVars>>

(* The method of the command has returned, and whether with an error.      *)
Over ==
    CASE golib.command = "aggregate" -> publisher.phase = "done"
      [] golib.command = "import" -> importer.step \in {"imported", "changed", "failed"}
      [] golib.command = "workflows" -> workflows.verdict # "none"
      [] golib.command = "inventory" -> selection.phase \in {"done", "failed"}
      [] golib.command = "fuzz" -> search.phase \in {"done", "failed"}
      [] golib.command = "specification" -> checker.verdict # "none"

Succeeded ==
    CASE golib.command = "aggregate" -> publisher.result = "passed"
      [] golib.command = "import" -> importer.step = "imported"
      [] golib.command = "workflows" -> workflows.verdict = "accepted"
      [] golib.command = "inventory" -> selection.phase = "done"
      [] golib.command = "fuzz" -> search.phase = "done"
      [] golib.command = "specification" -> checker.verdict = "accepted"

(* withExecutor, failure: a cleanup that fails makes the command fail too. *)
Return ==
    /\ Before("work") /\ Over
    /\ ExitWith(IF Succeeded THEN "0" ELSE "1")
    /\ UNCHANGED Components

ReturnUnclean ==
    /\ Before("work") /\ Over /\ golib.command \notin Direct
    /\ ExitWith("1")
    /\ UNCHANGED Components

AggregateKilled ==
    /\ golib.command = "aggregate" /\ Before("work") /\ CatalogKilled /\ ExitWith("killed")
    /\ UNCHANGED <<importVars, localActionVars, selectionVars, specificationVars>>

(* The same command line is entered again.                                 *)
RunAgain ==
    /\ Before("exited") /\ golib' = [golib EXCEPT !.at = "admission", !.exit = "none"]
    /\ \/ /\ golib.command = "aggregate" /\ CatalogAgain
          /\ UNCHANGED <<importVars, localActionVars, selectionVars, specificationVars>>
       \/ /\ golib.command = "import" /\ ImportAgain
          /\ UNCHANGED <<catalogVars, localActionVars, selectionVars, specificationVars>>

CommandNext ==
    \/ Admit \/ ParseArguments \/ CreateExecutor
    \/ AggregateWorks \/ ImportWorks \/ ImportMeanwhile \/ WorkflowsWork \/ InventoryWorks \/ FuzzWorks
    \/ SpecificationWorks
    \/ Return \/ ReturnUnclean \/ AggregateKilled \/ RunAgain

CommandSpec == CommandInit /\ [][CommandNext]_commandVars

-----------------------------------------------------------------------------
(* What the components promise, with what the exit code says of it.        *)
Exits(command, code) == golib.command = command /\ golib.exit = code

(* golib cohesion aggregate never loses a published artifact to a failure  *)
(* or a kill before the whole new set is in place (publishCatalogSet).     *)
AggregateLosesNothing ==
    golib.command = "aggregate" => CatalogType /\ NothingLost

(* Its exit code can be trusted: with 0 the directory holds the set of     *)
(* today's inputs and no backup, and with an error that does not speak of  *)
(* restoring or removing backups it is unchanged (rollbackCatalogSet).     *)
AggregateIsAtomic ==
    /\ golib.command = "aggregate" => FailureAtomic
    /\ Exits("aggregate", "0") => Committed

(* golib mutation import publishes no evidence that the ledger does not    *)
(* approve for the content it is filed under (Campaign.Import).            *)
ImportVouchesForApproved ==
    golib.command = "import" => ImportedIsApproved

(* It deals with every checkpoint, and exit 0 means that none was skipped. *)
ImportExitAccounts ==
    /\ golib.command = "import" => ImportAccounts
    /\ Exits("import", "0") => importer.skipped = {}

(* golib workflows check exits 0 only over workflows whose every reachable *)
(* local action was inspected and is clean, and is not part of a cycle     *)
(* (checkWorkflowSecurityWithFiles).                                       *)
WorkflowsAreInspected ==
    /\ golib.command = "workflows" => LocalActionsType /\ AcceptedIsInspected
    /\ Exits("workflows", "0") => workflows.verdict = "accepted"

(* A change selects exactly the modules it may reach, and exactly the fuzz *)
(* targets that are linked with it (ChangedModules, fuzzTargetAffected).   *)
ChangeReachesExactly ==
    golib.command \in {"inventory", "fuzz"} => SelectionIsClosed /\ AffectedIsReached

(* golib specification check exits 0 only over documents that tell of the  *)
(* same, backed decisions; online it contacts public addresses only and    *)
(* has seen every public authority as it was reviewed (Check, CheckOnline). *)
SpecificationIsReviewed ==
    /\ golib.command = "specification" => AcceptedDecisionsAgree /\ OnlineIsReviewed
    /\ Exits("specification", "0") => checker.verdict = "accepted"
=============================================================================
