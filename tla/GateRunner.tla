------------------------------ MODULE GateRunner ------------------------------
(***************************************************************************)
(* One golib command that runs gates over the selected modules: the order  *)
(* of its checks, scans and repository commands, the temporary resources   *)
(* they own, and how the first failure unwinds them (internal/gates and    *)
(* the executor of internal/cli).                                          *)
(*                                                                         *)
(* A command is a program: the sequence of steps its Runner method makes   *)
(* when none fails.  The Go code returns at the first failure, and every   *)
(* resource it holds then is removed by a defer or by errors.Join, last    *)
(* opened first; so a failure here unwinds the stack of open scopes.       *)
(***************************************************************************)
EXTENDS Naturals, Sequences, FiniteSets, SequencesExt

CONSTANTS Modules,    \* the catalog's module directories, in sorted order
          Root,       \* the module "."
          Policies,   \* [Modules -> [gates, operations, services, goDoc, imports]]
          Heads,      \* commits HEAD may name while golib runs
          Diff,       \* [Heads -> paths changed since the base]
          Affects,    \* [Modules -> paths that affect its fuzz targets]
          PolicyFiles, \* .golib.yaml and the manifests
          Redeclared, \* modules whose fuzz declarations a change of those touches
          MaxFaults   \* bound: failing steps and failing removals

Directories == {Modules[i] : i \in 1..Len(Modules)}

ASSUME GateAssumption ==
    /\ Modules \in Seq(STRING) /\ Root \in Directories
    /\ \A policy \in Policies, m \in Directories :
          /\ {policy[m].services, policy[m].goDoc, policy[m].imports} \subseteq BOOLEAN
          /\ \A flag \in policy[m].gates \cup policy[m].operations : flag \in STRING
    /\ MaxFaults \in Nat

VARIABLES invocation, \* the command, its modules and their policy
          runner,     \* the process
          files,      \* resources that exist outside the process
          repository, \* HEAD, and whether repository code has run
          history,    \* what this invocation has completed
          faults      \* failures so far

vars == <<invocation, runner, files, repository, history, faults>>

Commands == {"check", "local", "local-changes", "coverage", "docs", "services", "api-check",
             "api-update", "mutation", "mutation-package", "release", "secrets", "secrets-changes", "workflows"}

-----------------------------------------------------------------------------
(* Steps.  A check reads; a scan reads the source and must see it as it    *)
(* was admitted; code may run anything the repository wrote; advice prints *)
(* its error; open and close bracket an owned resource; build and release  *)
(* bracket the use of a compiler tool.                                     *)

Do(kind, gate, module) == <<[do |-> kind, gate |-> gate, module |-> module]>>
Check(gate, module) == Do("check", gate, module)
Scan(gate, module) == Do("scan", gate, module)
Code(gate, module) == Do("code", gate, module)
Checks(gates, module) ==
    [i \in 1..Len(gates) |-> [do |-> "check", gate |-> gates[i], module |-> module]]
If(condition, steps) == IF condition THEN steps ELSE <<>>
With(resource, module, steps) ==
    Do("open", resource, module) \o steps \o Do("close", resource, module)
(* steps[m] for every module m of its domain, in the catalog's order.      *)
Each(steps) ==
    FlattenSeq([i \in 1..Len(Modules) |-> If(Modules[i] \in DOMAIN steps, steps[Modules[i]])])

Gated(policy, module, gate) == gate \in policy[module].gates
Operates(policy, module, gate) == gate \in policy[module].operations
Having(policy, modules, gate) == {m \in modules : Gated(policy, m, gate)}

(* A verifier that is compiled once and reused while the scan pass lasts.  *)
CompilerTool(tool, module, step) ==
    Do("build", tool, module) \o step \o Do("release", tool, module)

Services(policy, module, steps) ==
    IF policy[module].services THEN With("services", module, steps) ELSE steps

-----------------------------------------------------------------------------
(* Security.                                                               *)

GitleaksIgnore == Check("gitleaks-ignore", Root)

(* Every Go file is walked to, read within a limit and parsed; one that is *)
(* not regular fails, and so does a suppression without its reason.        *)
Suppressions(module) ==
    Checks(<<"source entries", "source files", "security-suppressions">>, module)

Preflight(policy, modules) ==
    LET secured == Having(policy, modules, "security")
    IN  If(secured # {}, GitleaksIgnore) \o Each([m \in secured |-> Suppressions(m)])

HistoryLimits == Checks(<<"refs", "objects">>, Root)
TreeLimits == Checks(<<"tree entries", "tree bytes">>, Root)

(* The tree is inspected before anything is created, and again as it is    *)
(* copied, within what is left of the limit.                               *)
CopyTree == TreeLimits \o Checks(<<"snapshot directory", "tree entries", "copy">>, Root)

SourceSnapshot(changed) ==
    Checks(<<"ignore root", "bundle", "init", "fetch">>, Root)
    \o If(changed, Checks(<<"base commit", "head commit">>, Root))
    \o CopyTree

SecretScan(gate) == With("gitleaks metadata", Root, Scan(gate, Root))

RepositorySecrets(changed) ==
    With("gitleaks config", Root,
         GitleaksIgnore \o HistoryLimits \o TreeLimits
         \o With("gitleaks sources", Root,
                 SourceSnapshot(changed)
                 \o SecretScan("secrets-history") \o SecretScan("secrets-current-tree")))

GosecPackages(module) == Checks(<<"package list", "gosec-packages">>, module)
Bom(module) == Scan("SBOM", module) \o Check("SBOM document", module)

SecurityScans(module) ==
    Scan("vulnerability", module)
    \o GosecPackages(module)
    \o CompilerTool("gosec", module, Scan("gosec", module))
    \o With("analysis config", module,
            CompilerTool("golib-analysis", module, Scan("owned-security-analysis", module)))
    \o Scan("licenses", module)

(* scanSelectedSecurity: secrets once, then every module, before any test. *)
(* Mutant of SecurityPass: leaves the loop over the modules after one scan. *)
SecurityPassBreaks(policy, modules, scanned, sbom) ==
    LET secured == Having(policy, modules, "security")
        first == {m \in secured : m = CHOOSE m1 \in secured : TRUE}
    IN  With("compiler tools", Root,
             If(secured # {} /\ ~scanned, RepositorySecrets(FALSE))
             \o Each([m \in first |-> SecurityScans(m) \o If(sbom, Bom(m))]))

SecurityPass(policy, modules, scanned, sbom) ==
    LET secured == Having(policy, modules, "security")
    IN  With("compiler tools", Root,
             If(secured # {} /\ ~scanned, RepositorySecrets(FALSE))
             \o Each([m \in secured |-> SecurityScans(m) \o If(sbom, Bom(m))]))

-----------------------------------------------------------------------------
(* Gates of one module.                                                    *)

Coverage(module) ==
    With("coverage profile", module,
         Code("coverage test", module) \o Check("coverage", module))

LocalTests(policy, module) ==
    If(Operates(policy, module, "local-test"),
       Check("local-test budget", module)
       \o Code("local-test list", module) \o Code("local-test", module))

StaticAnalysis(policy, module) ==
    If(Gated(policy, module, "lint"),
       Check("lint", module)
       \o CompilerTool("staticcheck", module, Check("staticcheck", module)))

Spelling(module) ==
    Checks(<<"cspell configuration", "spelling root", "spelling manifest", "spelling lock",
             "npm ci", "spelling">>, module)

Links(module) ==
    Checks(<<"lychee release", "link root", "download", "extract", "link checker", "links">>, module)

Documentation(policy, module) ==
    IF module # Root
    THEN Code("docs", module)  \* the docs operation, or the examples
    ELSE Check("markdown", module) \o Spelling(module) \o Links(module)
         \o If(Operates(policy, module, "docs"), Code("docs", module))

(* apidiff writes the snapshot itself; what go doc prints is bounded and   *)
(* written here, all of it or none.                                        *)
Snapshot(policy, module) ==
    If(policy[module].goDoc, Checks(<<"go doc", "documentation size", "write", "close">>, module))
    \o If(~policy[module].goDoc, Checks(<<"close", "apidiff -w">>, module))

(* The directory of the baseline is real, component by component.          *)
BaselineDirectory(module) == Check("baseline directory", module)

(* The snapshot of the exported interface, beside the baseline when it is  *)
(* to replace it and in the workspace when it is to be compared with it.   *)
Baseline(policy, module, update) ==
    LET snapshot == Snapshot(policy, module) \o Check("snapshot written", module)
    IN  IF update
        THEN BaselineDirectory(module)
             \o (Do("open", "baseline snapshot", module)
                 \o snapshot \o Do("publish", "baseline snapshot", module))
        ELSE Check("baseline", module) \o BaselineDirectory(module)
             \o With("api snapshot", module, snapshot \o Check("api", module))

Interface(policy, module) ==
    IF Operates(policy, module, "api") THEN Code("api", module)
    ELSE Baseline(policy, module, FALSE)

Formatting(module) == Checks(<<"go files", "format-check">>, module)
(* The module's own files, without nested modules; no unsafe, C, linkname. *)
Safety(module) == Checks(<<"module files", "safety">>, module)

(* An import that skipped changed packages only leaves them to the         *)
(* campaign; any other failure of it ends the gate.                        *)
Mutation(policy, module) ==
    If(policy[module].imports, Check("mutation-import", module)) \o Code("mutation", module)

Basics(policy, module) ==
    Formatting(module)
    \o Check("tidy-check", module) \o Safety(module)
    \o If(Gated(policy, module, "lint"), Check("vet", module))
    \o If(Gated(policy, module, "tests"), Code("test", module))

CheckModule(policy, module) ==
    LET Operation(gate) == If(Operates(policy, module, gate), Code(gate, module))
    IN  Basics(policy, module)
        \o If(Gated(policy, module, "tests") /\ Operates(policy, module, "test"),
              Code("test operation", module))
        \o LocalTests(policy, module)
        \o If(Gated(policy, module, "race"), Code("race", module))
        \o If(Gated(policy, module, "coverage"), Coverage(module))
        \o If(Gated(policy, module, "mutation"), Mutation(policy, module))
        \o StaticAnalysis(policy, module)
        \o Operation("fuzz")
        \o If(Gated(policy, module, "documentation"), Documentation(policy, module))
        \o If(Gated(policy, module, "api_compatibility"), Interface(policy, module))
        \o If(Gated(policy, module, "lint"), Do("advise", "nilaway", module))
        \o Operation("conformance") \o Operation("interoperability") \o Operation("benchmark")

CheckModuleLocal(policy, module) ==
    Basics(policy, module)
    \o LocalTests(policy, module)
    \o StaticAnalysis(policy, module)
    \o If(Gated(policy, module, "documentation"), Check("docs-local", module))
    \o If(Gated(policy, module, "api_compatibility"), Baseline(policy, module, FALSE))

-----------------------------------------------------------------------------
(* Commands.                                                               *)

(* Mutant of CheckAll: scans each module just before its own gates. *)
CheckAllInterleaved(policy, modules) ==
    Preflight(policy, modules)
    \o Each([m \in modules |-> SecurityPass(policy, {m}, FALSE, TRUE)
                                \o Services(policy, m, CheckModule(policy, m))])

CheckAll(policy, modules) ==
    Preflight(policy, modules)
    \o SecurityPass(policy, modules, FALSE, TRUE)
    \o Each([m \in modules |-> Services(policy, m, CheckModule(policy, m))])

Local(policy, modules, scanned) ==
    If(\E m \in modules : Operates(policy, m, "local-test"), Check("local-test budgets", Root))
    \o Preflight(policy, modules)
    \o SecurityPass(policy, modules, scanned, FALSE)
    \o Each([m \in modules |-> Services(policy, m, CheckModuleLocal(policy, m))])

(* A change of the policy or of the manifests is read at both ends of the  *)
(* range, and what the end says must be what golib itself has loaded.      *)
FuzzPolicy(changes) ==
    If(changes \cap PolicyFiles # {},
       Checks(<<"range", "old policy", "policy at HEAD", "old inventory", "inventory at HEAD">>, Root))

FuzzGraph(module) == Checks(<<"go list", "package graph">>, module)
FuzzAffects(module, changes) ==
    \/ changes \cap Affects[module] # {}
    \/ changes \cap PolicyFiles # {} /\ module \in Redeclared

PrepareFuzz(module) == Checks(<<"fuzz context", "fuzz corpus", "fuzz build", "fuzz binary">>, module)
(* The selector must name exactly one of the targets the binary lists.     *)
FuzzStep(module) ==
    Code("fuzz list", module) \o Check("fuzz selector", module) \o Code("fuzz-smoke", module)

FuzzSmoke(policy, modules, changes) ==
    LET campaigns == {m \in modules : Operates(policy, m, "fuzz")}
        targets == {m \in campaigns : FuzzAffects(m, changes)}
    IN  FuzzPolicy(changes)
        \o Each([m \in campaigns |->
                    Check("fuzz candidates", m) \o FuzzGraph(m) \o Check("fuzz targets", m)])
        \o If(targets # {},
              With("fuzz scratch", Root,
                   Each([m \in targets |-> PrepareFuzz(m)]) \o Check("preparation budget", Root)
                   \o Each([m \in targets |-> Services(policy, m, FuzzStep(m))])
                   \o Check("execution budget", Root)))

ChangeRange == Do("diff", "changes", Root)
SecretRange == Do("bind", "change range", Root)

LocalChanges(policy, modules, changes) ==
    ChangeRange \o SecretRange
    \o (RepositorySecrets(TRUE)
        \o Local(policy, modules, TRUE)
        \o If(changes # {}, FuzzSmoke(policy, modules, changes)))

ReleaseProxy(module) ==
    Checks(<<"module path", "module proxy", "go.mod", ".mod", ".info", "list", "archive">>, module)

ReleaseDryRun(policy, modules) ==
    Preflight(policy, modules)
    \o SecurityPass(policy, modules, FALSE, TRUE)
    \o Each([m \in modules |-> Check("release tag", m)])
    \o Check("release proxy", Root) \o Each([m \in modules |-> ReleaseProxy(m)])
    \o Each([m \in modules |-> Check("consume", m)])

(* golib coverage, docs, api and mutation: one gate of every module that   *)
(* has it; docs and api start no services.                                 *)
CoverageGate(policy, modules) ==
    Each([m \in Having(policy, modules, "coverage") |-> Services(policy, m, Coverage(m))])
Docs(policy, modules) ==
    Each([m \in Having(policy, modules, "documentation") |-> Documentation(policy, m)])
API(policy, modules, update) ==
    Each([m \in Having(policy, modules, "api_compatibility") |-> Baseline(policy, m, update)])
MutationGate(policy, modules) ==
    Each([m \in Having(policy, modules, "mutation") |-> Services(policy, m, Mutation(policy, m))])

(* One package of one module, which must have the gate; nothing imported.  *)
MutationPackage(policy, modules) ==
    Each([m \in modules |-> Checks(<<"module", "package">>, m)
                            \o Services(policy, m, Code("mutation", m))])

ServiceCycle(policy, modules) == Each([m \in modules |-> Services(policy, m, <<>>)])

Workflows == Checks(<<"workflow security", "actionlint">>, Root)

(* executeContext: admission, then the command under a fresh executor.     *)
Admission == Checks(<<"root", "configuration", "tool version", "inventory">>, Root)

Work(command, policy, modules, changes) ==
    CASE command = "check" -> CheckAll(policy, modules)
      [] command = "local" -> Local(policy, modules, FALSE)
      [] command = "local-changes" -> LocalChanges(policy, modules, changes)
      [] command = "services" -> ServiceCycle(policy, modules)
      [] command = "release" -> ReleaseDryRun(policy, modules)
      [] command = "secrets" -> RepositorySecrets(FALSE)
      [] command = "secrets-changes" -> ChangeRange \o SecretRange \o RepositorySecrets(TRUE)
      [] command = "workflows" -> Workflows
      [] command = "coverage" -> CoverageGate(policy, modules)
      [] command = "docs" -> Docs(policy, modules)
      [] command = "mutation" -> MutationGate(policy, modules)
      [] command = "mutation-package" -> MutationPackage(policy, modules)
      [] command \in {"api-check", "api-update"} -> API(policy, modules, command = "api-update")

Program(command, policy, modules, changes) ==
    Admission
    \o If(command = "release", Checks(<<"release contract", "repository contract">>, Root))
    \o With("workspace", Root, Work(command, policy, modules, changes))

-----------------------------------------------------------------------------
(* The process.                                                            *)

Steps == Program(invocation.command, invocation.policy, invocation.selection, runner.changes)
Current == Steps[runner.at]
Running == runner.phase = "running" /\ runner.at <= Len(Steps)
Resource == [name |-> Current.gate, module |-> Current.module]

(* Mutant of Silent: withModuleServices returns the operation's error only. *)
SilentServices(resource) ==
    resource.name \in {"coverage profile", "api snapshot", "baseline snapshot", "services"}

(* Removals whose error the code discards.                                 *)
Silent(resource) == resource.name \in {"coverage profile", "api snapshot", "baseline snapshot"}
(* What disappears with the executor's workspace.                          *)
InWorkspace(resource) == resource.name \notin {"services", "baseline snapshot", "workspace"}
(* The scope of a scan pass is a map in memory; the others are on disk.    *)
Stored(resource) == {r \in {resource} : r.name # "compiler tools"}
InPass == \E i \in 1..Len(runner.scopes) : runner.scopes[i].name = "compiler tools"

Init ==
    /\ \E command \in Commands, selection \in SUBSET Directories, policy \in Policies :
          /\ command \in {"secrets", "secrets-changes", "workflows"} <=> selection = {}
          /\ command = "mutation-package" =>
                \E m \in selection : selection = {m} /\ Gated(policy, m, "mutation")
          /\ invocation = [command |-> command, selection |-> selection, policy |-> policy]
    /\ \E head \in Heads : repository = [head |-> head, edited |-> FALSE]
    /\ runner = [at |-> 1, phase |-> "running", scopes |-> <<>>, retained |-> {},
                 changes |-> {}, range |-> {}, problems |-> {}, exit |-> "none"]
    /\ files = {}
    /\ history = [passed |-> {}, late |-> {}]
    /\ faults = 0

Fault == faults < MaxFaults /\ faults' = faults + 1
Proceed(process) == runner' = [process EXCEPT !.at = @ + 1]
Passed == history' = [history EXCEPT !.passed = @ \cup {<<Current.gate, Current.module>>}]

(* A step returns an error: nothing after it is tried.                     *)
StepFails ==
    /\ Running
    /\ Current.do \notin {"close", "release", "advise"}
    /\ Current.gate # "compiler tools"
    /\ Fault
    /\ runner' = [runner EXCEPT !.phase = "unwinding", !.problems = @ \cup {"step"}]
    /\ UNCHANGED <<invocation, files, repository, history>>

OpenResource ==
    /\ Running /\ Current.do = "open"
    /\ Proceed([runner EXCEPT !.scopes = Append(@, Resource)])
    /\ files' = files \cup Stored(Resource)
    /\ UNCHANGED <<invocation, repository, history, faults>>

CheckPasses ==
    /\ Running /\ Current.do \in {"check", "advise"}
    /\ Proceed(runner) /\ Passed
    /\ UNCHANGED <<invocation, files, repository, faults>>

(* A scan of source that repository code may have rewritten is late.       *)
ScanPasses ==
    /\ Running /\ Current.do = "scan"
    /\ Proceed(runner)
    /\ history' = [passed |-> history.passed \cup {<<Current.gate, Current.module>>},
                   late |-> IF repository.edited
                            THEN history.late \cup {<<Current.gate, Current.module>>}
                            ELSE history.late]
    /\ UNCHANGED <<invocation, files, repository, faults>>

CodePasses ==
    /\ Running /\ Current.do = "code"
    /\ Proceed(runner) /\ Passed
    /\ repository' = [repository EXCEPT !.edited = TRUE]
    /\ UNCHANGED <<invocation, files, faults>>

(* withCompilerTool: a retained binary is used again, another is built in  *)
(* a directory of its own, which the scan pass keeps.                      *)
Reuse ==
    /\ Running /\ Current.do = "build"
    /\ \E tool \in runner.retained : tool.name = Current.gate
    /\ Proceed(runner)
    /\ UNCHANGED <<invocation, files, repository, history, faults>>

Build ==
    /\ Running /\ Current.do = "build"
    /\ \A tool \in runner.retained : tool.name # Current.gate
    /\ Proceed(IF InPass THEN [runner EXCEPT !.retained = @ \cup {Resource}]
                       ELSE [runner EXCEPT !.scopes = Append(@, Resource)])
    /\ files' = files \cup {Resource}
    /\ UNCHANGED <<invocation, repository, history, faults>>

BuildFails ==
    /\ Running /\ Current.do = "build"
    /\ \A tool \in runner.retained : tool.name # Current.gate
    /\ Fault
    /\ runner' = [runner EXCEPT !.phase = "unwinding", !.problems = @ \cup {"step"},
                                !.scopes = Append(@, Resource)]
    /\ files' = files \cup {Resource}
    /\ UNCHANGED <<invocation, repository, history>>

(* Mutant of KeepTool: removes the directory of a tool it keeps. *)
KeepToolRemoves ==
    /\ Running /\ Current.do = "release" /\ InPass
    /\ Proceed(runner)
    /\ files' = {file \in files : file.name # Current.gate}
    /\ UNCHANGED <<invocation, repository, history, faults>>

KeepTool ==
    /\ Running /\ Current.do = "release" /\ InPass
    /\ Proceed(runner)
    /\ UNCHANGED <<invocation, files, repository, history, faults>>

-----------------------------------------------------------------------------
(* Closing the innermost scope, on the way out or after a failure.  The    *)
(* scope of the scan pass holds every retained tool, the workspace all     *)
(* that was left in it.                                                    *)

Innermost == runner.scopes[Len(runner.scopes)]
Closing == runner.scopes # <<>>
           /\ \/ runner.phase = "unwinding"
              \/ Running /\ Current.do = "close"
              \/ Running /\ Current.do = "release" /\ ~InPass

Owned == CASE Innermost.name = "compiler tools" -> runner.retained
           [] Innermost.name = "workspace" -> {file \in files : InWorkspace(file)} \cup {Innermost}
           [] OTHER -> {Innermost}

(* Popped scope; the program goes on only if no error is being returned.   *)
Pop(process) ==
    LET popped == [process EXCEPT
                      !.scopes = Front(@),
                      !.retained = IF Innermost.name = "compiler tools" THEN {} ELSE @]
    IN  IF process.phase = "running" THEN Proceed(popped) ELSE runner' = popped

CloseScope ==
    /\ Closing
    /\ Pop(runner)
    /\ files' = files \ Owned
    /\ UNCHANGED <<invocation, repository, history, faults>>

(* Some of it cannot be removed: the error is joined to the one that is    *)
(* being returned, or returned itself, unless the code discards it.        *)
CloseFails ==
    /\ Closing
    /\ Fault
    /\ \E kept \in (SUBSET (Owned \cap files)) \ {{}} :
          files' = (files \ Owned) \cup kept
    /\ IF Silent(Innermost) THEN Pop(runner)
       ELSE Pop([runner EXCEPT !.phase = "unwinding", !.problems = @ \cup {"cleanup"}])
    /\ UNCHANGED <<invocation, repository, history>>

-----------------------------------------------------------------------------
(* The changed range.  committedChanges compares the base with HEAD;       *)
(* prepareSecretChanges resolves HEAD, compares again and refuses a range  *)
(* with other paths.  HEAD may move at any time.                           *)

HeadMoves ==
    /\ runner.phase = "running" /\ invocation.command \in {"local-changes", "secrets-changes"}
    /\ Fault
    /\ \E head \in Heads \ {repository.head} : repository' = [repository EXCEPT !.head = head]
    /\ UNCHANGED <<invocation, runner, files, history>>

ReadChanges ==
    /\ Running /\ Current.do = "diff"
    /\ Proceed([runner EXCEPT !.changes = Diff[repository.head]])
    /\ UNCHANGED <<invocation, files, repository, history, faults>>

(* Mutant of BindRange: takes the range of the new HEAD without comparing. *)
BindRangeUnchecked ==
    /\ Running /\ Current.do = "bind"
    /\ Proceed([runner EXCEPT !.range = Diff[repository.head]])
    /\ UNCHANGED <<invocation, files, repository, history, faults>>

BindRange ==
    /\ Running /\ Current.do = "bind"
    /\ IF Diff[repository.head] = runner.changes
       THEN Proceed([runner EXCEPT !.range = Diff[repository.head]])
       ELSE runner' = [runner EXCEPT !.phase = "unwinding", !.problems = @ \cup {"step"}]
    /\ UNCHANGED <<invocation, files, repository, history, faults>>

(* The rename of apiModule: the new snapshot becomes the baseline.         *)
Publish ==
    /\ Running /\ Current.do = "publish"
    /\ Proceed([runner EXCEPT !.scopes = Front(@)])
    /\ files' = files \ {Innermost}
    /\ Passed
    /\ UNCHANGED <<invocation, repository, faults>>

(* withExecutor and failure: the exit code joins both kinds of error.      *)
Exit ==
    /\ runner.phase # "exited" /\ runner.scopes = <<>>
    /\ runner.phase = "unwinding" \/ runner.at > Len(Steps)
    /\ runner' = [runner EXCEPT !.phase = "exited",
                                !.exit = IF runner.problems = {} THEN "0" ELSE "1"]
    /\ UNCHANGED <<invocation, files, repository, history, faults>>

Next == \/ StepFails \/ OpenResource \/ CheckPasses \/ ScanPasses \/ CodePasses
        \/ Reuse \/ Build \/ BuildFails \/ KeepTool \/ CloseScope \/ CloseFails
        \/ HeadMoves \/ ReadChanges \/ BindRange \/ Publish \/ Exit

Spec == Init /\ [][Next]_vars

-----------------------------------------------------------------------------
(* Properties.                                                             *)

(* What a command promises of a module, by the gates its policy enables;   *)
(* nothing here says in which order, or by which step.                     *)
Promise(command, m, flag) ==
    LET full == command = "check"
        common == command \in {"check", "local", "local-changes"}
    IN  CASE flag = "security" /\ command \in {"check", "local", "local-changes", "release"} ->
                {"security-suppressions", "vulnerability", "gosec", "owned-security-analysis", "licenses"}
                \cup (IF command \in {"check", "release"} THEN {"SBOM"} ELSE {})
          [] flag = "lint" /\ common -> {"vet", "lint", "staticcheck"}
          [] flag = "tests" /\ common -> {"test"}
          [] flag = "race" /\ full -> {"race"}
          [] flag = "coverage" /\ (full \/ command = "coverage") -> {"coverage"}
          [] flag = "mutation" /\ (full \/ command \in {"mutation", "mutation-package"}) ->
                {"mutation"} \cup (IF command # "mutation-package" /\ invocation.policy[m].imports
                                  THEN {"mutation-import"} ELSE {})
          [] flag = "documentation" /\ (full \/ command = "docs") ->
                IF m = Root THEN {"markdown", "spelling", "links"} ELSE {"docs"}
          [] flag = "documentation" /\ common /\ ~full -> {"docs-local"}
          [] flag = "api_compatibility" /\ (common \/ command = "api-check") -> {"api"}
          [] OTHER -> {}

Unconditional(command) ==
    CASE command \in {"check", "local", "local-changes"} -> {"format-check", "tidy-check", "safety"}
      [] command = "release" -> {"release tag", "archive", "consume"}
      [] OTHER -> {}

Owed ==
    LET command == invocation.command
        Gates(m) == Unconditional(command)
                    \cup (UNION {Promise(command, m, flag) : flag \in invocation.policy[m].gates})
                    \cup (IF /\ command = "local-changes" /\ Operates(invocation.policy, m, "fuzz")
                             /\ FuzzAffects(m, runner.range)
                          THEN {"fuzz-smoke"} ELSE {})
        secured == \E m \in invocation.selection : Gated(invocation.policy, m, "security")
        secrets == \/ command \in {"secrets", "secrets-changes", "local-changes"}
                   \/ command \in {"check", "local", "release"} /\ secured
    IN  (UNION {Gates(m) \X {m} : m \in invocation.selection})
        \cup (IF secrets THEN {"secrets-history", "secrets-current-tree"} \X {Root} ELSE {})

Exited == runner.phase = "exited"

(* Types, and what the memory of the process says about the disk: a tool   *)
(* the scan pass would use again has not been removed, and every open      *)
(* scope still has its resource (withCompilerTool, createOwnedPolicy).     *)
GateInv ==
    /\ runner.at \in 1..(Len(Steps) + 1)
    /\ runner.phase \in {"running", "unwinding", "exited"}
    /\ runner.problems \subseteq {"step", "cleanup"}
    /\ runner.retained \subseteq files
    /\ \A i \in 1..Len(runner.scopes) : Stored(runner.scopes[i]) \subseteq files

(* A command that exits 0 has completed every gate that the policy enables *)
(* for every module it selected, and the scans of the repository, whatever *)
(* the order, the reuse of tools and the services of the modules           *)
(* (Check, Local, LocalChanges, ReleaseDryRun, Coverage, Docs, API).       *)
PassedRanEverything == Exited /\ runner.exit = "0" => Owed \subseteq history.passed

(* "Finish every selected source/graph scan before any repository-         *)
(* controlled test can mutate inputs for another module": no scan reads a  *)
(* tree after code of any module has run (scanSelectedSecurity, LocalChanges). *)
ScansReadUntouched == history.late = {}

(* A command leaves nothing behind without saying so: what exists after it *)
(* exits is in the error it returned, except the snapshot of an API        *)
(* baseline whose publication failed (withExecutor, withModuleServices,    *)
(* createOwnedPolicy, runRepositorySecrets, scanSelectedSecurity).         *)
LeftoversReported ==
    Exited => /\ runner.exit = "0" => files = {}
              /\ "cleanup" \in runner.problems \/ \A file \in files : file.name = "baseline snapshot"

(* What LocalChanges selects fuzz targets and files by is the range whose  *)
(* commits it scans, even if HEAD moved in between (prepareSecretChanges). *)
ChangesAreScanned ==
    Exited /\ runner.exit = "0" /\ invocation.command \in {"local-changes", "secrets-changes"}
        => runner.range = runner.changes
=============================================================================
