---------------------------- MODULE ChangeSelection ----------------------------
(***************************************************************************)
(* Which modules, and which fuzz targets, a committed change selects:      *)
(* ChangedModules (internal/gates/affected.go) for golib inventory         *)
(* --base-sha, and fuzzTargetAffected (fuzz_smoke.go) for golib check      *)
(* --local --base-sha.                                                     *)
(*                                                                         *)
(* Both classify the changed paths and then follow dependencies, one over  *)
(* the modules of the catalog to their consumers, the other over the       *)
(* packages of one test binary to their imports.  A path is the sequence   *)
(* of its components.                                                      *)
(***************************************************************************)
EXTENDS Naturals, Sequences, FiniteSets, SequencesExt

CONSTANTS Catalog,    \* module directories: paths, <<>> is the root
          Fixtures,   \* those of kind fixture
          RootPackages, \* package directories of the root module
          GoSource,   \* base names that end in .go
          Paths,      \* paths a commit may change
          Requirements, \* the possible [Catalog -> modules it depends on]
          Packages,   \* packages of the graph go list -deps -test prints
          CgoPackages, \* those with cgo sources
          Target,     \* the package of the fuzz target
          FuzzModule, \* the module the target is declared in
          OwnersOf,   \* [Packages -> the catalog's modules with the path of its module:
                      \*              none for the standard library or a third party]
          InputsOf,   \* [Packages -> paths that are inputs of it in the binary:
                      \*              none outside the repository]
          ModuleFiles, \* [Catalog -> paths of its go.mod and go.sum]
          Imports,    \* the possible [Packages -> packages it imports]
          TestImports \* the possible sets of packages the target's tests import

\* What cgo sources import; go list prints no such package.
Pseudo == "C"
GoVersionFile == <<".go-version">>

ASSUME SelectionAssumption ==
    /\ Fixtures \subseteq Catalog
    /\ FuzzModule \in Catalog /\ Pseudo \notin Packages
    /\ \A p \in Packages : OwnersOf[p] \subseteq Catalog
    /\ \A imports \in Imports : \A p \in Packages : IsFiniteSet(imports[p])
    /\ \A tests \in TestImports : IsFiniteSet(tests)

VARIABLES change,    \* the committed paths, the requirements and the imports
          selection, \* ChangedModules
          search     \* fuzzTargetAffected

selectionVars == <<change, selection, search>>

SelectionInit ==
    /\ \E paths \in SUBSET Paths, requires \in Requirements, imports \in Imports, tests \in TestImports :
          change = [paths |-> paths, requires |-> requires, imports |-> imports, tests |-> tests]
    /\ selection = [left |-> change.paths, all |-> change.paths = {}, modules |-> {},
                    phase |-> "classify"]
    /\ search = [queue |-> <<Target>>, seen |-> {}, phase |-> "search",
                 affected |-> change.paths \cap ({GoVersionFile} \cup ModuleFiles[FuzzModule]) # {}]

-----------------------------------------------------------------------------
(* ChangedModules.                                                         *)

Below(path, directory) == IsStrictPrefix(directory, path)

(* The deepest module above the path; a root module only owns its own Go   *)
(* files and packages, and any other path has no owner.                    *)
Owners(path) ==
    LET nested == {m \in Catalog \ {<<>>} : Below(path, m)}
        rooted == /\ <<>> \in Catalog
                  /\ \/ Len(path) = 1 /\ path[1] \in GoSource
                     \/ \E p \in RootPackages : Below(path, p)
    IN  IF nested # {} THEN {m \in nested : \A other \in nested : Len(other) <= Len(m)}
        ELSE IF rooted THEN {<<>>} ELSE {}

(* Mutant of Classify: the topmost module above a path owns it. *)
ClassifyTopmost ==
    /\ selection.phase = "classify" /\ selection.left # {} /\ ~selection.all
    /\ \E path \in selection.left :
          LET owners == {m \in Catalog \ {<<>>} : Below(path, m)}
          IN  selection' = [selection EXCEPT
                  !.left = @ \ {path},
                  !.all = owners = {},
                  !.modules = @ \cup {m \in owners : \A other \in owners : Len(m) <= Len(other)}]
    /\ UNCHANGED <<change, search>>

Classify ==
    /\ selection.phase = "classify" /\ selection.left # {} /\ ~selection.all
    /\ \E path \in selection.left :
          selection' = [selection EXCEPT
              !.left = @ \ {path},
              !.all = Owners(path) = {} \/ Owners(path) \cap Fixtures # {},
              !.modules = @ \cup (Owners(path) \ Fixtures)]
    /\ UNCHANGED <<change, search>>

SelectAll ==
    /\ selection.phase = "classify" /\ selection.all
    /\ selection' = [selection EXCEPT !.modules = Catalog, !.phase = "done"]
    /\ UNCHANGED <<change, search>>

ReadRequirements ==
    /\ selection.phase = "classify" /\ selection.left = {} /\ ~selection.all
    /\ selection' = [selection EXCEPT !.phase = "close"]
    /\ UNCHANGED <<change, search>>

(* The loop that adds consumers until nothing is added.                    *)
Consumers == {m \in Catalog \ selection.modules : change.requires[m] \cap selection.modules # {}}

AddConsumer ==
    /\ selection.phase = "close"
    /\ \E m \in Consumers : selection' = [selection EXCEPT !.modules = @ \cup {m}]
    /\ UNCHANGED <<change, search>>

SelectionDone ==
    /\ selection.phase = "close" /\ Consumers = {}
    /\ selection' = [selection EXCEPT !.phase = "done"]
    /\ UNCHANGED <<change, search>>

(* A go.mod cannot be read or parsed, or git fails: no selection.          *)
SelectionFails ==
    /\ selection.phase \in {"classify", "close"}
    /\ selection' = [selection EXCEPT !.phase = "failed", !.modules = {}]
    /\ UNCHANGED <<change, search>>

-----------------------------------------------------------------------------
(* fuzzTargetAffected: breadth first over the packages of the binary.      *)

Searching == search.phase = "search" /\ search.queue # <<>>
Visited == Head(search.queue)

SkipSeen ==
    /\ Searching /\ Visited \in search.seen
    /\ search' = [search EXCEPT !.queue = Tail(@)]
    /\ UNCHANGED <<change, selection>>

(* Paths that a package in the binary depends on.                          *)
InputsIn(p) == InputsOf[p] \cup UNION {ModuleFiles[m] : m \in OwnersOf[p]}

(* What is linked with a package: its imports, without the pseudo package  *)
(* of cgo, and of the target, whose tests are built, those of the tests.   *)
Followed(p) ==
    (change.imports[p] \ (IF p \in CgoPackages THEN {Pseudo} ELSE {}))
    \cup (IF p = Target THEN change.tests ELSE {})

(* A dependency that go list did not print ends the search with an error.  *)
MissingPackage ==
    /\ Searching /\ Visited \notin search.seen \cup Packages
    /\ search' = [search EXCEPT !.phase = "failed"]
    /\ UNCHANGED <<change, selection>>

Visit ==
    /\ Searching /\ Visited \in Packages \ search.seen
    /\ search' = [search EXCEPT
            !.queue = Tail(@) \o SetToSeq(Followed(Visited)),
            !.seen = @ \cup {Visited},
            !.affected = @ \/ change.paths \cap InputsIn(Visited) # {}]
    /\ UNCHANGED <<change, selection>>

SearchDone ==
    /\ search.phase = "search" /\ search.queue = <<>>
    /\ search' = [search EXCEPT !.phase = "done"]
    /\ UNCHANGED <<change, selection>>

(* The time is over, the root cannot be resolved, or a pattern of embedded *)
(* files is invalid: no answer.                                            *)
SearchFails ==
    /\ search.phase = "search"
    /\ search' = [search EXCEPT !.phase = "failed"]
    /\ UNCHANGED <<change, selection>>

ChangedModules ==
    \/ Classify \/ SelectAll \/ ReadRequirements \/ AddConsumer \/ SelectionDone \/ SelectionFails
FuzzTargetAffected == SkipSeen \/ MissingPackage \/ Visit \/ SearchDone \/ SearchFails

SelectionNext == ChangedModules \/ FuzzTargetAffected

SelectionSpec == SelectionInit /\ [][SelectionNext]_selectionVars

-----------------------------------------------------------------------------
(* Reference: the least set that holds the given elements and is closed.   *)
Least(universe, seeds, Step(_)) ==
    {x \in universe : \A set \in SUBSET universe :
        seeds \subseteq set /\ (\A y \in set : Step(y) \cap universe \subseteq set) => x \in set}

(* What a selection must be: the owners of every change and all that       *)
(* depends on them, or everything as soon as a change may matter to any    *)
(* module: none at all, one nobody owns, or one of a fixture.  Being at    *)
(* once complete and minimal, it must not depend on the order of the       *)
(* changes or of the catalog (ChangedModules).                             *)
SelectionIsClosed ==
    selection.phase = "done" =>
        LET unknown == \E path \in change.paths : Owners(path) = {} \/ Owners(path) \cap Fixtures # {}
            Dependents(m) == {c \in Catalog : m \in change.requires[c]}
        IN  selection.modules =
                IF change.paths = {} \/ unknown THEN Catalog
                ELSE Least(Catalog, UNION {Owners(path) : path \in change.paths}, Dependents)

(* A fuzz target is affected iff the Go version, the go.mod or go.sum of   *)
(* its module, an input of a package in its binary or the go.mod or go.sum *)
(* of that package's module has changed, however far down the imports,     *)
(* whether or not they form cycles through tests, and through whatever     *)
(* packages nobody in the catalog owns (fuzzTargetAffected).               *)
AffectedIsReached ==
    search.phase = "done" =>
        LET Imported(p) == change.imports[p] \cup (IF p = Target THEN change.tests ELSE {})
            linked == Least(Packages, {Target}, Imported)
            inputs == UNION {InputsOf[p] : p \in linked}
            modules == {FuzzModule} \cup UNION {OwnersOf[p] : p \in linked}
            moduleFiles == UNION {ModuleFiles[m] : m \in modules}
        IN  search.affected <=>
                change.paths \cap ({GoVersionFile} \cup inputs \cup moduleFiles) # {}
=============================================================================
