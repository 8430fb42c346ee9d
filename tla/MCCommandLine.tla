---------------------------- MODULE MCCommandLine ----------------------------
(***************************************************************************)
(* Small inputs of the composed commands: two artifacts; one archive of    *)
(* two packages and two of one, under ledgers that approve all, some or    *)
(* ambiguously; two workflows over four references, one of them a          *)
(* reusable workflow and two of them one descriptor; four modules, one     *)
(* nested and one a fixture, and four packages of a test binary, one of    *)
(* them in no module of the catalog and one with cgo sources; and the      *)
(* repositories of MCSpecificationDecisions.                               *)
(***************************************************************************)
EXTENDS CommandLine, MCSpecificationDecisions

MCArtifacts == <<"catalog.json", "catalog.md">>

X == Identity("v1", "x")
Y == Identity("v1", "y")
Old(package, lineage, verifier, outcome) ==
    [package |-> package, input |-> X, lineage |-> lineage, outcome |-> outcome,
     verifier |-> verifier, native |-> TRUE]
MCArchives ==
    {<<Old("p", {}, "", "a"), Old("q", {}, "", "a")>>,
     <<[Old("p", {Y}, "current", "a") EXCEPT !.native = FALSE]>>,
     <<Old("p", {Y}, "current", "b")>>}
Approval(package, input, form) == [package |-> package, input |-> input, report |-> Digested("a", form)]
Replacement(scheme, form) ==
    [package |-> "p", input |-> X, replacement |-> Identity(scheme, "y"), report |-> Digested("a", form)]
Ledger(verifier, verifiers, entries) ==
    [verifier |-> verifier, verifiers |-> {Approval("q", X, "canonical")} \cup verifiers, entries |-> entries]
Both == {Approval("p", X, "canonical"), Approval("p", Y, "canonical")}
MCLedgers ==
    {Ledger("historical", {Approval("p", X, "canonical")}, {Replacement("v2", "canonical")}),
     Ledger("current", {Approval("p", X, "canonical")}, {Replacement("v2", "canonical")}),
     Ledger("current", {Approval("p", X, "canonical")},
            {Replacement("v1", "canonical"), Replacement("v1", "legacy")}),
     Ledger("current", Both, {}),
     Ledger("historical", {}, {})}

MCReferences == {"a", "a/action.yml", "b", "c"}
MCDescriptor == [r \in MCReferences |->
    CASE r \in {"a", "a/action.yml"} -> "a/action.yml" [] r = "b" -> "b/action.yml" [] OTHER -> "w2"]
Holding(state, uses) == [state |-> state, uses |-> uses]
MCDocuments ==
    {[d \in {"w1", "w2", "a/action.yml", "b/action.yml"} |->
        CASE d = "w1" -> Holding(IF bad = d THEN how ELSE "clean", w1)
          [] d = "w2" -> Holding("clean", w2)
          [] d = "a/action.yml" -> Holding(IF bad = d THEN how ELSE "clean", a)
          [] OTHER -> Holding(IF bad = d THEN how ELSE "clean", b)] :
     w1 \in {<<"a">>, <<"b", "a">>, <<"c">>}, w2 \in {<<>>, <<"a/action.yml">>},
     a \in {<<>>, <<"b">>}, b \in {<<>>, <<"a">>, <<"c">>},
     bad \in {"none", "w1", "a/action.yml", "b/action.yml"}, how \in {"flawed", "invalid", "missing"}}

MCCatalog == {<<>>, <<"a">>, <<"a", "b">>, <<"corpus">>}
MCPaths == {<<"x.go">>, <<".go-version">>, <<"pkg", "p.go">>, <<"a", "a.go">>, <<"a", "go.mod">>,
            <<"a", "b", "go.mod">>, <<"corpus", "seed">>}
MCRequirements ==
    {r \in [MCCatalog -> SUBSET MCCatalog] :
        /\ r[<<>>] \in {{}, {<<"a">>}, {<<"a", "b">>}}
        /\ r[<<"a">>] \in {{}, {<<"a", "b">>}}
        /\ r[<<"a", "b">>] \in {{}, {<<>>}}
        /\ r[<<"corpus">>] = {<<>>}}
MCPackages == {"t", "p", "q", "dep"}
MCOwners == [p \in MCPackages |-> CASE p = "q" -> {<<"a", "b">>} [] p = "dep" -> {} [] OTHER -> {<<"a">>}]
MCFuzzModule == <<"a">>
MCInputs == [p \in MCPackages |-> CASE p = "p" -> {<<"a", "a.go">>} [] p = "q" -> {<<"pkg", "p.go">>}
                                    [] OTHER -> {}]
MCModuleFiles == [m \in MCCatalog |-> {Append(m, "go.mod")}]
MCImports == {[p \in MCPackages |-> CASE p = "t" -> {"dep"} [] p = "p" -> i [] p = "dep" -> f [] OTHER -> {"C"}] :
                 i \in {{}, {"q", "t"}, {"C"}}, f \in {{}, {"q"}}}
MCTestImports == {{}, {"p"}, {"p", "lost"}}
MCFixtures == {<<"corpus">>}
MCRootPackages == {<<"pkg">>}
=============================================================================
