---------------------------- MODULE MCGateRunner ----------------------------
(***************************************************************************)
(* Two modules, the root and one below it, under three policies: every     *)
(* gate, operation and service; a library with few gates; and a root       *)
(* without security beside a module with it.                               *)
(***************************************************************************)
EXTENDS GateRunner

Everything == {"security", "lint", "tests", "race", "coverage", "mutation",
               "documentation", "api_compatibility"}
Operations == {"test", "local-test", "fuzz", "docs", "conformance", "interoperability", "benchmark"}
Plain == [gates |-> {}, operations |-> {}, services |-> FALSE, goDoc |-> FALSE, imports |-> FALSE]
Full == [gates |-> Everything, operations |-> Operations, services |-> TRUE, goDoc |-> TRUE, imports |-> TRUE]

MCModules == <<".", "adapter">>
MCPolicies == {
    [m \in {".", "adapter"} |-> Full],
    [m \in {".", "adapter"} |->
        IF m = "." THEN [Plain EXCEPT !.gates = {"lint", "tests", "documentation"}]
        ELSE [gates |-> {"security", "tests", "documentation", "api_compatibility", "lint"},
              operations |-> {"api", "fuzz"}, services |-> TRUE, goDoc |-> FALSE, imports |-> FALSE]],
    [m \in {".", "adapter"} |->
        IF m = "." THEN [gates |-> {"security", "coverage", "mutation"}, operations |-> {"fuzz"},
                         services |-> FALSE, goDoc |-> FALSE, imports |-> FALSE]
        ELSE Plain]}
MCHeads == {"first", "same", "other"}
MCDiff == [h \in MCHeads |-> IF h = "other" THEN {"root.go", ".golib.yaml"} ELSE {"adapter.go"}]
MCAffects == [m \in {".", "adapter"} |-> IF m = "." THEN {"root.go"} ELSE {"adapter.go"}]
=============================================================================
