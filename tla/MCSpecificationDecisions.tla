----------------------- MODULE MCSpecificationDecisions -----------------------
(***************************************************************************)
(* Small repositories: a root module with a resolved decision and one it   *)
(* supersedes, and a nested module with one decision or none.  A tree is   *)
(* the consistent one, with any choice of versions of the documents that   *)
(* name decisions, or with one of the other documents changed.             *)
(***************************************************************************)
EXTENDS Integers, Sequences, TLC

MCSpecModules == <<<<>>, <<"n">>>>
MCDirectoryOf ==
    [file \in {"README", "CHANGELOG", "fixture", "peer", "sources.tsv", "lost"} |-> <<file>>]
    @@ [file \in {"n/README", "n/sources.tsv", "n/fixture"} |-> <<"n", file>>]

Pinned(id, kind, access) ==
    [id |-> id, kind |-> kind, version |-> "v1", https |-> TRUE, url |-> "https", access |-> access,
     digest |-> IF access = "restricted" THEN "" ELSE "body",
     status |-> IF access \in {"", "public"} THEN 0 ELSE 403,
     reason |-> IF access \in {"", "public"} THEN "" ELSE "paid", specifications |-> {"rfc"}]
Rfc == Pinned("rfc-source", "specification", "public")
Errata == Pinned("rfc-errata", "errata", "")
Paper == Pinned("paper", "recommendation", "conditional")
Closed == Pinned("closed", "registry", "restricted")

Resolved(id) ==
    [id |-> id, title |-> "t", status |-> "resolved", scope |-> "normative", mandatory |-> TRUE,
     complete |-> TRUE, specification |-> "rfc", version |-> "v1", source |-> "rfc-source", text |-> "x",
     tests |-> {"TestA"}, fuzz |-> {"FuzzA"}, fixtures |-> {}, interoperability |-> {},
     differential |-> {}, documentation |-> {}, replacement |-> ""]
One == Resolved("D1")
Two == [Resolved("D2") EXCEPT !.status = "superseded", !.replacement = "D1", !.tests = {"TestGone"}]
Three == [One EXCEPT !.id = "D3"]

EntryOf(d, url) ==
    [id |-> d.id, title |-> d.title, records |-> {},
     links |-> IF d.replacement = "" THEN {} ELSE {d.replacement},
     values |-> {d.status, d.scope, d.specification, d.version, d.source, d.text, url}
                \cup d.tests \cup d.fuzz \cup d.fixtures \cup d.interoperability
                \cup d.differential \cup d.documentation]
RowOf(d) ==
    [id |-> d.id, complete |-> TRUE, sources |-> {d.source}, tests |-> d.tests, fuzz |-> d.fuzz,
     fixtures |-> d.fixtures, interoperability |-> d.interoperability, differential |-> d.differential,
     agreement |-> IF d.interoperability = {} THEN "not assessed" ELSE "provider agreement",
     difference |-> IF d.differential = {} THEN "not assessed" ELSE "peer defect"]
Kept(d) == [id |-> d.id, digests |-> {[sha256 |-> d]}]
Mention(id, whole) == [id |-> id, whole |-> whole]

DocumentsOf(decisions, readme, manifest) ==
    [specifications |-> {"rfc"}, provenance |-> {manifest}, pinned |-> {manifest}, artifacts |-> TRUE,
     unreadable |-> {}, files |-> {readme, manifest, "CHANGELOG", "fixture", "peer"}, tests |-> {"TestA", "FuzzA"},
     links |-> {readme, "CHANGELOG"}, reviewSection |-> TRUE,
     control |-> [readme |-> readme, conformance |-> readme, compatibility |-> readme,
                  contribution |-> "CHANGELOG", changelog |-> readme, template |-> "CHANGELOG"],
     review |-> [age |-> 90, interval |-> 90], authorities |-> <<Rfc, Errata>>,
     decisions |-> decisions,
     register |-> [i \in 1..Len(decisions) |-> EntryOf(decisions[i], "https")],
     matrix |-> [i \in 1..Len(decisions) |-> decisions[i].id],
     conformance |-> [i \in 1..Len(decisions) |-> RowOf(decisions[i])],
     history |-> [i \in 1..Len(decisions) |-> Kept(decisions[i])],
     changelog |-> {Mention(decisions[i].id, TRUE) : i \in 1..Len(decisions)}]

Root == DocumentsOf(<<One, Two>>, "README", "sources.tsv")
Nested(d) == DocumentsOf(<<d>>, "n/README", "n/sources.tsv")
Plain == [Nested(Three) EXCEPT !.specifications = {}, !.provenance = {}, !.artifacts = FALSE]
Tree(root, nested) == [m \in {<<>>, <<"n">>} |-> IF m = <<>> THEN root ELSE nested]

(* Versions of the documents that name decisions, in any combination.      *)
Edited == [One EXCEPT !.text = "y"]
Lists == {<<One>>, <<Edited, Two>>, <<One, Two>>, <<One, Two, Three>>}
Combined ==
    {[Root EXCEPT !.decisions = decisions,
                  !.register = [i \in 1..Len(register) |-> EntryOf(register[i], "https")],
                  !.matrix = [i \in 1..Len(matrix) |-> matrix[i].id],
                  !.conformance = [i \in 1..Len(conformance) |-> RowOf(conformance[i])],
                  !.history = [i \in 1..Len(history) |-> Kept(history[i])],
                  !.changelog = {Mention(changelog[i].id, TRUE) : i \in 1..Len(changelog)}] :
     decisions \in Lists, register \in Lists, matrix \in {<<One>>, <<One, Two>>, <<One, Two, Three>>},
     conformance \in {<<One>>, <<One, Two>>, <<One, Two, Three>>}, history \in Lists,
     changelog \in {<<One>>, <<One, Two>>, <<One, Two, Three>>}}

(* One decision changed in all documents alike.                            *)
Changed ==
    {DocumentsOf(<<d, Two>>, "README", "sources.tsv") :
       d \in {[One EXCEPT !.status = "unresolved"], [One EXCEPT !.scope = "defensive"],
              [One EXCEPT !.version = "v2"], [One EXCEPT !.source = "rfc-errata"],
              [One EXCEPT !.tests = {}], [One EXCEPT !.tests = {"FuzzA"}], [One EXCEPT !.tests = {"TestGone"}],
              [One EXCEPT !.fuzz = {"TestA"}], [One EXCEPT !.complete = FALSE],
              [One EXCEPT !.fixtures = {"fixture"}], [One EXCEPT !.fixtures = {"n/fixture"}],
              [One EXCEPT !.interoperability = {"peer"}], [One EXCEPT !.differential = {"peer"}],
              [One EXCEPT !.documentation = {"README"}], [One EXCEPT !.documentation = {"lost"}]}}
    \cup {DocumentsOf(<<One, d>>, "README", "sources.tsv") :
            d \in {[Two EXCEPT !.replacement = "D2"], [Two EXCEPT !.replacement = "D9"],
                   [Two EXCEPT !.fixtures = {"peer"}]}}
    \cup {DocumentsOf(<<[Two EXCEPT !.id = "D1", !.replacement = "D2"], Two>>, "README", "sources.tsv")}

(* One other document changed.                                             *)
Base(authorities, sources, records) ==
    [DocumentsOf(<<One>>, "README", "sources.tsv") EXCEPT
        !.authorities = authorities, !.conformance[1].sources = sources, !.register[1].records = records]
Record(id) == [id |-> id, version |-> "v1", url |-> "https", specifications |-> {"rfc"}]
Other ==
    {[Root EXCEPT !.review = [age |-> age, interval |-> interval]] :
        age \in {-1, 0, 30, 31, 91}, interval \in {0, 30, 91}}
    \cup {[Root EXCEPT !.authorities = list] :
            list \in {<<>>, <<Rfc>>, <<Errata>>, <<Rfc, Rfc, Errata>>,
                      <<Rfc, [Errata EXCEPT !.digest = ""]>>,
                      <<Rfc, [Errata EXCEPT !.reason = "paid"]>>, <<Rfc, Errata, [Paper EXCEPT !.reason = ""]>>,
                      <<[Rfc EXCEPT !.https = FALSE], Errata>>}}
    \cup {Base(<<Rfc, Errata, extra>>, sources, records) :
            extra \in {Paper, Closed, [Paper EXCEPT !.access = "public", !.status = 0, !.reason = ""]},
            sources \in {{"rfc-source"}, {"rfc-source", "paper"}, {"rfc-source", "closed"}, {"paper"}},
            records \in {{}, {Record("paper")}, {Record("closed")}}}
    \cup {[Root EXCEPT !.unreadable = {"matrix"}], [Root EXCEPT !.provenance = {}],
          [Root EXCEPT !.provenance = {"n/sources.tsv"}], [Root EXCEPT !.pinned = {}],
          [Root EXCEPT !.links = {"README"}], [Root EXCEPT !.reviewSection = FALSE],
          [Root EXCEPT !.control.changelog = "n/README"],
          [Root EXCEPT !.changelog = {Mention("D1", TRUE), Mention("D2", FALSE)}],
          [Root EXCEPT !.register = Append(@, @[1])], [Root EXCEPT !.matrix = Append(@, @[1])],
          [Root EXCEPT !.history = Append(@, @[1])], [Root EXCEPT !.conformance = Append(@, @[1])],
          [Root EXCEPT !.conformance[1].tests = {}], [Root EXCEPT !.conformance[1].agreement = "provider agreement"],
          [Root EXCEPT !.conformance[1].agreement = ""],
          [Root EXCEPT !.register[2].links = {}], [Root EXCEPT !.register[1].values = {"unresolved"} \cup (@ \ {"resolved"})]}

MCTrees ==
    {Tree(root, Plain) : root \in Combined \cup Changed \cup Other}
    \cup {Tree(Root, nested) :
            nested \in {Nested(Three), Nested(One), [Plain EXCEPT !.artifacts = TRUE],
                        [Plain EXCEPT !.provenance = {"n/sources.tsv"}],
                        [Nested(Three) EXCEPT !.provenance = {"sources.tsv"}],
                        DocumentsOf(<<[Three EXCEPT !.fixtures = {"fixture"}]>>, "n/README", "n/sources.tsv")}}
    \cup {Tree(Plain, Plain)}
=============================================================================
