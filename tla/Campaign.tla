------------------------------ MODULE Campaign ------------------------------
(***************************************************************************)
(* internal/mutation Campaign.Run: several processes, possibly at once and *)
(* possibly killed, walk the sorted packages of a module.  For each one    *)
(* they hash its inputs, reuse evidence published for exactly that digest  *)
(* or execute the mutation tool, check that nothing changed meanwhile, and *)
(* publish first the report and then the record that vouches for it.       *)
(* People edit the sources and the reviewed survivors all the while.       *)
(*                                                                         *)
(* Publishing is one atomic step here: module Publication implements the   *)
(* write-once store (theorem Refinement of PublicationProofs).  A digest   *)
(* is the thing digested: a key is a package with the content hashed for   *)
(* it, a report digest is the canonical report.                            *)
(***************************************************************************)
EXTENDS Naturals, Sequences, FiniteSets

CONSTANTS
    Campaigns,      \* processes that run a campaign
    Order,          \* the packages in sorted order, a sequence
    Sources,        \* contents of a package's own sources
    Rests,          \* contents of everything else that is hashed
    Mutants,        \* mutation coordinates of a package
    Tools,          \* gremlins_binary_sha256: digests of built verifiers
    None,           \* nil, an absent file
    Reverting,      \* may an edit restore earlier content?
    Flaky,          \* may the tool report differently on the same content?
    MaxEdits,       \* bound: edits of the sources
    MaxReviews,     \* bound: edits of the equivalent-mutant inventory
    MaxRuns,        \* bound: campaigns started
    MaxFailures     \* bound: kills, cancellations, I/O and tool failures

Packages == {Order[n] : n \in DOMAIN Order}

Inputs == [source : Sources, rest : Rests]

Keys == [package : Packages, input : Inputs]

Reports == UNION {[S -> {"KILLED", "LIVED", "TIMED OUT"}] : S \in SUBSET Mutants}

\* "No results to report.": nothing could be mutated.
NoResults == [m \in {} |-> "KILLED"]

Records == [report : Reports, tool : Tools]

\* A package's entry in equivalent-inventory.json; its verifier identity is current.
Reviews == [source : Sources, mutations : (SUBSET Mutants) \ {{}}]

Limits == [edits |-> MaxEdits, reviews |-> MaxReviews, failures |-> MaxFailures, runs |-> MaxRuns]

ASSUME CampaignAssumption ==
    /\ Len(Order) \in Nat \ {0} /\ DOMAIN Order = 1..Len(Order)
    /\ None \notin Sources \cup Inputs \cup Reports \cup Records \cup Reviews \cup Tools
    /\ {MaxEdits, MaxReviews, MaxRuns, MaxFailures} \subseteq Nat
    /\ Reverting \in BOOLEAN /\ Flaky \in BOOLEAN

VARIABLES
    \* the repository
    tree,           \* tree[p]: the content of package p now
    past,           \* past[p]: the content p has had
    inventory,      \* inventory[p]: the review entry of p on disk, or None
    \* the evidence and report directories
    reports,        \* reports[k]: the report published under k, or None
    records,        \* records[k]: the evidence record under k, or None
    \* one campaign process
    pc,
    at,             \* index of the package at hand
    policy,         \* the inventory as loaded when the campaign was prepared
    source,         \* SourceDigest before hashing
    hashed,         \* what packageInputsForVerifiers has hashed
    input,          \* the package's selected input, fixed by the first pass
    review,         \* the selected review, or None
    report,         \* the raw report in the workspace
    found,          \* the record loaded by ReuseWithReview, or None
    tool,           \* campaignState.tool, or None
    \* history
    executed,       \* which report the tool gave when it ran on which content
    accepted,       \* what each campaign accepted as proof, for which package
    outcome,        \* the report of each key, when the tool is not flaky
    powerLost,      \* has the machine lost power?
    budget          \* what is left of the bounds

repository == <<tree, past, inventory>>
evidence == <<reports, records>>
local == <<at, policy, source, hashed, input, review, report, found, tool>>
history == <<executed, accepted, outcome, powerLost, budget>>
vars == <<repository, evidence, pc, local, history>>

Steps == {"idle", "source", "hash", "own", "confirm", "lookup", "verify", "prepare", "execute",
          "resource", "rehash", "reown", "reconfirm", "report", "record", "passed", "failed"}

Ended == {"idle", "passed", "failed"}

Executed == {"resource", "rehash", "reown", "reconfirm", "report", "record"}

Keyed == {"lookup", "verify", "prepare", "execute"} \cup Executed

Acceptances == [key : Keys, report : Reports, review : Reviews \cup {None}]

TypeOK ==
    /\ tree \in [Packages -> Inputs]
    /\ past \in [Packages -> SUBSET Inputs]
    /\ inventory \in [Packages -> Reviews \cup {None}]
    /\ reports \in [Keys -> Reports \cup {None}]
    /\ records \in [Keys -> Records \cup {None}]
    /\ pc \in [Campaigns -> Steps]
    /\ at \in [Campaigns -> DOMAIN Order]
    /\ policy \in [Campaigns -> [Packages -> Reviews \cup {None}]]
    /\ source \in [Campaigns -> Sources \cup {None}]
    /\ hashed \in [Campaigns -> Inputs \cup {None}]
    /\ input \in [Campaigns -> Inputs \cup {None}]
    /\ review \in [Campaigns -> Reviews \cup {None}]
    /\ report \in [Campaigns -> Reports \cup {None}]
    /\ found \in [Campaigns -> Records \cup {None}]
    /\ tool \in [Campaigns -> Tools \cup {None}]
    /\ executed \subseteq [key : Keys, report : Reports]
    /\ accepted \in [Campaigns -> SUBSET Acceptances]
    /\ outcome \in [Keys -> Reports]
    /\ powerLost \in BOOLEAN
    /\ budget \in [DOMAIN Limits -> Nat]

-----------------------------------------------------------------------------

package(c) == Order[at[c]]

Key(c) == [package |-> package(c), input |-> input[c]]

Goto(c, step) == pc' = [pc EXCEPT ![c] = step]

\* The mutants a review expects to survive: none without a review.
Expected(entry) == IF entry = None THEN {} ELSE entry.mutations

\* validateReportDataWithReview: every mutant is killed, except exactly the
\* reviewed ones, which all have to be there and to have survived.
Valid(raw, entry) ==
    /\ \A m \in DOMAIN raw : raw[m] = (IF m \in Expected(entry) THEN "LIVED" ELSE "KILLED")
    /\ Expected(entry) \subseteq DOMAIN raw

\* EquivalentInventory.Review: an entry bound to another source is an error.
Drifted(entry, current) == entry # None /\ entry.source # current

\* The efficacy threshold exit (10) is tolerated with a review only.
Tolerated(raw, entry) == (\E m \in DOMAIN raw : raw[m] = "LIVED") => entry # None

Accept(c, raw) ==
    accepted' = [accepted EXCEPT ![c] = @ \cup
                    {[key |-> Key(c), report |-> raw, review |-> review[c]]}]

Spend(what) ==
    /\ budget[what] > 0
    /\ budget' = [budget EXCEPT ![what] = @ - 1]

\* What runPackage had in memory is gone when it returns or dies.
Forget(c) ==
    /\ source' = [source EXCEPT ![c] = None]
    /\ hashed' = [hashed EXCEPT ![c] = None]
    /\ input' = [input EXCEPT ![c] = None]
    /\ review' = [review EXCEPT ![c] = None]
    /\ report' = [report EXCEPT ![c] = None]
    /\ found' = [found EXCEPT ![c] = None]

\* Mutant of NextPackage: off by one at the last package.
NextPackageBeyond(c) ==
    /\ Forget(c)
    /\ IF at[c] <= Len(Order)
       THEN at' = [at EXCEPT ![c] = @ + 1] /\ Goto(c, "source")
       ELSE UNCHANGED at /\ Goto(c, "passed")
    /\ UNCHANGED <<policy, tool>>

\* Mutant of NextPackage: the last package is left out.
NextPackageEarly(c) ==
    /\ Forget(c)
    /\ IF at[c] + 1 < Len(Order)
       THEN at' = [at EXCEPT ![c] = @ + 1] /\ Goto(c, "source")
       ELSE UNCHANGED at /\ Goto(c, "passed")
    /\ UNCHANGED <<policy, tool>>

NextPackage(c) ==
    /\ Forget(c)
    /\ IF at[c] < Len(Order)
       THEN at' = [at EXCEPT ![c] = @ + 1] /\ Goto(c, "source")
       ELSE UNCHANGED at /\ Goto(c, "passed")
    /\ UNCHANGED <<policy, tool>>

\* An error ends Run; earlier packages keep what they published.
Abort(c) ==
    /\ Forget(c)
    /\ Goto(c, "failed")
    /\ UNCHANGED <<evidence, at, policy, tool, executed, accepted>>

-----------------------------------------------------------------------------

\* prepareMutationCampaign loads the inventory once; Run starts with no tool.
Run(c) ==
    /\ pc[c] \in Ended
    /\ policy' = [policy EXCEPT ![c] = inventory]
    /\ at' = [at EXCEPT ![c] = 1]
    /\ tool' = [tool EXCEPT ![c] = None]
    /\ accepted' = [accepted EXCEPT ![c] = {}]
    /\ Goto(c, "source")
    /\ Forget(c)
    /\ Spend("runs")
    /\ UNCHANGED <<repository, evidence, executed, outcome, powerLost>>

\* packageInputsForVerifiers, before ("source") and after ("resource") the
\* execution: the source digest, then the whole input file by file,
\* dependencies before the package as go list -deps lists them, then the
\* source digest again, which must not have moved.
ReadSource(c) ==
    /\ pc[c] \in {"source", "resource"}
    /\ source' = [source EXCEPT ![c] = tree[package(c)].source]
    /\ Goto(c, IF pc[c] = "source" THEN "hash" ELSE "rehash")
    /\ UNCHANGED <<repository, evidence, history, at, policy, hashed, input, review, report, found, tool>>

HashRest(c) ==
    /\ pc[c] \in {"hash", "rehash"}
    /\ hashed' = [hashed EXCEPT ![c] = [source |-> source[c], rest |-> tree[package(c)].rest]]
    /\ Goto(c, IF pc[c] = "hash" THEN "own" ELSE "reown")
    /\ UNCHANGED <<repository, evidence, history, at, policy, source, input, review, report, found, tool>>

HashOwn(c) ==
    /\ pc[c] \in {"own", "reown"}
    /\ hashed' = [hashed EXCEPT ![c] = [source |-> tree[package(c)].source, rest |-> @.rest]]
    /\ Goto(c, IF pc[c] = "own" THEN "confirm" ELSE "reconfirm")
    /\ UNCHANGED <<repository, evidence, history, at, policy, source, input, review, report, found, tool>>

SourceMoved(c) == tree[package(c)].source # source[c]

\* Mutant of Confirm: the second source digest is not compared.
ConfirmUnchecked(c) ==
    /\ pc[c] = "confirm"
    /\ LET entry == policy[c][package(c)] IN
       IF Drifted(entry, source[c])
       THEN Abort(c)
       ELSE /\ input' = [input EXCEPT ![c] = hashed[c]]
            /\ review' = [review EXCEPT ![c] = entry]
            /\ source' = [source EXCEPT ![c] = None]
            /\ hashed' = [hashed EXCEPT ![c] = None]
            /\ Goto(c, "lookup")
            /\ UNCHANGED <<evidence, executed, accepted, at, policy, report, found, tool>>
    /\ UNCHANGED <<repository, outcome, powerLost, budget>>

\* The first pass fixes the input, and the review its source selects.
Confirm(c) ==
    /\ pc[c] = "confirm"
    /\ LET entry == policy[c][package(c)] IN
       IF SourceMoved(c) \/ Drifted(entry, source[c])
       THEN Abort(c)
       ELSE /\ input' = [input EXCEPT ![c] = hashed[c]]
            /\ review' = [review EXCEPT ![c] = entry]
            /\ source' = [source EXCEPT ![c] = None]
            /\ hashed' = [hashed EXCEPT ![c] = None]
            /\ Goto(c, "lookup")
            /\ UNCHANGED <<evidence, executed, accepted, at, policy, report, found, tool>>
    /\ UNCHANGED <<repository, outcome, powerLost, budget>>

\* ReuseWithReview, first half: no record is a miss.
Lookup(c) ==
    /\ pc[c] = "lookup"
    /\ found' = [found EXCEPT ![c] = records[Key(c)]]
    /\ Goto(c, IF records[Key(c)] = None THEN "prepare" ELSE "verify")
    /\ UNCHANGED <<repository, evidence, history, at, policy, source, hashed, input, review, report, tool>>

\* Mutant of Verify: the record's own verdict is trusted, the review ignored.
VerifyTrusting(c) ==
    /\ pc[c] = "verify"
    /\ IF reports[Key(c)] # None /\ reports[Key(c)] = found[c].report
       THEN /\ Accept(c, found[c].report)
            /\ NextPackage(c)
            /\ UNCHANGED <<evidence, executed>>
       ELSE Abort(c)
    /\ UNCHANGED <<repository, outcome, powerLost, budget>>

\* ReuseWithReview, second half: the report must be there, must be what the
\* record vouches for, and must be valid under the review of today.
Verify(c) ==
    /\ pc[c] = "verify"
    /\ LET raw == reports[Key(c)] IN
       IF raw # None /\ Valid(raw, review[c]) /\ raw = found[c].report
       THEN /\ Accept(c, raw)
            /\ NextPackage(c)
            /\ UNCHANGED <<evidence, executed>>
       ELSE Abort(c)
    /\ UNCHANGED <<repository, outcome, powerLost, budget>>

\* prepareExecution: the tool is built once for a campaign, whichever build
\* comes out, and the coverage profile measured once.
Prepare(c) ==
    /\ pc[c] = "prepare"
    /\ \E t \in Tools :
        /\ tool[c] # None => t = tool[c]
        /\ tool' = [tool EXCEPT ![c] = t]
    /\ Goto(c, "execute")
    /\ UNCHANGED <<repository, evidence, history, at, policy, source, hashed, input, review, report, found>>

\* The stale report is removed, the tool mutates the content it finds now and
\* runs the tests; a confirmed "No results to report." is an empty report.
Execute(c) ==
    /\ pc[c] = "execute"
    /\ LET ran == [package |-> package(c), input |-> tree[package(c)]] IN
       \E raw \in IF Flaky THEN Reports ELSE {outcome[ran]} :
        IF Tolerated(raw, review[c]) /\ Valid(raw, review[c])
        THEN /\ report' = [report EXCEPT ![c] = raw]
             /\ executed' = executed \cup {[key |-> ran, report |-> raw]}
             /\ Goto(c, "resource")
             /\ UNCHANGED <<evidence, accepted, at, policy, source, hashed, input, review, found, tool>>
        ELSE Abort(c)
    /\ UNCHANGED <<repository, outcome, powerLost, budget>>

\* Mutant of Reconfirm: the input digest is not compared again.
ReconfirmUnchecked(c) ==
    /\ pc[c] = "reconfirm"
    /\ IF SourceMoved(c) \/ Drifted(policy[c][package(c)], source[c])
       THEN Abort(c)
       ELSE /\ source' = [source EXCEPT ![c] = None]
            /\ hashed' = [hashed EXCEPT ![c] = None]
            /\ Goto(c, "report")
            /\ UNCHANGED <<evidence, executed, accepted, at, policy, input, review, report, found, tool>>
    /\ UNCHANGED <<repository, outcome, powerLost, budget>>

\* The second pass must find the source still, the same review and the same input.
Reconfirm(c) ==
    /\ pc[c] = "reconfirm"
    /\ IF SourceMoved(c) \/ Drifted(policy[c][package(c)], source[c]) \/ hashed[c] # input[c]
       THEN Abort(c)
       ELSE /\ source' = [source EXCEPT ![c] = None]
            /\ hashed' = [hashed EXCEPT ![c] = None]
            /\ Goto(c, "report")
            /\ UNCHANGED <<evidence, executed, accepted, at, policy, input, review, report, found, tool>>
    /\ UNCHANGED <<repository, outcome, powerLost, budget>>

\* Mutant of StoreReport: an existing report refuses the run instead of
\* being reused when it is the same.
StoreReportOnce(c) ==
    /\ pc[c] = "report"
    /\ IF reports[Key(c)] = None
       THEN /\ reports' = [reports EXCEPT ![Key(c)] = report[c]]
            /\ Goto(c, "record")
            /\ UNCHANGED <<records, local, executed, accepted>>
       ELSE Abort(c)
    /\ UNCHANGED <<repository, outcome, powerLost, budget>>

\* StoreReportWithReview through Publication: stored, reused or refused.
StoreReport(c) ==
    /\ pc[c] = "report"
    /\ IF reports[Key(c)] \in {None, report[c]}
       THEN /\ reports' = [reports EXCEPT ![Key(c)] = report[c]]
            /\ Goto(c, "record")
            /\ UNCHANGED <<records, local, executed, accepted>>
       ELSE Abort(c)
    /\ UNCHANGED <<repository, outcome, powerLost, budget>>

\* Mutant of StoreRecord: the record replaces an earlier one.
StoreRecordReplacing(c) ==
    /\ pc[c] = "record"
    /\ records' = [records EXCEPT ![Key(c)] = [report |-> report[c], tool |-> tool[c]]]
    /\ Accept(c, report[c])
    /\ NextPackage(c)
    /\ UNCHANGED <<reports, repository, executed, outcome, powerLost, budget>>

\* evidence.Store through Publication: the record binds the report digest and
\* the tool that was built; a record that differs in either is a conflict.
StoreRecord(c) ==
    /\ pc[c] = "record"
    /\ LET record == [report |-> report[c], tool |-> tool[c]] IN
       IF records[Key(c)] \in {None, record}
       THEN /\ records' = [records EXCEPT ![Key(c)] = record]
            /\ Accept(c, report[c])
            /\ NextPackage(c)
            /\ UNCHANGED <<reports, executed>>
       ELSE Abort(c)
    /\ UNCHANGED <<repository, outcome, powerLost, budget>>

-----------------------------------------------------------------------------

\* Any operation may fail, the tool may crash, the context may be cancelled.
Fail(c) ==
    /\ pc[c] \notin Ended
    /\ Spend("failures")
    /\ Abort(c)
    /\ UNCHANGED <<repository, outcome, powerLost>>

\* The process is killed; what it had published stays.
Kill(c) ==
    /\ pc[c] \notin Ended
    /\ Spend("failures")
    /\ Goto(c, "idle")
    /\ Forget(c)
    /\ UNCHANGED <<repository, evidence, at, policy, tool, executed, accepted, outcome, powerLost>>

Present(store) == {k \in Keys : store[k] # None}

\* Publication!PowerLoss: every process dies and unsynced links are lost.
PowerLoss(lostReports, lostRecords) ==
    /\ Spend("failures")
    /\ pc' = [c \in Campaigns |-> "idle"]
    /\ reports' = [k \in Keys |-> IF k \in lostReports THEN None ELSE reports[k]]
    /\ records' = [k \in Keys |-> IF k \in lostRecords THEN None ELSE records[k]]
    /\ powerLost' = TRUE
    /\ source' = [c \in Campaigns |-> None]
    /\ hashed' = [c \in Campaigns |-> None]
    /\ input' = [c \in Campaigns |-> None]
    /\ review' = [c \in Campaigns |-> None]
    /\ report' = [c \in Campaigns |-> None]
    /\ found' = [c \in Campaigns |-> None]
    /\ UNCHANGED <<repository, at, policy, tool, executed, accepted, outcome>>

\* Somebody edits a package, its tests or a dependency.  Unless Reverting, no
\* edit brings back a source or a rest the package had before.
Edit(p, i) ==
    /\ Spend("edits")
    /\ i # tree[p]
    /\ ~Reverting =>
        \A old \in past[p] :
            /\ i.source = old.source => i.source = tree[p].source
            /\ i.rest = old.rest => i.rest = tree[p].rest
    /\ tree' = [tree EXCEPT ![p] = i]
    /\ past' = [past EXCEPT ![p] = @ \cup {i}]
    /\ UNCHANGED <<inventory, evidence, pc, local, executed, accepted, outcome, powerLost>>

\* Somebody adds, rebinds or withdraws a review.
EditInventory(p, entry) ==
    /\ Spend("reviews")
    /\ entry # inventory[p]
    /\ inventory' = [inventory EXCEPT ![p] = entry]
    /\ UNCHANGED <<tree, past, evidence, pc, local, executed, accepted, outcome, powerLost>>

Init ==
    /\ tree \in [Packages -> Inputs]
    /\ past = [p \in Packages |-> {tree[p]}]
    /\ inventory \in [Packages -> Reviews \cup {None}]
    /\ reports = [k \in Keys |-> None]
    /\ records = [k \in Keys |-> None]
    /\ pc = [c \in Campaigns |-> "idle"]
    /\ at = [c \in Campaigns |-> 1]
    /\ policy = [c \in Campaigns |-> inventory]
    /\ source = [c \in Campaigns |-> None]
    /\ hashed = [c \in Campaigns |-> None]
    /\ input = [c \in Campaigns |-> None]
    /\ review = [c \in Campaigns |-> None]
    /\ report = [c \in Campaigns |-> None]
    /\ found = [c \in Campaigns |-> None]
    /\ tool = [c \in Campaigns |-> None]
    /\ executed = {}
    /\ accepted = [c \in Campaigns |-> {}]
    /\ outcome \in IF Flaky THEN {[k \in Keys |-> NoResults]} ELSE [Keys -> Reports]
    /\ powerLost = FALSE
    /\ budget = Limits

\* One package in one process, as the code runs it.
Advance(c) ==
    \/ ReadSource(c)
    \/ HashRest(c)
    \/ HashOwn(c)
    \/ Confirm(c)
    \/ Lookup(c)
    \/ Verify(c)
    \/ Prepare(c)
    \/ Execute(c)
    \/ Reconfirm(c)
    \/ StoreReport(c)
    \/ StoreRecord(c)

Next ==
    \/ \E c \in Campaigns : Run(c) \/ Advance(c) \/ Fail(c) \/ Kill(c)
    \/ \E lostReports \in SUBSET Present(reports), lostRecords \in SUBSET Present(records) :
        PowerLoss(lostReports, lostRecords)
    \/ \E p \in Packages, i \in Inputs : Edit(p, i)
    \/ \E p \in Packages, entry \in Reviews \cup {None} : EditInventory(p, entry)

Spec == Init /\ [][Next]_vars

-----------------------------------------------------------------------------

\* What runPackage has in hand at each step: nothing is used before it is
\* computed, and nothing computed is lost on the way to its use.
Carried(c) ==
    /\ pc[c] \in {"hash", "own", "confirm", "rehash", "reown", "reconfirm"} => source[c] # None
    /\ pc[c] \in {"own", "confirm", "reown", "reconfirm"} => hashed[c] # None
    /\ pc[c] \in Keyed => input[c] # None
    /\ pc[c] = "verify" => found[c] # None
    /\ pc[c] \in {"execute"} \cup Executed => tool[c] # None
    /\ pc[c] \in Executed => report[c] # None

\* A process about to write the record has its own report in the store: no
\* other process replaces it, and a power loss ends the process too.
RecordingHasReport ==
    \A c \in Campaigns : pc[c] = "record" => reports[Key(c)] = report[c]

\* A record never vouches for a report that is missing or different, whoever
\* published what in which order and whoever was killed in between
\* (campaign.go:426-449: the report first, then the record).
RecordHasReport ==
    \A k \in Keys : records[k] # None /\ ~powerLost => records[k].report = reports[k]

\* The inductive invariant behind RecordHasReport.
Inv ==
    /\ TypeOK
    /\ \A c \in Campaigns : Carried(c)
    /\ RecordingHasReport
    /\ RecordHasReport

\* Evidence under a digest was produced by running the tool on the content of
\* that digest, although people edit while it runs (campaign.go:415-425).
EvidenceWasExecuted ==
    \A k \in Keys : reports[k] # None => [key |-> k, report |-> reports[k]] \in executed

\* A package passes only on a report the tool really gave for that content,
\* and one that today's inventory, not the one of the day it was recorded,
\* accepts in full (reuse.go:21-55; report_store.go:148-149).
AcceptedIsProved ==
    \A c \in Campaigns : \A a \in accepted[c] :
        /\ [key |-> a.key, report |-> a.report] \in executed
        /\ a.review = policy[c][a.key.package]
        /\ Valid(a.report, a.review)

\* A review is never applied to evidence hashed from another source
\* (campaign.go:540-542: "a go-list hook or concurrent edit cannot turn a
\* pre-list review into permission to reuse evidence hashed from later
\* source bytes").
ReviewBindsInput ==
    \A c \in Campaigns : \A a \in accepted[c] :
        a.review # None => a.review.source = a.key.input.source

\* A campaign that passed has accepted every package of the module, and
\* without a power loss each of them has its record for the next campaign.
PassedIsComplete ==
    \A c \in Campaigns : pc[c] = "passed" =>
        \A p \in Packages : \E a \in accepted[c] :
            a.key.package = p /\ (~powerLost => records[a.key] # None)

\* Published evidence is never replaced by other evidence, and only a power
\* loss can take it away: several campaigns and their restarts share the
\* directories without harming what an earlier one proved.
EvidenceIsImmutable ==
    [][\A k \in Keys :
        /\ reports[k] # None => reports'[k] = reports[k] \/ (powerLost' /\ reports'[k] = None)
        /\ records[k] # None => records'[k] = records[k] \/ (powerLost' /\ records'[k] = None)]_evidence

\* What is verified can be: the tool's one report of each package is valid.
Verifiable ==
    \A p \in Packages :
        /\ ~Drifted(inventory[p], tree[p].source)
        /\ Valid(outcome[[package |-> p, input |-> tree[p]]], inventory[p])

\* A started campaign goes on: every operation it waits for returns, since
\* each is a local file operation or a process bounded by the context.
Fairness == \A c \in Campaigns : WF_vars(Advance(c))

FairSpec == Spec /\ Fairness

\* Campaign c begins, nothing will fail or be edited any more, and what is
\* there verifies.
BeginsUndisturbed(c) ==
    /\ pc[c] = "source" /\ at[c] = 1
    /\ budget.failures = 0 /\ budget.edits = 0 /\ budget.reviews = 0
    /\ policy[c] = inventory
    /\ Verifiable
    /\ ~powerLost

\* On content that verifies, with a repeatable tool and a reproducible build,
\* a campaign left alone passes, wherever earlier campaigns were killed and
\* whatever another one publishes at the same time: a report left without its
\* record is completed, not fought over (campaign.go:426-449).
EventuallyPasses == \A c \in Campaigns : BeginsUndisturbed(c) ~> pc[c] = "passed"
=============================================================================
