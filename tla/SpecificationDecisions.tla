------------------------ MODULE SpecificationDecisions ------------------------
(***************************************************************************)
(* golib specification check [--online] (internal/specification): module   *)
(* by module, the authority policy, the register, the conformance matrix   *)
(* and manifest, the ledger and the changelog must tell of the same        *)
(* decisions; online, every authority must still answer as reviewed.       *)
(*                                                                         *)
(* A tree holds, for each module, what its documents say.  Text is kept    *)
(* only as far as two documents are compared: a value, a link, a mention.  *)
(***************************************************************************)
EXTENDS Integers, Sequences, FiniteSets, SequencesExt

CONSTANTS SpecModules,      \* the catalog's module directories, in order
          DirectoryOf,      \* [file name -> its path, a sequence]
          Trees,            \* repository contents: [module -> its documents]
          TestNames,        \* evidence names that begin with Test
          FuzzNames,        \* evidence names that begin with Fuzz
          Addresses,        \* network addresses
          PublicAddresses,  \* those that isPublicAuthorityAddress admits
          Statuses, Bodies, \* HTTP answers
          MaximumAuthorities,
          MaximumRequests   \* requests of one fetch, redirects included

Entries(list) == {list[i] : i \in 1..Len(list)}
IsList(list) == list \in Seq(Entries(list))

ASSUME SpecificationAssumption ==
    /\ PublicAddresses \subseteq Addresses
    /\ MaximumAuthorities \in Nat /\ MaximumRequests \in Nat
    /\ IsList(SpecModules)
    /\ \A repository \in Trees, module \in Entries(SpecModules) :
          /\ IsList(repository[module].authorities) /\ IsList(repository[module].decisions)
          /\ IsList(repository[module].conformance) /\ IsList(repository[module].history)

VARIABLES tree,     \* the admitted repository
          checker,  \* the check: module, stage, claimed identifiers, verdict
          fetch     \* the authority being fetched, and what was contacted

specificationVars == <<tree, checker, fetch>>

-----------------------------------------------------------------------------
(* Ownership of files.                                                     *)

Inside(directory, path) == IsStrictPrefix(directory, path)
NestedModules == {SpecModules[i] : i \in 1..Len(SpecModules)} \ {<<>>}
InNested(file) == \E nested \in NestedModules : Inside(nested, DirectoryOf[file])

(* A module below the root also owns what lies in modules nested in it.    *)
Owns(module, file) ==
    IF module = <<>> THEN ~InNested(file) ELSE Inside(module, DirectoryOf[file])
OwnsOrShares(module, file) == Owns(module, file) \/ ~InNested(file)

-----------------------------------------------------------------------------
(* The authority policy of a module.                                       *)

SourceKinds == {"specification", "registry", "extension", "recommendation"}
ChangeKinds == {"errata", "releases"}
Denials == {401, 403, 451}

Ids(list) == {list[i].id : i \in 1..Len(list)}
Distinct(list) == Cardinality(Ids(list)) = Len(list)
Sources(documents) == {a \in Entries(documents.authorities) : a.kind \in SourceKinds}

Public(authority) == authority.access \in {"", "public"}
MayBeDenied(authority) == authority.access \in {"restricted", "conditional"}

(* An empty string and status 0 stand for fields that are left out.        *)
ExactPin(authority) ==
    /\ authority.id # "" /\ authority.https
    /\ authority.kind \in SourceKinds \cup ChangeKinds
    /\ Public(authority) \/ MayBeDenied(authority)
    /\ (authority.digest = "") <=> (authority.access = "restricted")
    /\ Public(authority) => authority.status = 0 /\ authority.reason = ""
    /\ MayBeDenied(authority) => /\ authority.kind \in SourceKinds
                                /\ authority.status \in Denials /\ authority.reason # ""
    /\ authority.kind \in SourceKinds => authority.version # ""

(* review.age is in days; it is negative when the date is in the future.   *)
Monitored(documents) ==
    LET review == documents.review
        Covered(kinds) == UNION {a.specifications : a \in {b \in Entries(documents.authorities) : b.kind \in kinds}}
    IN  /\ review.interval \in 1..90 /\ review.age \in 0..review.interval
        /\ Len(documents.authorities) \in 1..MaximumAuthorities
        /\ Distinct(documents.authorities)
        /\ \A a \in Entries(documents.authorities) :
              ExactPin(a) /\ a.specifications # {} /\ a.specifications \subseteq documents.specifications
        /\ documents.specifications \subseteq Covered(SourceKinds) \cap Covered(ChangeKinds)

(* Source manifests: owned files of exact pins.                            *)
Provenance(module, documents) ==
    /\ documents.provenance # {}
    /\ \A manifest \in documents.provenance :
          Owns(module, manifest) /\ manifest \in documents.files /\ manifest \in documents.pinned

-----------------------------------------------------------------------------
(* Decisions.                                                              *)

Current(decision) == decision.status # "superseded"
SourceOf(documents, decision) == {a \in Sources(documents) : a.id = decision.source}

(* complete: the prose and the lists that only must not be empty, blank or *)
(* repeated, and the classification, are as they must be.                  *)
ValidDecision(module, documents, decision) ==
    /\ decision.complete
    /\ decision.status \in {"resolved", "unresolved", "superseded"}
    /\ \E source \in SourceOf(documents, decision) :
          /\ decision.mandatory => decision.scope = "normative"
          /\ source.kind = "recommendation" => decision.scope # "normative"
          /\ decision.specification \in source.specifications
          /\ decision.version = source.version
    /\ decision.status = "resolved" => decision.tests \cap TestNames # {}
    /\ decision.fuzz \subseteq FuzzNames
    /\ Current(decision) => decision.tests \cup decision.fuzz \subseteq documents.tests
    /\ \A file \in decision.fixtures \cup decision.interoperability \cup decision.differential :
          Owns(module, file) /\ (Current(decision) => file \in documents.files)
    /\ \A file \in decision.documentation : Owns(module, file) /\ file \in documents.files

(* The exact values an entry of the register must contain.                 *)
Values(documents, decision) ==
    {decision.status, decision.scope, decision.specification, decision.version, decision.source,
     decision.text}
    \cup {a.url : a \in SourceOf(documents, decision)}
    \cup decision.tests \cup decision.fuzz \cup decision.fixtures \cup decision.interoperability
    \cup decision.differential \cup decision.documentation

(* They are looked for as substrings: an entry that says unresolved also   *)
(* says resolved.                                                          *)
Spelled(entry) == entry.values \cup (IF "unresolved" \in entry.values THEN {"resolved"} ELSE {})

(* The record of every further authoritative source, and the replacement's *)
(* heading anchor, must be in the decision's own entry.                    *)
Described(documents, decision, entry, row) ==
    /\ entry.title = decision.title
    /\ Values(documents, decision) \subseteq Spelled(entry)
    /\ \A id \in row.sources \ {decision.source} :
          \E a \in Entries(documents.authorities) :
              a.id = id /\ [id |-> id, version |-> a.version, url |-> a.url,
                            specifications |-> a.specifications] \in entry.records

(* Records of schema version 1 kept differential evidence in the generic   *)
(* field of the decision.                                                  *)
Bound(documents, decision, row) ==
    LET legacy == row.interoperability = {} /\ decision.differential = {}
        known == {a.id : a \in Sources(documents)}
    IN  /\ row.complete /\ row.sources # {}
        /\ decision.source \in row.sources /\ row.sources \subseteq known
        /\ row.tests = decision.tests /\ row.fixtures = decision.fixtures /\ row.fuzz = decision.fuzz
        /\ row.interoperability = (IF legacy THEN {} ELSE decision.interoperability)
        /\ row.differential = (IF legacy THEN decision.interoperability ELSE decision.differential)
        /\ row.agreement \in (IF row.interoperability = {} THEN {"", "not assessed"}
                              ELSE {"official fixture agreement", "provider agreement"})
        /\ IF row.differential = {} THEN row.difference = "not assessed"
           ELSE row.difference \in {"local defect", "peer defect", "maintained peer agreement"}
        /\ Current(decision) => row.tests \subseteq documents.tests

Superseded(decisions, decision, entry) ==
    decision.status = "superseded" =>
        /\ decision.replacement \in Ids(decisions) \ {decision.id}
        /\ decision.replacement \in entry.links

(* links: the documents of the change control that link to the register.   *)
ChangeControlled(module, documents) ==
    LET control == documents.control
    IN  /\ {control.readme, control.conformance, control.compatibility, control.contribution,
            control.changelog} \subseteq documents.files \cap documents.links
        /\ \A file \in {control.readme, control.conformance, control.compatibility, control.changelog} :
              Owns(module, file)
        /\ OwnsOrShares(module, control.contribution) /\ OwnsOrShares(module, control.template)
        /\ control.template \in documents.files /\ documents.reviewSection

(* A mention is whole, or the beginning or the end of a longer word.       *)
ChangeLogged(documents) ==
    LET current == Ids(documents.decisions)
    IN  /\ {mention.id : mention \in documents.changelog} \subseteq current
        /\ current \subseteq {mention.id : mention \in {n \in documents.changelog : n.whole}}

(* validateDecisionContract: every decision in each document, and nothing  *)
(* in a document that is not a decision.                                   *)
Contract(module, documents) ==
    LET ids == Ids(documents.decisions)
    IN  /\ Distinct(documents.register) /\ Distinct(documents.conformance) /\ Distinct(documents.decisions)
        /\ ChangeControlled(module, documents)
        /\ \A decision \in Entries(documents.decisions) :
              /\ ValidDecision(module, documents, decision)
              /\ \E entry \in Entries(documents.register), row \in Entries(documents.conformance) :
                    /\ entry.id = decision.id /\ row.id = decision.id
                    /\ Described(documents, decision, entry, row)
                    /\ Bound(documents, decision, row)
                    /\ Superseded(documents.decisions, decision, entry)
              /\ decision.id \in Entries(documents.matrix)
        /\ Ids(documents.register) \cup Entries(documents.matrix) \cup Ids(documents.conformance) \subseteq ids
        /\ ChangeLogged(documents)

(* The digest of the canonical JSON of the whole record.                   *)
Digest(decision) == [sha256 |-> decision]

(* Mutant of LedgerKeeps: looks the identifier up, not the content. *)
LedgerOfIdentifiers(documents) ==
    /\ Distinct(documents.history)
    /\ Ids(documents.history) = Ids(documents.decisions)

(* validateDecisionLedger.                                                 *)
LedgerKeeps(documents) ==
    /\ Distinct(documents.history)
    /\ \A entry \in Entries(documents.history) : entry.digests # {}
    /\ \A decision \in Entries(documents.decisions) :
          \E entry \in Entries(documents.history) :
              entry.id = decision.id /\ Digest(decision) \in entry.digests
    /\ Ids(documents.history) \subseteq Ids(documents.decisions)

Readable(documents) ==
    /\ documents.unreadable = {}
    /\ documents.matrix # <<>> /\ Cardinality(Entries(documents.matrix)) = Len(documents.matrix)
    /\ documents.register # <<>> /\ documents.decisions # <<>> /\ documents.conformance # <<>>

-----------------------------------------------------------------------------
(* The check of one module after the other.                                *)

SpecificationInit ==
    /\ tree \in Trees
    /\ \E online \in BOOLEAN :
          checker = [at |-> "module", module |-> 1, owned |-> {}, specified |-> {}, unresolved |-> 0,
                     online |-> online, verdict |-> "none"]
    /\ fetch = [left |-> <<>>, requests |-> 0, at |-> "idle", contacted |-> {}, answers |-> {}]

CheckedModule == SpecModules[checker.module]
Checked == tree[CheckedModule]
AtStage(name) == checker.verdict = "none" /\ checker.at = name /\ checker.module <= Len(SpecModules)
Verdict(verdict) == checker' = [checker EXCEPT !.verdict = verdict]
NextStage(holds, name) ==
    /\ IF holds THEN checker' = [checker EXCEPT !.at = name] ELSE Verdict("refused")
    /\ UNCHANGED <<tree, fetch>>

(* A module that declares no specification may not have anything of one.   *)
Undeclared ==
    /\ AtStage("module") /\ Checked.specifications = {}
    /\ IF Checked.provenance = {} /\ ~Checked.artifacts
       THEN checker' = [checker EXCEPT !.module = @ + 1] ELSE Verdict("refused")
    /\ UNCHANGED <<tree, fetch>>

Declared ==
    /\ AtStage("module") /\ Checked.specifications # {}
    /\ NextStage(Provenance(CheckedModule, Checked), "monitoring")

LoadMonitoring == AtStage("monitoring") /\ NextStage(Monitored(Checked), "documents")
ReadDocuments == AtStage("documents") /\ NextStage(Readable(Checked), "contract")
ValidateContract == AtStage("contract") /\ NextStage(Contract(CheckedModule, Checked), "ledger")
ValidateLedger == AtStage("ledger") /\ NextStage(LedgerKeeps(Checked), "claim")

(* An identifier belongs to one module of the repository.                  *)
ClaimIdentifiers ==
    LET ids == Ids(Checked.decisions)
        open == {d \in Entries(Checked.decisions) : d.status = "unresolved"}
    IN  /\ AtStage("claim")
        /\ IF ids \cap checker.owned # {} THEN Verdict("refused")
           ELSE checker' = [checker EXCEPT !.at = "module", !.module = @ + 1, !.owned = @ \cup ids,
                                           !.specified = @ \cup {CheckedModule},
                                           !.unresolved = @ + Cardinality(open)]
        /\ UNCHANGED <<tree, fetch>>

(* Check, checkOnline: unresolved decisions fail; without a module to      *)
(* check there is nothing to fetch.                                        *)
Reviewed ==
    LET policies == [i \in 1..Len(SpecModules) |->
                        IF SpecModules[i] \in checker.specified
                        THEN tree[SpecModules[i]].authorities ELSE <<>>]
    IN  /\ checker.verdict = "none" /\ checker.at = "module" /\ checker.module > Len(SpecModules)
        /\ IF checker.unresolved > 0 THEN Verdict("refused") /\ UNCHANGED fetch
           ELSE IF checker.online /\ checker.specified # {}
           THEN /\ checker' = [checker EXCEPT !.at = "fetch"]
                /\ fetch' = [fetch EXCEPT !.left = FlattenSeq(policies), !.at = "validate", !.requests = 1]
           ELSE Verdict("accepted") /\ UNCHANGED fetch
        /\ UNCHANGED tree

-----------------------------------------------------------------------------
(* Online: one authority after the other, under one deadline.              *)

Fetching(at) == checker.verdict = "none" /\ checker.at = "fetch" /\ fetch.at = at
Authority == Head(fetch.left)

(* A lookup; it may give other addresses each time it is made.             *)
Admitted(answer) == answer # {} /\ answer \subseteq PublicAddresses

(* validateAuthorityDestination: before the request, and at a redirect.    *)
ValidateDestination ==
    /\ Fetching("validate")
    /\ \E answer \in SUBSET Addresses :
          IF Admitted(answer) THEN fetch' = [fetch EXCEPT !.at = "dial"] /\ UNCHANGED checker
          ELSE Verdict("refused") /\ UNCHANGED fetch
    /\ UNCHANGED tree

(* dialResolvedAuthority looks the host up again, and tries the addresses  *)
(* of that answer until one can be connected to.                           *)
Dial ==
    /\ Fetching("dial")
    /\ \E answer \in SUBSET Addresses :
          IF ~Admitted(answer) THEN Verdict("refused") /\ UNCHANGED fetch
          ELSE \/ \E tried \in SUBSET answer \ {{}} :
                     /\ fetch' = [fetch EXCEPT !.at = "respond", !.contacted = @ \cup tried]
                     /\ UNCHANGED checker
               \/ /\ fetch' = [fetch EXCEPT !.contacted = @ \cup answer]
                  /\ Verdict("refused")
    /\ UNCHANGED tree

(* net/http keeps connections and uses them again for the same host.       *)
UseConnection ==
    /\ Fetching("dial") /\ fetch.contacted # {}
    /\ fetch' = [fetch EXCEPT !.at = "respond"]
    /\ UNCHANGED <<tree, checker>>

(* A redirect stays on the pinned host and https, and their number is      *)
(* bounded.                                                                *)
Redirected ==
    /\ Fetching("respond")
    /\ \E pinned \in BOOLEAN :
          IF fetch.requests < MaximumRequests /\ pinned
          THEN fetch' = [fetch EXCEPT !.at = "validate", !.requests = @ + 1] /\ UNCHANGED checker
          ELSE Verdict("refused") /\ UNCHANGED fetch
    /\ UNCHANGED tree

(* What a final answer must be for the way the authority is accessible.    *)
AsReviewed(authority, status, body) ==
    \/ MayBeDenied(authority) /\ status = authority.status
    \/ authority.access # "restricted" /\ status \in 200..299 /\ body = authority.digest

Answered ==
    /\ Fetching("respond")
    /\ \E status \in Statuses, body \in Bodies :
          IF ~AsReviewed(Authority, status, body) THEN Verdict("refused") /\ UNCHANGED fetch
          ELSE /\ fetch' = [fetch EXCEPT !.left = Tail(@), !.requests = 1, !.at = "validate",
                                         !.answers = @ \cup {<<Authority.id, status, body>>}]
               /\ IF Len(fetch.left) = 1 THEN Verdict("accepted") ELSE UNCHANGED checker
    /\ UNCHANGED tree

(* The two minutes are over, the body is too large or cannot be read.      *)
FetchFails ==
    /\ checker.verdict = "none" /\ checker.at = "fetch" /\ Verdict("refused")
    /\ UNCHANGED <<tree, fetch>>

SpecificationNext ==
    \/ Undeclared \/ Declared \/ LoadMonitoring \/ ReadDocuments \/ ValidateContract \/ ValidateLedger
    \/ ClaimIdentifiers \/ Reviewed
    \/ ValidateDestination \/ Dial \/ UseConnection \/ Redirected \/ Answered \/ FetchFails

SpecificationSpec == SpecificationInit /\ [][SpecificationNext]_specificationVars

-----------------------------------------------------------------------------
(* What an accepted repository can be relied on for.                       *)

Specified == {SpecModules[i] : i \in {j \in 1..Len(SpecModules) : tree[SpecModules[j]].specifications # {}}}

(* The documents of a module tell of the same decisions, whichever two are *)
(* compared, and the ledger holds what each of them says now.              *)
DocumentsAgree(documents) ==
    LET ids == Ids(documents.decisions)
    IN  /\ Entries(documents.matrix) = ids /\ Ids(documents.history) = ids
        /\ Ids(documents.register) = ids /\ Ids(documents.conformance) = ids
        /\ {mention.id : mention \in documents.changelog} = ids
        /\ \A decision \in Entries(documents.decisions), entry \in Entries(documents.history) :
              entry.id = decision.id => \E digest \in entry.digests : digest.sha256 = decision

(* Nobody who follows the documents of a resolved decision meets evidence  *)
(* that is gone, an authority that no longer covers it, or a policy whose  *)
(* review is older than the 90 days a policy may allow.                    *)
DecisionsAreBacked(documents) ==
    /\ documents.review.age <= 90
    /\ \A row \in Entries(documents.conformance), decision \in Entries(documents.decisions) :
          row.id = decision.id =>
             /\ decision.status # "unresolved"
             /\ \E id \in row.sources, a \in Entries(documents.authorities) :
                   a.id = id /\ a.kind \in SourceKinds /\ decision.specification \in a.specifications
             /\ Current(decision) => /\ row.fixtures \cup row.interoperability \cup row.differential
                                        \subseteq documents.files
                                     /\ row.tests \cap documents.tests \cap TestNames # {}

AcceptedDecisionsAgree ==
    checker.verdict = "accepted" =>
        /\ \A m \in Specified : DocumentsAgree(tree[m]) /\ DecisionsAreBacked(tree[m])
        /\ \A m, n \in Specified : m # n => Ids(tree[m].decisions) \cap Ids(tree[n].decisions) = {}

(* The content that was reviewed, or the denial that was: of an authority  *)
(* the policy calls public only the first, of a restricted one the second. *)
SeenContent(authority, answer) == answer[2] \in 200..299 /\ answer[3] = authority.digest
SeenDenial(authority, answer) == answer[2] \in Denials /\ answer[2] = authority.status

(* Whatever the resolver answers, and whenever it changes its answer, only *)
(* public addresses are contacted; and accepted online means that every    *)
(* authority was seen as it was reviewed.                                  *)
OnlineIsReviewed ==
    /\ fetch.contacted \subseteq PublicAddresses
    /\ checker.verdict = "accepted" /\ checker.online =>
          \A m \in Specified : \A a \in Entries(tree[m].authorities) :
             \E answer \in fetch.answers :
                /\ answer[1] = a.id
                /\ \/ a.access # "restricted" /\ SeenContent(a, answer)
                   \/ ~Public(a) /\ SeenDenial(a, answer)
=============================================================================
