----------------------------- MODULE LocalActions -----------------------------
(***************************************************************************)
(* golib workflows check: before actionlint may start, every workflow and  *)
(* every repository-local action it can reach is inspected                 *)
(* (internal/gates/workflows.go and local_actions.go).                     *)
(*                                                                         *)
(* The walk is a depth-first search with two sets, the references it is    *)
(* inside of and those it has finished, and limits on depth and on the     *)
(* number of descriptors.  A directory and the action.yml in it are two    *)
(* references to one descriptor.                                           *)
(***************************************************************************)
EXTENDS Naturals, Sequences, FiniteSets

CONSTANTS WorkflowFiles,       \* descriptors under .github/workflows
          References,          \* canonical local references
          Descriptor,          \* [References -> the action descriptor it names]
          Documents,           \* the trees: [descriptor -> [state, uses]]
          MaximumDepth,        \* maximumLocalActionDepth
          MaximumDescriptors   \* maximumWorkflowFiles

(* A document is clean, has findings, cannot be decoded, or is missing, a  *)
(* link or too large; uses are its local references in document order.     *)
States == {"clean", "flawed", "invalid", "missing"}

ASSUME LocalActionsAssumption ==
    /\ MaximumDepth \in Nat /\ MaximumDescriptors \in Nat
    /\ \A held \in Documents :
          /\ DOMAIN held = WorkflowFiles \cup {Descriptor[r] : r \in References}
          /\ \A descriptor \in DOMAIN held :
                held[descriptor].state \in States /\ held[descriptor].uses \in Seq(References)

VARIABLES documents,  \* what the tree holds
          inspection, \* localActionInspection, and the recursion as a stack
          workflows   \* the directory walk: what is left, findings, verdict

localActionVars == <<documents, inspection, workflows>>

LocalActionsInit ==
    /\ documents \in Documents
    /\ inspection = [stack |-> <<>>, active |-> {}, complete |-> {}, files |-> 0]
    /\ workflows = [left |-> WorkflowFiles, findings |-> {}, verdict |-> "none"]

Deciding == workflows.verdict = "none"
Refuse(cause) == /\ workflows' = [workflows EXCEPT !.verdict = cause]
                 /\ UNCHANGED <<documents, inspection>>
Frame(name, document) == [name |-> name, uses |-> documents[document].uses]
Depth == Len(inspection.stack)
Top == inspection.stack[Depth]

(* checkWorkflowSecurityWithFiles: the directory is read in any order;     *)
(* findings of workflows are collected, an undecodable one ends the walk.  *)
OpenWorkflow ==
    /\ Deciding /\ Depth = 0
    /\ \E file \in workflows.left :
          IF \/ inspection.files + 1 > MaximumDescriptors
             \/ documents[file].state \in {"missing", "invalid"}
          THEN Refuse("workflow")
          ELSE /\ workflows' = [workflows EXCEPT
                      !.left = @ \ {file},
                      !.findings = IF documents[file].state = "flawed" THEN @ \cup {file} ELSE @]
               /\ inspection' = [inspection EXCEPT !.files = @ + 1,
                                                   !.stack = <<Frame(file, file)>>]
               /\ UNCHANGED documents

Referring == Deciding /\ Depth > 0 /\ Top.uses # <<>>
Reference == Head(Top.uses)
Consumed == [inspection EXCEPT !.stack[Depth].uses = Tail(@)]

(* local, in the order of its checks.                                      *)
TooDeep == Referring /\ Depth > MaximumDepth /\ Refuse("depth")

Cycle ==
    /\ Referring /\ Depth <= MaximumDepth
    /\ Reference \in inspection.active
    /\ Refuse("cycle")

SkipComplete ==
    /\ Referring /\ Depth <= MaximumDepth
    /\ Reference \in inspection.complete \ inspection.active
    /\ inspection' = Consumed
    /\ UNCHANGED <<documents, workflows>>

Fresh == Referring /\ Depth <= MaximumDepth /\ Reference \notin inspection.active \cup inspection.complete
Admissible == /\ inspection.files + 1 <= MaximumDescriptors
              /\ documents[Descriptor[Reference]].state = "clean"

RefuseAction == Fresh /\ ~Admissible /\ Refuse("action")

(* Mutant of EnterAction: marks the action complete before its content. *)
EnterActionComplete ==
    /\ Fresh /\ Admissible
    /\ inspection' = [Consumed EXCEPT
            !.files = @ + 1, !.complete = @ \cup {Reference},
            !.stack = Append(@, Frame(Reference, Descriptor[Reference]))]
    /\ UNCHANGED <<documents, workflows>>

EnterAction ==
    /\ Fresh /\ Admissible
    /\ inspection' = [Consumed EXCEPT
            !.files = @ + 1, !.active = @ \cup {Reference},
            !.stack = Append(@, Frame(Reference, Descriptor[Reference]))]
    /\ UNCHANGED <<documents, workflows>>

(* The end of a document: an action leaves the active set and is complete. *)
Leave ==
    /\ Deciding /\ Depth > 0 /\ Top.uses = <<>>
    /\ inspection' = [inspection EXCEPT
            !.stack = SubSeq(@, 1, Depth - 1),
            !.active = @ \ {Top.name},
            !.complete = IF Depth > 1 THEN @ \cup {Top.name} ELSE @]
    /\ UNCHANGED <<documents, workflows>>

Decide ==
    /\ Deciding /\ Depth = 0 /\ workflows.left = {}
    /\ workflows' = [workflows EXCEPT !.verdict = IF workflows.findings = {} THEN "accepted" ELSE "findings"]
    /\ UNCHANGED <<documents, inspection>>

LocalActionsNext ==
    \/ OpenWorkflow \/ TooDeep \/ Cycle \/ SkipComplete \/ RefuseAction
    \/ EnterAction \/ Leave \/ Decide

LocalActionsSpec ==
    LocalActionsInit /\ [][LocalActionsNext]_localActionVars /\ WF_localActionVars(LocalActionsNext)

-----------------------------------------------------------------------------
Used(document) == {documents[document].uses[i] : i \in 1..Len(documents[document].uses)}

(* The references that GitHub would resolve: the least set that has those  *)
(* of the given documents and is closed under the uses of its members.     *)
Reachable(from) ==
    LET Closed(set) == \A r \in set : Used(Descriptor[r]) \subseteq set
        Holds(set) == UNION {Used(d) : d \in from} \subseteq set /\ Closed(set)
    IN  {r \in References : \A set \in SUBSET References : Holds(set) => r \in set}

(* A reference inside itself.                                              *)
Cyclic(r) == r \in Reachable({Descriptor[r]})

LocalActionsType ==
    /\ inspection.active \subseteq References /\ inspection.complete \subseteq References
    /\ inspection.active \cap inspection.complete = {}
    /\ inspection.files <= MaximumDescriptors
    /\ workflows.verdict \in {"none", "accepted", "findings", "workflow", "action", "depth", "cycle"}

(* An accepted tree has no descriptor, however reached and in whatever     *)
(* order the workflows were read, that was not found clean, and no action  *)
(* that uses itself; and a tree is refused for a cycle only if it has one  *)
(* (checkWorkflowSecurityWithFiles, local).                                *)
AcceptedIsInspected ==
    LET reached == Reachable(WorkflowFiles)
    IN  /\ workflows.verdict = "accepted" =>
              /\ \A file \in WorkflowFiles : documents[file].state = "clean"
              /\ \A r \in reached : documents[Descriptor[r]].state = "clean" /\ ~Cyclic(r)
        /\ workflows.verdict = "cycle" => \E r \in reached : Cyclic(r)
=============================================================================
