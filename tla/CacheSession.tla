---------------------------- MODULE CacheSession ----------------------------
(***************************************************************************)
(* Go build caches of golib invocations.  Each invocation has a process    *)
(* executor (gates/process.go) with caches of its own; it may borrow the   *)
(* compilation caches of a caller's session.  A command is classified, and *)
(* its class decides which cache it reads and writes.  The question is     *)
(* whose output a command can meet in its cache: the pinned verifiers must *)
(* not consume what repository code had a chance to write.                 *)
(***************************************************************************)
EXTENDS Naturals, FiniteSets, Sequences

CONSTANTS
    Invocations,    \* runs of golib
    None,
    MaxCommands     \* bound: commands run by all of them together

ASSUME SessionAssumption == MaxCommands \in Nat /\ None \notin Invocations

-----------------------------------------------------------------------------
\* Commands: who writes into the cache when one runs, and what the
\* classification looks at.  "tool" is a pinned program, "native" a go command
\* on the repository, "unknown" anything else, repository scripts included.

Command(from, name, verb, dir, by) ==
    [from |-> from, name |-> name, verb |-> verb, dir |-> dir, by |-> by]

GateCommands ==
    { Command("gate", <<"go">>, "run", <<"module">>, "tool"),
      Command("gate", <<"go">>, "test", <<"module">>, "native"),
      Command("gate", <<"make">>, "operation", <<"module">>, "unknown") }

Workspace == <<"task", "mutation-campaigns", "module">>

ToolWorkspace == Append(Workspace, "verifier")

\* BuildVerifier in the workspace the campaign gives it: download, then build.
Download == Command("campaign", <<"go">>, "mod download", ToolWorkspace, "tool")

Build == Command("campaign", <<"go">>, "build", Append(ToolWorkspace, "gremlins-source"), "tool")

CoverageTest == Command("campaign", <<"go">>, "test", <<"module">>, "native")

\* The built verifier, which runs the repository's tests on every mutant.
Unleash == Command("campaign", Append(ToolWorkspace, "golib-gremlins"), "unleash", <<"module">>, "native")

\* The order of one campaign; the next module of the invocation starts over.
CampaignCommands == <<Download, Build, CoverageTest, Unleash>>

\* Runner.command, and the explicit classes of the gates.
GateClass(c) ==
    CASE c.verb \in {"test", "mod"} -> "native"
      [] c.verb \in {"run", "vet"} -> "verifier"
      [] OTHER -> "runtime"

RunsPackages(c) == c.name = Append(Workspace, "golib-gremlins") /\ c.verb = "unleash"

\* Runner.mutationProcess.
CampaignClass(c) ==
    CASE c.name = <<"go">> /\ c.verb \in {"list", "test"} -> "native"
      [] c.name = <<"go">> /\ c.verb = "mod download" -> "verifier"
      [] c.name = <<"go">> /\ c.verb = "build" /\ c.dir = Append(Workspace, "gremlins-source") -> "verifier"
      [] RunsPackages(c) -> "native"
      [] OTHER -> "runtime"

Class(c) == IF c.from = "gate" THEN GateClass(c) ELSE CampaignClass(c)

-----------------------------------------------------------------------------

VARIABLES
    layout,         \* the session's directories: "absent", "native", "partial", "full"
    phase,          \* phase[i]: "new", "refused", "open", "closed"
    nested,         \* nested[i]: started by a repository command of this invocation, or None
    borrowed,       \* borrowed[i]: session caches the executor of i was given
    running,        \* running[i]: [command, cache], or None
    turn,           \* turn[i]: the next command of the campaign under way
    scratch,        \* invocations whose task directory exists
    failed,         \* invocations that reported an error of creating or removing it
    writers,        \* writers[cache]: who wrote into it
    commands        \* commands run so far

vars == <<layout, phase, nested, borrowed, running, turn, scratch, failed, writers, commands>>

Own(i, name) == <<i, name>>

Session(name) == <<"session", name>>

Caches ==
    (Invocations \X {"go-build", "runtime-go-build", "mutation-cache"})
    \cup {Session("cache"), Session("verifier-cache")}

Writers == [by : {"tool", "native", "unknown"}, invocation : Invocations]

Commands == GateCommands \cup {Download, Build, CoverageTest, Unleash}

\* A command runs only in an open invocation with a task directory, and nothing
\* is in the caches of an invocation that has none.
TypeOK ==
    /\ layout \in {"absent", "native", "partial", "full"}
    /\ phase \in [Invocations -> {"new", "refused", "open", "closed"}]
    /\ nested \in [Invocations -> Invocations \cup {None}]
    /\ borrowed \in [Invocations -> SUBSET {"cache", "verifier-cache"}]
    /\ running \in [Invocations -> [command : Commands, cache : Caches] \cup {None}]
    /\ turn \in [Invocations -> 1..Len(CampaignCommands)]
    /\ scratch \subseteq Invocations /\ failed \subseteq Invocations
    /\ writers \in [Caches -> SUBSET Writers]
    /\ commands \in 0..MaxCommands
    /\ \A i \in Invocations :
        /\ running[i] # None => phase[i] = "open" /\ i \in scratch
        /\ i \notin scratch => \A name \in {"go-build", "runtime-go-build"} : writers[Own(i, name)] = {}

Init ==
    /\ layout \in {"absent", "native", "full"}
    /\ phase = [i \in Invocations |-> "new"]
    /\ nested = [i \in Invocations |-> None]
    /\ borrowed = [i \in Invocations |-> {}]
    /\ running = [i \in Invocations |-> None]
    /\ turn = [i \in Invocations |-> 1]
    /\ scratch = {}
    /\ failed = {}
    /\ writers = [c \in Caches |-> {}]
    /\ commands = 0

-----------------------------------------------------------------------------

\* The caller adds the verifier directories to its session, one by one.
Extend ==
    /\ \/ layout = "native" /\ layout' = "partial"
       \/ layout = "partial" /\ layout' = "full"
    /\ UNCHANGED <<phase, nested, borrowed, running, turn, scratch, failed, writers, commands>>

\* taskCacheDirectories: verifier directories are borrowed all or none.
Borrowed ==
    IF layout = "full" THEN {"cache", "verifier-cache"} ELSE {"cache"}

\* newProcessExecutor: a failure removes what it created, as far as it can.
Create(i, caches) ==
    \/ /\ phase' = [phase EXCEPT ![i] = "open"]
       /\ borrowed' = [borrowed EXCEPT ![i] = caches]
       /\ scratch' = scratch \cup {i}
       /\ UNCHANGED failed
    \/ /\ phase' = [phase EXCEPT ![i] = "refused"]
       /\ scratch' \in {scratch, scratch \cup {i}}
       /\ failed' = failed \cup {i}
       /\ UNCHANGED borrowed

\* ExecuteContext: GOLIB_TASK_CACHE_ROOT names the session, or is empty.
Open(i) ==
    /\ phase[i] = "new"
    /\ \/ Create(i, {})
       \/ layout \in {"native", "full"} /\ Create(i, Borrowed)
       \/ /\ layout \in {"absent", "partial"}
          /\ phase' = [phase EXCEPT ![i] = "refused"]
          /\ failed' = failed \cup {i}
          /\ UNCHANGED <<borrowed, scratch>>
    /\ UNCHANGED <<layout, nested, running, turn, writers, commands>>

RunsUnknown(i) == running[i] # None /\ running[i].command.by = "unknown"

\* Mutant of OpenNested: the session variable is inherited.
OpenNestedInherits(i) ==
    /\ phase[i] = "new"
    /\ \E j \in Invocations :
        /\ RunsUnknown(j)
        /\ nested' = [nested EXCEPT ![i] = j]
        /\ Create(i, IF borrowed[j] = {} THEN {} ELSE Borrowed)
    /\ UNCHANGED <<layout, running, turn, writers, commands>>

\* A repository command starts golib itself: every command is run with an
\* empty GOLIB_TASK_CACHE_ROOT.
OpenNested(i) ==
    /\ phase[i] = "new"
    /\ \E j \in Invocations :
        /\ RunsUnknown(j)
        /\ nested' = [nested EXCEPT ![i] = j]
    /\ Create(i, {})
    /\ UNCHANGED <<layout, running, turn, writers, commands>>

\* Mutant of CacheOf: the runtime caches are not told apart.
CacheOfOne(i, c) ==
    CASE Class(c) = "verifier" /\ "verifier-cache" \in borrowed[i] -> Session("verifier-cache")
      [] Class(c) = "native" /\ RunsPackages(c) -> Own(i, "mutation-cache")
      [] Class(c) = "native" /\ "cache" \in borrowed[i] -> Session("cache")
      [] OTHER -> Own(i, "go-build")

\* Mutant of CacheOf: a session without verifier directories serves verifiers too.
CacheOfSession(i, c) ==
    CASE Class(c) = "verifier" /\ "verifier-cache" \in borrowed[i] -> Session("verifier-cache")
      [] Class(c) = "verifier" /\ borrowed[i] = {} -> Own(i, "go-build")
      [] Class(c) # "runtime" /\ RunsPackages(c) -> Own(i, "mutation-cache")
      [] Class(c) # "runtime" /\ "cache" \in borrowed[i] -> Session("cache")
      [] OTHER -> Own(i, "runtime-go-build")

\* commandEnvironment: GOCACHE is sealed after the command's own environment.
CacheOf(i, c) ==
    CASE Class(c) = "verifier" /\ "verifier-cache" \in borrowed[i] -> Session("verifier-cache")
      [] Class(c) = "verifier" -> Own(i, "go-build")
      [] Class(c) = "native" /\ RunsPackages(c) -> Own(i, "mutation-cache")
      [] Class(c) = "native" /\ "cache" \in borrowed[i] -> Session("cache")
      [] OTHER -> Own(i, "runtime-go-build")

Launch(i, c) ==
    /\ phase[i] = "open" /\ running[i] = None /\ commands < MaxCommands
    /\ commands' = commands + 1
    /\ running' = [running EXCEPT ![i] = [command |-> c, cache |-> CacheOf(i, c)]]
    /\ UNCHANGED <<layout, phase, nested, borrowed, scratch, failed, writers>>

RunGate(i) ==
    /\ \E c \in GateCommands : Launch(i, c)
    /\ UNCHANGED turn

\* The verifier runs once for each package; a failed command, or a package
\* list that ends, ends the campaign.  The gates after it may still run.
RunCampaign(i) ==
    /\ Launch(i, CampaignCommands[turn[i]])
    /\ \E n \in {1, turn[i] + 1, Len(CampaignCommands)} :
        /\ n = Len(CampaignCommands) => turn[i] >= n - 1
        /\ n <= Len(CampaignCommands)
        /\ turn' = [turn EXCEPT ![i] = n]

Write(i) ==
    /\ running[i] # None
    /\ writers' = [writers EXCEPT ![running[i].cache] =
                    @ \cup {[by |-> running[i].command.by, invocation |-> i]}]
    /\ UNCHANGED <<layout, phase, nested, borrowed, running, turn, scratch, failed, commands>>

\* A nested invocation may outlive the command that started it.
Finish(i) ==
    /\ running[i] # None
    /\ running' = [running EXCEPT ![i] = None]
    /\ UNCHANGED <<layout, phase, nested, borrowed, turn, scratch, failed, writers, commands>>

Emptied(i) == [c \in Caches |-> IF c[1] = i THEN {} ELSE writers[c]]

\* Mutant of Close: the error of the cleanup is dropped.
CloseQuietly(i) ==
    /\ phase[i] = "open" /\ running[i] = None
    /\ phase' = [phase EXCEPT ![i] = "closed"]
    /\ \/ scratch' = scratch \ {i} /\ writers' = Emptied(i)
       \/ UNCHANGED <<scratch, writers>>
    /\ UNCHANGED <<layout, nested, borrowed, running, turn, failed, commands>>

\* The cleanup removes the task directory, never the session; its error is
\* joined to the error of the run.
Close(i) ==
    /\ phase[i] = "open" /\ running[i] = None
    /\ phase' = [phase EXCEPT ![i] = "closed"]
    /\ \/ scratch' = scratch \ {i} /\ writers' = Emptied(i) /\ UNCHANGED failed
       \/ failed' = failed \cup {i} /\ UNCHANGED <<scratch, writers>>
    /\ UNCHANGED <<layout, nested, borrowed, running, turn, commands>>

Next ==
    \/ Extend
    \/ \E i \in Invocations :
        Open(i) \/ OpenNested(i) \/ RunGate(i) \/ RunCampaign(i) \/ Write(i) \/ Finish(i) \/ Close(i)

Spec == Init /\ [][Next]_vars

-----------------------------------------------------------------------------

\* What a running command may find in its cache: every writer so far.
Meets(i) == writers[running[i].cache]

\* process.go:197-199, runner.go:70-71: a verifier of a gate never meets what
\* repository code or an unclassified command wrote, in its own invocation or
\* in another one that shares the session.
VerifiersIsolated ==
    \A i \in Invocations :
        running[i] # None /\ running[i].command \in GateCommands \cup {Download}
                          /\ running[i].command.by = "tool"
            => \A w \in Meets(i) : w.by = "tool"

\* process.go:199 "Unknown producers cannot borrow a session": only classified
\* go commands and verifiers write into it, each kind into its own directory,
\* and none that an unknown producer started through golib itself.
SessionInv ==
    /\ TypeOK
    /\ \A w \in writers[Session("cache")] : w.by = "native" /\ nested[w.invocation] = None
    /\ \A w \in writers[Session("verifier-cache")] : w.by = "tool" /\ nested[w.invocation] = None

\* process.go:70-73, 197-199: what a pinned program meets from elsewhere is what
\* pinned programs left in the session's verifier directory, of invocations no
\* repository command started, and only if its own invocation found that
\* directory when it opened, whatever the caller adds to the session later.
VerifiersInvocationOwned ==
    \A i \in Invocations :
        running[i] # None /\ running[i].command.by = "tool"
            => \A w \in Meets(i) :
                  \/ w.invocation = i
                  \/ "verifier-cache" \in borrowed[i] /\ w.by = "tool" /\ nested[w.invocation] = None

\* cli.go:799-805: a task directory that stays behind a finished invocation was
\* reported.
LeftScratchReported ==
    \A i \in Invocations : phase[i] \in {"closed", "refused"} /\ i \in scratch => i \in failed

\* process.go:197-199 says of the runtime cache "it must never become an input
\* to a later verifier": neither when the campaign's verifier is built.
CampaignVerifierIsolated ==
    \A i \in Invocations :
        running[i] # None /\ running[i].command = Build => \A w \in Meets(i) : w.by = "tool"
=============================================================================
