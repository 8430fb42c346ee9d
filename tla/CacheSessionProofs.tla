------------------------- MODULE CacheSessionProofs -------------------------
(***************************************************************************)
(* For any number of golib invocations and commands, sharing a session or  *)
(* nested in one another: whose output a command can meet in its cache.    *)
(***************************************************************************)
EXTENDS CacheSession, TLAPS

Names == {"go-build", "runtime-go-build", "mutation-cache"}

\* The cache of a running command is the one its class selects, since what was
\* borrowed is decided when the invocation opens; before that there is nothing,
\* and an invocation that a repository command started never borrows.  An open
\* invocation has its task directory.
InvocationOK(i) ==
    /\ running[i] # None => running[i].cache = CacheOf(i, running[i].command)
    /\ phase[i] = "new" => borrowed[i] = {} /\ nested[i] = None
    /\ nested[i] # None => borrowed[i] = {}
    /\ phase[i] = "open" => i \in scratch

\* A cache of an invocation holds its own output only, that of its verifiers
\* apart; who wrote into the session has been opened and was not nested.
OwnOutput ==
    /\ \A i \in Invocations, n \in Names : \A w \in writers[Own(i, n)] : w.invocation = i
    /\ \A i \in Invocations : \A w \in writers[Own(i, "go-build")] : w.by = "tool"
    /\ \A n \in {"cache", "verifier-cache"} : \A w \in writers[Session(n)] : phase[w.invocation] # "new"

Inv ==
    /\ SessionInv
    /\ \A i \in Invocations : InvocationOK(i)
    /\ OwnOutput
    /\ LeftScratchReported

-----------------------------------------------------------------------------

\* The classification: only pinned programs are verifiers and only go commands
\* on the repository are native; the verifiers of gates and the download of the
\* mutation tool are recognised.
LEMMA ClassOfCommands ==
  /\ \A c \in Commands : c.by \in {"tool", "native", "unknown"}
  /\ \A c \in Commands : Class(c) = "verifier" => c.by = "tool"
  /\ \A c \in Commands : Class(c) = "native" => c.by = "native"
  /\ \A c \in GateCommands \cup {Download} : c.by = "tool" => Class(c) = "verifier"
  <1>1. \A c \in GateCommands :
          /\ c.from = "gate" /\ c.by \in {"tool", "native", "unknown"}
          /\ GateClass(c) = "verifier" <=> c.by = "tool"
          /\ GateClass(c) = "native" <=> c.by = "native"
    BY DEF GateCommands, Command, GateClass
  <1>2. /\ Download.from = "campaign" /\ Download.by = "tool"
        /\ Download.name = <<"go">> /\ Download.verb = "mod download"
    BY DEF Download, Command
  <1>3. /\ Build.from = "campaign" /\ Build.by = "tool"
        /\ Build.name = <<"go">> /\ Build.verb = "build"
    BY DEF Build, Command
  <1>4. /\ CoverageTest.from = "campaign" /\ CoverageTest.by = "native"
        /\ CoverageTest.name = <<"go">> /\ CoverageTest.verb = "test"
    BY DEF CoverageTest, Command
  <1>5. Unleash.from = "campaign" /\ Unleash.by = "native" /\ Unleash.verb = "unleash"
    BY DEF Unleash, Command
  <1>6. CampaignClass(Download) = "verifier"
    BY <1>2 DEF CampaignClass, RunsPackages
  <1>7. CampaignClass(Build) # "native"
    BY <1>3 DEF CampaignClass, RunsPackages
  <1>8. CampaignClass(CoverageTest) = "native"
    BY <1>4 DEF CampaignClass
  <1>9. CampaignClass(Unleash) # "verifier"
    BY <1>5 DEF CampaignClass
  <1> QED BY <1>1, <1>2, <1>3, <1>4, <1>5, <1>6, <1>7, <1>8, <1>9 DEF Class, Commands

\* Where a command of a class reads and writes.
LEMMA CacheOfClass ==
  ASSUME NEW i \in Invocations, NEW c
  PROVE  /\ CacheOf(i, c) \in Caches
         /\ CacheOf(i, c) = Session("cache") => Class(c) = "native" /\ borrowed[i] # {}
         /\ CacheOf(i, c) = Session("verifier-cache") => Class(c) = "verifier" /\ borrowed[i] # {}
         /\ Class(c) = "verifier" =>
               CacheOf(i, c) \in {Session("verifier-cache"), Own(i, "go-build")}
         /\ \A j \in Invocations : CacheOf(i, c) = Own(j, "go-build") => Class(c) = "verifier"
         /\ \A j \in Invocations, n \in Names : CacheOf(i, c) = Own(j, n) => j = i
  BY DEF CacheOf, Caches, Own, Session, Names

\* The commands of a campaign are commands.
LEMMA CampaignCommand ==
  ASSUME NEW n \in 1..Len(CampaignCommands)
  PROVE  CampaignCommands[n] \in Commands
  <1>1. Len(CampaignCommands) = 4
    BY DEF CampaignCommands
  <1>2. n = 1 \/ n = 2 \/ n = 3 \/ n = 4
    BY <1>1
  <1> QED BY <1>2 DEF CampaignCommands, Commands

\* Nothing has been opened or written.
LEMMA InitInv == Init => Inv
  <1> SUFFICES ASSUME Init PROVE Inv
    OBVIOUS
  <1>1. TypeOK
    <2>1. Len(CampaignCommands) = 4 BY DEF CampaignCommands
    <2>2. 1 \in 1..Len(CampaignCommands) /\ 0 \in 0..MaxCommands BY <2>1, SessionAssumption
    <2>3. \A i \in Invocations, n \in Names : Own(i, n) \in Caches BY DEF Own, Caches, Names
    <2> QED BY <2>2, <2>3 DEF Init, TypeOK, Names
  <1>2. \A n \in {"cache", "verifier-cache"} : Session(n) \in Caches
    BY DEF Caches
  <1>3. \A i \in Invocations, n \in Names : Own(i, n) \in Caches
    BY DEF Own, Caches, Names
  <1>4. SessionInv /\ OwnOutput
    BY <1>1, <1>2, <1>3 DEF Init, SessionInv, OwnOutput, Names
  <1>5. (\A i \in Invocations : InvocationOK(i)) /\ LeftScratchReported
    BY DEF Init, InvocationOK, LeftScratchReported
  <1> QED BY <1>4, <1>5 DEF Inv

\* Opening an invocation changes no cache, and nothing was written for it yet.
LEMMA OpenStep ==
  ASSUME Inv, NEW i \in Invocations, Open(i) \/ OpenNested(i)
  PROVE  Inv'
  <1>1. PICK j \in Invocations \cup {None} :
          /\ phase[i] = "new" /\ nested' = [nested EXCEPT ![i] = j]
          /\ phase' = [phase EXCEPT ![i] = phase'[i]] /\ phase'[i] \in {"open", "refused"}
          /\ borrowed' = [borrowed EXCEPT ![i] = borrowed'[i]]
          /\ borrowed'[i] \in SUBSET {"cache", "verifier-cache"}
          /\ j # None => borrowed'[i] = {}
          /\ scratch' \in {scratch, scratch \cup {i}} /\ failed' \in {failed, failed \cup {i}}
          /\ phase'[i] = "refused" => i \in failed'
          /\ phase'[i] = "open" => i \in scratch'
          /\ UNCHANGED <<layout, running, turn, writers, commands>>
    <2>1. TypeOK /\ InvocationOK(i) BY DEF Inv, SessionInv
    <2>2. CASE Open(i)
      <3>1. nested' = [nested EXCEPT ![i] = None]
        BY <2>1, <2>2 DEF Open, TypeOK, InvocationOK
      <3> QED BY <2>1, <2>2, <3>1 DEF Open, Create, Borrowed, TypeOK, InvocationOK
    <2>3. CASE OpenNested(i)
      BY <2>1, <2>3 DEF OpenNested, Create, TypeOK, InvocationOK
    <2> QED BY <2>2, <2>3
  <1>2. TypeOK'
    <2>1. TypeOK /\ i \notin {k \in Invocations : running[k] # None}
      BY <1>1 DEF Inv, SessionInv, TypeOK
    <2>2. /\ phase' \in [Invocations -> {"new", "refused", "open", "closed"}]
          /\ nested' \in [Invocations -> Invocations \cup {None}]
          /\ borrowed' \in [Invocations -> SUBSET {"cache", "verifier-cache"}]
          /\ scratch' \subseteq Invocations /\ failed' \subseteq Invocations
      <3>1. phase' \in [Invocations -> {"new", "refused", "open", "closed"}] BY <1>1, <2>1 DEF TypeOK
      <3>2. nested' \in [Invocations -> Invocations \cup {None}] BY <1>1, <2>1 DEF TypeOK
      <3>3. borrowed' \in [Invocations -> SUBSET {"cache", "verifier-cache"}] BY <1>1, <2>1 DEF TypeOK
      <3>4. scratch' \subseteq Invocations /\ failed' \subseteq Invocations BY <1>1, <2>1 DEF TypeOK
      <3> QED BY <3>1, <3>2, <3>3, <3>4
    <2>3. \A k \in Invocations :
            /\ running'[k] # None => phase'[k] = "open" /\ k \in scratch'
            /\ k \notin scratch' =>
                  \A name \in {"go-build", "runtime-go-build"} : writers'[Own(k, name)] = {}
      BY <1>1, <2>1 DEF TypeOK
    <2> QED BY <1>1, <2>1, <2>2, <2>3 DEF TypeOK
  <1>3. SessionInv' /\ OwnOutput'
    <2>1. \A n \in {"cache", "verifier-cache"} : \A w \in writers[Session(n)] :
            /\ w.invocation # i /\ w.invocation \in Invocations
            /\ phase'[w.invocation] = phase[w.invocation]
            /\ nested'[w.invocation] = nested[w.invocation]
      BY <1>1 DEF Inv, SessionInv, TypeOK, OwnOutput, Caches, Writers
    <2> QED BY <1>1, <1>2, <2>1 DEF Inv, SessionInv, OwnOutput
  <1>4. ASSUME NEW k \in Invocations PROVE InvocationOK(k)'
    <2>1. running[i] = None BY <1>1 DEF Inv, SessionInv, TypeOK
    <2> QED BY <1>1, <2>1 DEF Inv, SessionInv, TypeOK, InvocationOK, CacheOf
  <1>5. LeftScratchReported'
    BY <1>1 DEF Inv, SessionInv, TypeOK, LeftScratchReported
  <1> QED BY <1>3, <1>4, <1>5 DEF Inv

\* A command that starts writes nothing yet, and its cache is the one its class
\* selects.
LEMMA LaunchStep ==
  ASSUME Inv, NEW i \in Invocations, RunGate(i) \/ RunCampaign(i)
  PROVE  Inv'
  <1>1. Len(CampaignCommands) = 4
    BY DEF CampaignCommands
  <1>2. PICK c \in Commands : Launch(i, c)
    BY CampaignCommand DEF Inv, SessionInv, TypeOK, RunGate, RunCampaign, Commands
  <1>3. turn' \in [Invocations -> 1..Len(CampaignCommands)]
    BY <1>1 DEF Inv, SessionInv, TypeOK, RunGate, RunCampaign
  <1>4. CacheOf(i, c) \in Caches
    BY CacheOfClass
  <1>5. /\ running' = [running EXCEPT ![i] = [command |-> c, cache |-> CacheOf(i, c)]]
        /\ running' \in [Invocations -> [command : Commands, cache : Caches] \cup {None}]
        /\ phase[i] = "open"
        /\ UNCHANGED <<layout, phase, nested, borrowed, scratch, failed, writers>>
    BY <1>2, <1>4 DEF Launch, Inv, SessionInv, TypeOK
  <1>6. i \in scratch
    BY <1>5 DEF Inv, InvocationOK
  <1>7. commands' \in 0..MaxCommands
    BY <1>2, SessionAssumption DEF Launch, Inv, SessionInv, TypeOK
  <1>8. TypeOK'
    BY <1>3, <1>5, <1>6, <1>7 DEF Inv, SessionInv, TypeOK
  <1>9. SessionInv' /\ OwnOutput' /\ LeftScratchReported'
    BY <1>5, <1>8 DEF Inv, SessionInv, OwnOutput, LeftScratchReported
  <1>10. ASSUME NEW k \in Invocations PROVE InvocationOK(k)'
    BY <1>5 DEF Inv, SessionInv, TypeOK, InvocationOK, CacheOf
  <1> QED BY <1>9, <1>10 DEF Inv

\* A write goes to the cache of a running command: the class says who that is.
LEMMA WriteStep ==
  ASSUME Inv, NEW i \in Invocations, Write(i)
  PROVE  Inv'
  <1> DEFINE c == running[i].command
             cache == running[i].cache
             me == [by |-> c.by, invocation |-> i]
  <1>1. /\ TypeOK /\ phase[i] = "open" /\ i \in scratch /\ InvocationOK(i)
        /\ c \in Commands /\ cache \in Caches /\ cache = CacheOf(i, c)
    BY DEF Inv, SessionInv, TypeOK, InvocationOK, Write
  <1>2. /\ writers' = [writers EXCEPT ![cache] = @ \cup {me}]
        /\ UNCHANGED <<layout, phase, nested, borrowed, running, turn, scratch, failed, commands>>
    BY DEF Write
  <1>3. c.by \in {"tool", "native", "unknown"}
    BY <1>1, ClassOfCommands
  <1>4. /\ me \in Writers /\ me.by = c.by /\ me.invocation = i
    BY <1>3 DEF Writers
  <1>5. writers' \in [Caches -> SUBSET Writers]
    BY <1>1, <1>2, <1>4 DEF TypeOK
  <1>6. \A k \in Caches : \A w \in writers'[k] : w \in writers[k] \/ (k = cache /\ w = me)
    BY <1>1, <1>2, <1>5 DEF TypeOK
  <1>7. /\ \A n \in {"cache", "verifier-cache"} : Session(n) \in Caches
        /\ \A k \in Invocations, n \in Names : Own(k, n) \in Caches
    BY DEF Own, Session, Caches, Names
  <1>8. TypeOK'
    <2>1. ASSUME NEW k \in Invocations, k \notin scratch, NEW n \in {"go-build", "runtime-go-build"}
          PROVE  writers'[Own(k, n)] = {}
      <3>1. cache # Own(k, n)
        BY <1>1, <2>1, CacheOfClass DEF Names
      <3>2. writers'[Own(k, n)] = writers[Own(k, n)]
        BY <1>2, <1>1, <1>7, <3>1 DEF TypeOK, Names
      <3> QED BY <3>2, <2>1, <1>1 DEF TypeOK
    <2> QED BY <1>1, <1>2, <1>5, <2>1 DEF TypeOK
  <1>9. /\ cache = Session("cache") => me.by = "native" /\ nested[i] = None
        /\ cache = Session("verifier-cache") => me.by = "tool" /\ nested[i] = None
    BY <1>1, <1>4, CacheOfClass, ClassOfCommands DEF InvocationOK
  <1>10. SessionInv'
    BY <1>2, <1>4, <1>6, <1>7, <1>8, <1>9 DEF Inv, SessionInv
  <1>11. OwnOutput'
    <2>1. ASSUME NEW k \in Invocations, NEW n \in Names, NEW w \in writers'[Own(k, n)]
          PROVE  w.invocation = k /\ (n = "go-build" => w.by = "tool")
      <3>1. CASE w \in writers[Own(k, n)]
        BY <3>1 DEF Inv, OwnOutput
      <3>2. CASE Own(k, n) = cache /\ w = me
        BY <1>1, <1>4, <3>2, CacheOfClass, ClassOfCommands
      <3> QED BY <1>6, <1>7, <3>1, <3>2
    <2>2. ASSUME NEW n \in {"cache", "verifier-cache"}, NEW w \in writers'[Session(n)]
          PROVE  phase'[w.invocation] # "new"
      BY <1>1, <1>2, <1>4, <1>6, <1>7 DEF Inv, OwnOutput
    <2> QED BY <2>1, <2>2 DEF OwnOutput, Names
  <1>12. LeftScratchReported' /\ \A k \in Invocations : InvocationOK(k)'
    BY <1>2 DEF Inv, LeftScratchReported, InvocationOK, CacheOf
  <1> QED BY <1>10, <1>11, <1>12 DEF Inv

\* A command that ends leaves the caches as they are.
LEMMA FinishStep ==
  ASSUME Inv, NEW i \in Invocations, Finish(i)
  PROVE  Inv'
  <1>1. /\ running' = [running EXCEPT ![i] = None]
        /\ UNCHANGED <<layout, phase, nested, borrowed, turn, scratch, failed, writers, commands>>
    BY DEF Finish
  <1>2. TypeOK'
    BY <1>1 DEF Inv, SessionInv, TypeOK
  <1>3. SessionInv' /\ OwnOutput' /\ LeftScratchReported'
    BY <1>1, <1>2 DEF Inv, SessionInv, OwnOutput, LeftScratchReported
  <1>4. ASSUME NEW k \in Invocations PROVE InvocationOK(k)'
    BY <1>1 DEF Inv, SessionInv, TypeOK, InvocationOK, CacheOf
  <1> QED BY <1>3, <1>4 DEF Inv

\* The cleanup takes writers away and adds none; its failure is reported.
LEMMA CloseStep ==
  ASSUME Inv, NEW i \in Invocations, Close(i)
  PROVE  Inv'
  <1>1. /\ TypeOK /\ phase[i] = "open" /\ running[i] = None
        /\ phase' = [phase EXCEPT ![i] = "closed"]
        /\ UNCHANGED <<layout, nested, borrowed, running, turn, commands>>
        /\ \/ scratch' = scratch \ {i} /\ writers' = Emptied(i) /\ failed' = failed
           \/ failed' = failed \cup {i} /\ scratch' = scratch /\ writers' = writers
    BY DEF Inv, SessionInv, Close
  <1>2. /\ writers' \in [Caches -> SUBSET Writers]
        /\ \A k \in Caches : writers'[k] \subseteq writers[k]
    BY <1>1 DEF TypeOK, Emptied
  <1>3. /\ \A n \in {"cache", "verifier-cache"} : Session(n) \in Caches
        /\ \A k \in Invocations, n \in Names : Own(k, n) \in Caches
    BY DEF Own, Session, Caches, Names
  <1>4. TypeOK'
    <2>1. ASSUME NEW k \in Invocations, k \notin scratch', NEW n \in {"go-build", "runtime-go-build"}
          PROVE  writers'[Own(k, n)] = {}
      <3>1. CASE k \notin scratch
        BY <1>1, <1>2, <1>3, <2>1, <3>1 DEF TypeOK, Names
      <3>2. CASE k \in scratch
        BY <1>1, <1>3, <2>1, <3>2 DEF Emptied, Own, Names
      <3> QED BY <3>1, <3>2
    <2> QED BY <1>1, <1>2, <2>1 DEF TypeOK
  <1>5. SessionInv'
    BY <1>1, <1>2, <1>3, <1>4 DEF Inv, SessionInv
  <1>6. OwnOutput'
    <2>1. \A n \in {"cache", "verifier-cache"} : \A w \in writers'[Session(n)] : phase'[w.invocation] # "new"
      BY <1>1, <1>2, <1>3 DEF Inv, OwnOutput, TypeOK, Writers
    <2> QED BY <1>2, <1>3, <2>1 DEF Inv, OwnOutput, Names
  <1>7. LeftScratchReported' /\ \A k \in Invocations : InvocationOK(k)'
    BY <1>1 DEF Inv, TypeOK, LeftScratchReported, InvocationOK, CacheOf
  <1> QED BY <1>5, <1>6, <1>7 DEF Inv

\* Every step keeps the inductive invariant.
LEMMA NextInv == Inv /\ [Next]_vars => Inv'
  <1> SUFFICES ASSUME Inv, [Next]_vars PROVE Inv'
    OBVIOUS
  <1>1. ASSUME Extend \/ UNCHANGED vars PROVE Inv'
    <2>1. /\ layout' \in {"absent", "native", "partial", "full"}
          /\ UNCHANGED <<phase, nested, borrowed, running, turn, scratch, failed, writers, commands>>
      BY <1>1 DEF Extend, vars, Inv, SessionInv, TypeOK
    <2>2. SessionInv'
      BY <2>1 DEF Inv, SessionInv, TypeOK
    <2>3. OwnOutput' /\ LeftScratchReported' /\ \A i \in Invocations : InvocationOK(i)'
      BY <2>1 DEF Inv, OwnOutput, LeftScratchReported, InvocationOK, CacheOf
    <2> QED BY <2>2, <2>3 DEF Inv
  <1> QED BY <1>1, OpenStep, LaunchStep, WriteStep, FinishStep, CloseStep DEF Next

\* The inductive invariant holds whoever runs golib, and however often.
THEOREM InvariantHolds == Spec => []Inv
  BY InitInv, NextInv, PTL DEF Spec

\* Into a session's caches only classified commands write, each kind into its
\* own, and none that an unknown producer started (process.go:199).
THEOREM SessionsAreClean == Spec => []SessionInv
  <1>1. Inv => SessionInv BY DEF Inv
  <1> QED BY InvariantHolds, <1>1, PTL

\* The pinned programs of the gates, and the download of the mutation tool, meet
\* only what pinned programs wrote, of whichever invocation (runner.go:70-71).
THEOREM GateVerifiersAreIsolated == Spec => []VerifiersIsolated
  <1>1. Inv => VerifiersIsolated
    <2> SUFFICES ASSUME Inv, NEW i \in Invocations, running[i] # None,
                        running[i].command \in GateCommands \cup {Download},
                        running[i].command.by = "tool"
                 PROVE  \A w \in Meets(i) : w.by = "tool"
      BY DEF VerifiersIsolated
    <2>1. running[i].cache \in {Session("verifier-cache"), Own(i, "go-build")}
      BY CacheOfClass, ClassOfCommands DEF Inv, InvocationOK
    <2> QED BY <2>1 DEF Inv, SessionInv, OwnOutput, Meets
  <1> QED BY InvariantHolds, <1>1, PTL

\* A pinned program meets output of its own invocation, or what pinned programs
\* of unnested invocations left in the verifier directory that its invocation
\* found when it opened (process.go:70-73, 197-199).
THEOREM VerifiersStayAtHome == Spec => []VerifiersInvocationOwned
  <1>1. Inv => VerifiersInvocationOwned
    <2> SUFFICES ASSUME Inv, NEW i \in Invocations, running[i] # None,
                        running[i].command.by = "tool", NEW w \in Meets(i), w.invocation # i
                 PROVE  "verifier-cache" \in borrowed[i] /\ w.by = "tool" /\ nested[w.invocation] = None
      BY DEF VerifiersInvocationOwned
    <2>1. running[i].command \in Commands /\ running[i].cache = CacheOf(i, running[i].command)
      BY DEF Inv, SessionInv, TypeOK, InvocationOK
    <2>2. \A n \in Names : running[i].cache # Own(i, n)
      BY DEF Inv, OwnOutput, Meets
    <2>3. Class(running[i].command) # "native"
      BY <2>1, ClassOfCommands
    <2>4. "verifier-cache" \in borrowed[i] /\ running[i].cache = Session("verifier-cache")
      BY <2>1, <2>2, <2>3 DEF CacheOf, Names
    <2> QED BY <2>4 DEF Inv, SessionInv, Meets
  <1> QED BY InvariantHolds, <1>1, PTL

\* A task directory that outlives its invocation was reported (cli.go:799-805).
THEOREM ScratchIsAccountedFor == Spec => []LeftScratchReported
  <1>1. Inv => LeftScratchReported BY DEF Inv
  <1> QED BY InvariantHolds, <1>1, PTL
=============================================================================
