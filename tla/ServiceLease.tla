---------------------------- MODULE ServiceLease ----------------------------
(***************************************************************************)
(* Fixtures of one module gate: gates.withModuleServices starts them with  *)
(* internal/services Manager.Start, runs the gate and closes the lease.    *)
(* A service is a fixed program of docker calls.  Start runs the programs  *)
(* of the sorted selection one after the other; the first error closes     *)
(* what was acquired.  Any call may fail, the context may be cancelled at  *)
(* any moment, and callers of Close may be concurrent.                     *)
(***************************************************************************)
EXTENDS Naturals, FiniteSets, SequencesExt

CONSTANTS
    Callers,        \* goroutines that close the lease
    None,           \* no answer yet, no service
    Main,           \* the one that runs withModuleServices
    Attempts,       \* Manager.Attempts: readiness probes of a service
    DataImages,     \* parts and services whose image declares a volume of its own
    MaxFaults       \* bound: docker calls that fail of themselves

ASSUME LeaseAssumption ==
    Main \in Callers /\ IsFiniteSet(Callers) /\ Attempts \in Nat \ {0} /\ MaxFaults \in Nat

-----------------------------------------------------------------------------
\* Resources.  A name is a task token and a part; docker keeps names unique
\* within a kind, and refuses to remove what a container still uses.  With a
\* container docker may make more, which it does not remove with it.

Resource(kind, name, uses, brings) == [kind |-> kind, name |-> name, uses |-> uses, brings |-> brings]

Network(token, part) == Resource("network", <<token, part>>, {}, {})

Volume(token) == Resource("volume", <<token, "data">>, {}, {})

\* A volume of a random name, for the one that an image declares.
Anonymous(token, part) == Resource("anonymous", <<token, part>>, {}, {})

Container(token, part, uses) ==
    Resource("container", <<token, part>>, uses,
             IF part \in DataImages THEN {Anonymous(token, part)} ELSE {})

\* The network of the compose project, for a member that names none.
DefaultNetwork(token) == Network(token, "default")

\* What docker makes along with resources, and both.
Brought(resources) == UNION {r.brings : r \in resources}

Footprint(resources) == resources \cup Brought(resources)

\* Operations of a program: the resources and the service they are about.
Step(op, what, service) == [op |-> op, what |-> what, service |-> service]

Create(r) == Step("create", {r}, None)          \* then tracked
Track(rs) == Step("track", rs, None)            \* tracked before they exist
Compose == Step("compose", {}, None)            \* docker compose up of what is tracked
Check == Step("check", {}, None)                \* inspect, port, files, exec, proxies
Ready == Step("ready", {}, None)
Publish(s) == Step("publish", {}, s)            \* environment and identity
Withdraw(s) == Step("withdraw", {}, s)

\* Manager.start: any plain image of the catalog.
Generic(service) ==
    <<Create(Container("task", service, {})), Check, Ready, Publish(service)>>

Standalone(token) ==
    LET network == Network(token, "") IN
    <<Check,
      Create(network),
      Create(Container(token, "proxy", {network})), Check,
      Create(Container(token, "rabbit", {network})), Check, Ready, Check,
      Publish("rabbitstream-standalone")>>

Members(token) ==
    { Container(token, "member", {Network(token, "network"), Volume(token)}),
      Resource("container", <<token, "certgen">>, {DefaultNetwork(token), Volume(token)}, {DefaultNetwork(token)}) }

\* Mutant of Cluster: members are tracked when compose has succeeded.
ClusterTracksLate(token) ==
    Standalone("single") \o
    <<Withdraw("rabbitstream-standalone"),
      Check,
      Create(Network(token, "network")),
      Create(Volume(token)),
      Create(Container(token, "proxy", {Network(token, "network")})),
      Check, Compose, Track(Members(token)), Check, Publish("rabbitstream")>>

\* Mutant of Cluster: the standalone identity stays beside the joined one.
ClusterKeepsIdentity(token) ==
    Standalone("single") \o
    <<Check,
      Create(Network(token, "network")),
      Create(Volume(token)),
      Create(Container(token, "proxy", {Network(token, "network")})),
      Check, Track(Members(token)), Compose, Check, Publish("rabbitstream")>>

\* startRabbitStream: a standalone fixture of its own, then the cluster.
Cluster(token) ==
    Standalone("single") \o
    <<Withdraw("rabbitstream-standalone"),
      Check,
      Create(Network(token, "network")),
      Create(Volume(token)),
      Create(Container(token, "proxy", {Network(token, "network")})),
      Check, Track(Members(token)), Compose, Check, Publish("rabbitstream")>>

\* The catalog, one entry per start function, in the order of the names.
Catalog == <<"rabbitstream", "rabbitstream-standalone", "valkey">>

Steps(service) ==
    CASE service = "rabbitstream" -> Cluster("task")
      [] service = "rabbitstream-standalone" -> Standalone("task")
      [] OTHER -> Generic(service)

-----------------------------------------------------------------------------

VARIABLES
    selection,      \* the services asked for
    pending,        \* those not yet started
    phase,          \* of withModuleServices
    ip,             \* the next operation of the service being started
    attempt,        \* readiness attempt, from 1
    cancelled,      \* the gate's context
    daemon,         \* the resources docker has
    containers, volumes, networks,      \* the lease's tracked resources, in order
    identities,     \* services with an identity (and environment) in the lease
    once,           \* closeOnce: "fresh", "running", "done"
    queue,          \* removals the running cleanup still has to make
    closeErr,       \* resources whose removal failed
    answer,         \* answer[c]: closeErr as returned to c, or None
    operationErr,   \* did Start or the operation fail?
    faults          \* removals docker failed of itself, and how many calls in all

vars == <<selection, pending, phase, ip, attempt, cancelled, daemon, containers, volumes, networks,
          identities, once, queue, closeErr, answer, operationErr, faults>>

starting == <<selection, pending, phase, ip, attempt>>
lease == <<containers, volumes, networks, identities>>
closing == <<once, queue, closeErr, answer>>

Needed(s) == UNION {Steps(s)[i].what : i \in 1..Len(Steps(s))}

Resources == Footprint(UNION {Needed(s) : s \in ToSet(Catalog)})

\* Start goes through the sorted selection: the first one left is next.
First(names) ==
    LET places == {i \in 1..Len(Catalog) : Catalog[i] \in names}
    IN  Catalog[CHOOSE i \in places : \A j \in places : i <= j]

service == First(pending)

TypeOK ==
    /\ selection \subseteq ToSet(Catalog)
    /\ phase \in {"starting", "failed", "operating", "closing", "returned"}
    /\ pending \subseteq selection
    /\ ip \in Nat \ {0} /\ (pending # {} => ip <= Len(Steps(service)))
    /\ attempt \in 1..Attempts
    /\ cancelled \in BOOLEAN
    /\ daemon \subseteq Resources
    /\ containers \in Seq(Resources) /\ volumes \in Seq(Resources) /\ networks \in Seq(Resources)
    /\ identities \subseteq ToSet(Catalog)
    /\ once \in {"fresh", "running", "done"}
    /\ queue \in Seq(Resources)
    /\ closeErr \subseteq Resources
    /\ answer \in [Callers -> (SUBSET Resources) \cup {None}]
    /\ operationErr \in BOOLEAN
    /\ faults.removals \subseteq Resources /\ faults.calls \in 0..MaxFaults

Init ==
    /\ selection \in (SUBSET ToSet(Catalog)) \ {{}}
    /\ pending = selection
    /\ phase = "starting"
    /\ ip = 1
    /\ attempt = 1
    /\ cancelled = FALSE
    /\ daemon = {}
    /\ containers = <<>> /\ volumes = <<>> /\ networks = <<>>
    /\ identities = {}
    /\ once = "fresh"
    /\ queue = <<>>
    /\ closeErr = {}
    /\ answer = [c \in Callers |-> None]
    /\ operationErr = FALSE
    /\ faults = [removals |-> {}, calls |-> 0]

-----------------------------------------------------------------------------

step == Steps(service)[ip]

At(op) == phase = "starting" /\ pending # {} /\ step.op = op

\* The next operation, or the next service.
Onward ==
    /\ IF ip < Len(Steps(service)) THEN ip' = ip + 1 /\ UNCHANGED pending
       ELSE ip' = 1 /\ pending' = pending \ {service}
    /\ UNCHANGED <<selection, phase, operationErr>>

Advance == Onward /\ UNCHANGED attempt

\* Start fails: the lease is closed before the error is returned.
Abandon ==
    /\ phase' = "failed"
    /\ operationErr' = TRUE
    /\ UNCHANGED <<selection, pending, ip, attempt>>

\* A call made under the gate's context fails: it is cancelled, or docker fails.
CallFails ==
    \/ cancelled /\ UNCHANGED faults
    \/ /\ faults.calls < MaxFaults
       /\ faults' = [faults EXCEPT !.calls = @ + 1]

Succeeds == ~cancelled /\ UNCHANGED faults

Taken(r) == \E q \in daemon : q.kind = r.kind /\ q.name = r.name

Tracked == ToSet(containers) \cup ToSet(volumes) \cup ToSet(networks)

\* What the failed Start was creating: the client may fail, or be killed, when
\* docker has made it all the same.
Attempted ==
    IF pending # {} /\ phase # "starting" /\ step.op = "create" THEN step.what ELSE {}

\* docker network create, docker volume create, docker run --detach.
CreateStep ==
    /\ At("create")
    /\ \E r \in step.what :
        \/ /\ Succeeds /\ ~Taken(r)
           /\ daemon' = daemon \cup Footprint({r})
           /\ containers' = IF r.kind = "container" THEN Append(containers, r) ELSE containers
           /\ volumes' = IF r.kind = "volume" THEN Append(volumes, r) ELSE volumes
           /\ networks' = IF r.kind = "network" THEN Append(networks, r) ELSE networks
           /\ Advance
        \/ /\ CallFails \/ (Taken(r) /\ UNCHANGED faults)
           /\ daemon' = daemon \/ (~Taken(r) /\ daemon' = daemon \cup Footprint({r}))
           /\ Abandon
           /\ UNCHANGED <<containers, volumes, networks>>
    /\ UNCHANGED <<identities, cancelled, closing>>

CheckStep ==
    /\ At("check")
    /\ (Succeeds /\ Advance) \/ (CallFails /\ Abandon)
    /\ UNCHANGED <<cancelled, daemon, lease, closing>>

\* The names compose will use are known, so they are tracked first.
TrackStep ==
    /\ At("track")
    /\ containers' = containers \o SetToSeq(step.what)
    /\ Advance
    /\ UNCHANGED <<cancelled, daemon, volumes, networks, identities, closing, faults>>

\* compose up --wait: on failure any of the members and of what they bring may
\* exist, a member not without what it brings.
ComposeStep ==
    /\ At("compose")
    /\ \/ /\ Succeeds
          /\ daemon' = daemon \cup Footprint(Members("task"))
          /\ Advance
       \/ /\ CallFails
          /\ \E some \in SUBSET Footprint(Members("task")) :
                Brought(some) \subseteq some /\ daemon' = daemon \cup some
          /\ Abandon
    /\ UNCHANGED <<cancelled, lease, closing>>

\* Mutant of ReadyStep: after the last attempt the count starts over.
ReadyForever ==
    /\ At("ready")
    /\ \/ Succeeds /\ Onward /\ attempt' = 1
       \/ /\ ~cancelled
          /\ attempt' = 1 + (attempt % Attempts)
          /\ UNCHANGED <<selection, pending, phase, ip, operationErr, faults>>
       \/ cancelled /\ Abandon /\ UNCHANGED faults
    /\ UNCHANGED <<cancelled, daemon, lease, closing>>

\* waitReady: a probe may find the service unready as often as it likes;
\* the wait before the next one observes the context, the last one gives up.
ReadyStep ==
    /\ At("ready")
    /\ \/ Succeeds /\ Onward /\ attempt' = 1
       \/ /\ ~cancelled /\ attempt < Attempts
          /\ attempt' = attempt + 1
          /\ UNCHANGED <<selection, pending, phase, ip, operationErr, faults>>
       \/ /\ cancelled \/ attempt = Attempts
          /\ Abandon /\ UNCHANGED faults
    /\ UNCHANGED <<cancelled, daemon, lease, closing>>

PublishStep ==
    /\ At("publish")
    /\ identities' = identities \cup {step.service}
    /\ Advance
    /\ UNCHANGED <<cancelled, daemon, containers, volumes, networks, closing, faults>>

WithdrawStep ==
    /\ At("withdraw")
    /\ identities' = identities \ {step.service}
    /\ Advance
    /\ UNCHANGED <<cancelled, daemon, containers, volumes, networks, closing, faults>>

\* Start returns the lease and the gate operation begins.
Started ==
    /\ phase = "starting" /\ pending = {}
    /\ phase' = "operating"
    /\ UNCHANGED <<selection, pending, ip, attempt, cancelled, daemon, lease, closing, operationErr, faults>>

\* The gate operation returns; cancelled or not, the lease is closed next.
Operate ==
    /\ phase = "operating"
    /\ phase' = "closing"
    /\ operationErr' \in IF cancelled THEN {TRUE} ELSE BOOLEAN
    /\ UNCHANGED <<selection, pending, ip, attempt, cancelled, daemon, lease, closing, faults>>

-----------------------------------------------------------------------------
\* Close, under a context of its own that the gate's cancellation never reaches.

\* Only Start knows the lease of a start that failed.
MayClose(c) ==
    \/ phase = "failed" /\ c = Main
    \/ phase = "closing"
    \/ phase = "returned" /\ ~operationErr

\* Mutant of Enter: networks first.
EnterNetworksFirst(c) ==
    /\ MayClose(c) /\ answer[c] = None /\ once = "fresh"
    /\ once' = "running"
    /\ queue' = Reverse(networks) \o Reverse(containers) \o Reverse(volumes)
    /\ UNCHANGED <<starting, cancelled, daemon, lease, closeErr, answer, operationErr, faults>>

Enter(c) ==
    /\ MayClose(c) /\ answer[c] = None /\ once = "fresh"
    /\ once' = "running"
    /\ queue' = Reverse(containers) \o Reverse(volumes) \o Reverse(networks)
    /\ UNCHANGED <<starting, cancelled, daemon, lease, closeErr, answer, operationErr, faults>>

InUse(r) == \E q \in daemon : q.kind = "container" /\ r \in q.uses

\* Mutant of RemoveNext: what could not be removed is tried again in the end.
RemoveUntilGone ==
    /\ once = "running" /\ queue # <<>>
    /\ LET r == Head(queue) IN
       \/ /\ ~InUse(r)
          /\ daemon' = daemon \ {r}
          /\ queue' = Tail(queue)
          /\ UNCHANGED faults
       \/ /\ InUse(r)
          /\ queue' = Append(Tail(queue), r)
          /\ UNCHANGED <<daemon, faults>>
       \/ /\ faults.calls < MaxFaults
          /\ queue' = Append(Tail(queue), r)
          /\ faults' = [faults EXCEPT !.calls = @ + 1]
          /\ UNCHANGED daemon
    /\ UNCHANGED <<starting, cancelled, lease, once, closeErr, answer, operationErr>>

\* docker rm --force, volume rm --force, network rm.  The call may fail of itself
\* (docker is down, the cleanup's time is over, the client is killed) whether or
\* not the resource is there, and when it was removed; one failure does not stop
\* the rest.  Nothing removes what docker brought along: rm has no --volumes.
RemoveNext ==
    /\ once = "running" /\ queue # <<>>
    /\ LET r == Head(queue) IN
       \/ /\ ~InUse(r)
          /\ daemon' = daemon \ {r}
          /\ UNCHANGED <<closeErr, faults>>
       \/ /\ InUse(r)
          /\ closeErr' = closeErr \cup {r}
          /\ UNCHANGED <<daemon, faults>>
       \/ /\ faults.calls < MaxFaults
          /\ closeErr' = closeErr \cup {r}
          /\ faults' = [removals |-> faults.removals \cup {r}, calls |-> faults.calls + 1]
          /\ daemon' = daemon \/ (~InUse(r) /\ daemon' = daemon \ {r})
    /\ queue' = Tail(queue)
    /\ UNCHANGED <<starting, cancelled, lease, once, answer, operationErr>>

Closed ==
    /\ once = "running" /\ queue = <<>>
    /\ once' = "done"
    /\ UNCHANGED <<starting, cancelled, daemon, lease, queue, closeErr, answer, operationErr, faults>>

\* Mutant of Answer: a second caller does not wait for the cleanup under way.
AnswerEarly(c) ==
    /\ MayClose(c) /\ answer[c] = None /\ once # "fresh"
    /\ answer' = [answer EXCEPT ![c] = closeErr]
    /\ UNCHANGED <<starting, cancelled, daemon, lease, once, queue, closeErr, operationErr, faults>>

\* Every caller of Close gets the cached result, when it is there.
Answer(c) ==
    /\ MayClose(c) /\ answer[c] = None /\ once = "done"
    /\ answer' = [answer EXCEPT ![c] = closeErr]
    /\ UNCHANGED <<starting, cancelled, daemon, lease, once, queue, closeErr, operationErr, faults>>

\* withModuleServices returns the joined error.
Return ==
    /\ phase \in {"failed", "closing"} /\ answer[Main] # None
    /\ phase' = "returned"
    /\ UNCHANGED <<selection, pending, ip, attempt, cancelled, daemon, lease, closing, operationErr, faults>>

Cancel ==
    /\ ~cancelled /\ phase # "returned"
    /\ cancelled' = TRUE
    /\ UNCHANGED <<starting, daemon, lease, closing, operationErr, faults>>

Go ==
    \/ CreateStep
    \/ CheckStep
    \/ TrackStep
    \/ ComposeStep
    \/ ReadyStep
    \/ PublishStep
    \/ WithdrawStep
    \/ Started
    \/ Operate
    \/ Enter(Main)
    \/ RemoveNext
    \/ Closed
    \/ Answer(Main)
    \/ Return

Others == \E c \in Callers \ {Main} : Enter(c) \/ Answer(c)

Next == Go \/ Others \/ Cancel

Spec == Init /\ [][Next]_vars

\* Docker calls return, and so does the gate operation: both are bounded by a
\* context or by docker itself.
FairSpec == Spec /\ WF_vars(Go)

-----------------------------------------------------------------------------

\* Whatever exists is known to the lease, however far Start came, but for the
\* one call that failed and for what docker makes along with a container: no
\* member of the topology exists that Close would not find (services.go:273-276,
\* rabbitstream_full.go:82-95), and withModuleServices never returns with the
\* lease open (gates/services.go:83-87, services.go:221-226).
LeaseInv ==
    /\ TypeOK
    /\ daemon \subseteq Footprint(Tracked \cup Attempted)
    /\ phase = "returned" => once = "done"

\* After the cleanup every tracked resource that is left was reported, whatever
\* failed before and during it; what else is left docker made along with one, or
\* in the call that ended Start (services.go:368-389).
LeftoversReported ==
    once = "done" =>
        /\ daemon \cap Tracked \subseteq closeErr
        /\ daemon \subseteq closeErr \cup Brought(Tracked) \cup Footprint(Attempted)

\* A removal is reported only if docker failed it, or if a container uses the
\* resource that could not be removed or that a failed create left: the order of
\* the cleanup never defeats it.
OnlyRealFailures ==
    closeErr \subseteq faults.removals \cup UNION {q.uses : q \in faults.removals \cup Attempted}

\* A gate operation runs only on a complete lease: every selected service is
\* ready under its own identity and no other, all its resources exist, and
\* docker has no others but those it made along with them.
OperatingIsComplete ==
    phase = "operating" =>
        /\ identities = selection
        /\ daemon = Footprint(Tracked)
        /\ \A s \in selection : \A i \in 1..Len(Steps(s)) :
            Steps(s)[i].op \in {"create", "track"} => Steps(s)[i].what \subseteq daemon

\* Concurrent callers of Close all wait for the one cleanup and get its result.
OneAnswer ==
    \A c \in Callers : answer[c] # None => once = "done" /\ answer[c] = closeErr

\* The lease as a gate sees it.
Stage ==
    CASE phase = "starting" -> "acquiring"
      [] phase = "operating" -> "granted"
      [] phase = "returned" -> "returned"
      [] OTHER -> IF once = "done" THEN "closed" ELSE "closing"

Reported == IF once = "done" THEN closeErr ELSE {}

Abstract == INSTANCE FixtureLease WITH
    Services <- ToSet(Catalog), Needs <- [s \in ToSet(Catalog) |-> Needed(s)],
    asked <- selection, stage <- Stage, held <- daemon \cap Tracked,
    report <- Reported, told <- answer

\* Docker calls and removals keep the promise of a lease: the gate has all it
\* asked for until it returns, and every caller of Close, at any moment and
\* beside any other, gets the one cleanup's report, after it, with all that it
\* left of the lease's own (services.go:213-226, 359-389, gates/services.go:59-88).
ImplementsFixture == Abstract!Spec

\* What is still to be done, from the most to the least significant.
PhasesLeft ==
    CASE phase = "starting" -> 3 [] phase = "operating" -> 2 [] phase = "returned" -> 0 [] OTHER -> 1

OperationsLeft == IF pending = {} THEN 0 ELSE Len(Steps(service)) - ip

CleanupLeft == CASE once = "fresh" -> 2 [] once = "running" -> 1 [] OTHER -> 0

Unanswered == {c \in Callers : answer[c] = None}

Remaining ==
    <<PhasesLeft, Cardinality(pending), OperationsLeft, Attempts - attempt,
      CleanupLeft, Len(queue), Cardinality(Unanswered), IF cancelled THEN 0 ELSE 1>>

LessWork(now, before) ==
    \E i \in DOMAIN before : now[i] < before[i] /\ \A j \in 1..i - 1 : now[j] = before[j]

\* Nothing is tried forever, whatever docker answers and whoever closes: every
\* step leaves less to do, of something that cannot be less than nothing
\* (services.go:213-228, 337-359, 368-389).
WorkShrinks == [](Remaining \in Seq(Nat)) /\ [][LessWork(Remaining', Remaining)]_vars

\* Whatever fails, hangs unready or is cancelled, the lease is closed in the end.
EventuallyReturned == <>(phase = "returned")

\* docs/services.md:8 "Every lease uses unique task-owned containers,
\* networks, volumes": Start never asks docker for a name its lease has.
NamesUnique == At("create") => \A r \in step.what : ~Taken(r)

\* docs/services.md:10-11 "cleanup removes only exact owned resources on success
\* or failure": a cleanup that reports no error has left nothing.
NothingLeft == once = "done" /\ closeErr = {} => daemon = {}
=============================================================================
