--------------------------- MODULE BoundedProcess ---------------------------
(***************************************************************************)
(* processExecutor.runBounded (internal/gates): a scanner runs in its own  *)
(* process group with bounded output.  The caller waits for it while a     *)
(* monitor goroutine kills the group when the context ends or an output    *)
(* overflows; os/exec copies the pipes in goroutines of its own, and the   *)
(* overflow callback runs in them.                                         *)
(***************************************************************************)
EXTENDS Naturals, FiniteSets

CONSTANTS
    Streams,    \* stdout and stderr
    Leader,     \* the process started
    Children,   \* processes it may start, in its group
    Limit       \* boundedProcessOutput.limit, in chunks

ASSUME BoundedProcessAssumption ==
    Leader \notin Children /\ Limit \in Nat /\ IsFiniteSet(Streams)

Processes == {Leader} \cup Children

VARIABLES
    pc,         \* the caller, in runBounded and then in its own check
    monitor,    \* "none", "select", "kill", "done"
    cancelled,  \* ctx
    stop,       \* is the channel closed?
    stopCalls,  \* how often close(stop) ran
    done,       \* is the channel closed?
    alive,      \* the group's live processes
    holding,    \* processes that hold the write ends of the pipes
    status,     \* the leader's: "none", "ok", "failed", "killed"
    pipe,       \* pipe[s]: has stream s unread output?
    copier,     \* copier[s]: "none", "read", "callback", "eof"
    written,    \* written[s]: chunks counted
    overflow,   \* overflow[s]
    err,        \* did runBounded return an error?
    verdict     \* of the caller: "none", "passed", "failed"

vars == <<pc, monitor, cancelled, stop, stopCalls, done, alive, holding, status, pipe,
          copier, written, overflow, err, verdict>>

channels == <<stop, stopCalls, done>>
group == <<alive, holding, status>>
output == <<pipe, copier, written, overflow>>

\* Types; and close(stop) runs at most once, or the program panics, though both
\* streams may overflow at the same time (process.go:269-276, runner.go:127-139).
TypeOK ==
    /\ pc \in {"check", "start", "wait", "close", "join", "result", "judge", "returned"}
    /\ monitor \in {"none", "select", "kill", "done"}
    /\ cancelled \in BOOLEAN /\ stop \in BOOLEAN /\ done \in BOOLEAN /\ err \in BOOLEAN
    /\ stopCalls \in 0..1
    /\ alive \subseteq Processes /\ holding \subseteq alive
    /\ status \in {"none", "ok", "failed", "killed"}
    /\ pipe \in [Streams -> BOOLEAN]
    /\ copier \in [Streams -> {"none", "read", "callback", "eof"}]
    /\ written \in [Streams -> 0..Limit]
    /\ overflow \in [Streams -> BOOLEAN]
    /\ verdict \in {"none", "passed", "failed"}

Init ==
    /\ pc = "check"
    /\ monitor = "none"
    /\ cancelled \in BOOLEAN
    /\ stop = FALSE /\ stopCalls = 0 /\ done = FALSE
    /\ alive = {} /\ holding = {} /\ status = "none"
    /\ pipe = [s \in Streams |-> FALSE]
    /\ copier = [s \in Streams |-> "none"]
    /\ written = [s \in Streams |-> 0]
    /\ overflow = [s \in Streams |-> FALSE]
    /\ err = FALSE
    /\ verdict = "none"

-----------------------------------------------------------------------------
\* The caller.

CheckContext ==
    /\ pc = "check"
    /\ IF cancelled
       THEN pc' = "judge" /\ err' = TRUE
       ELSE pc' = "start" /\ UNCHANGED err
    /\ UNCHANGED <<monitor, cancelled, channels, group, output, verdict>>

\* Prepare and Start fail, or the process, the copiers and the monitor run.
Start ==
    /\ pc = "start"
    /\ \/ /\ pc' = "judge" /\ err' = TRUE
          /\ UNCHANGED <<monitor, group, copier>>
       \/ /\ pc' = "wait"
          /\ alive' = {Leader} /\ holding' = {Leader}
          /\ copier' = [s \in Streams |-> "read"]
          /\ monitor' = "select"
          /\ UNCHANGED <<status, err>>
    /\ UNCHANGED <<cancelled, channels, pipe, written, overflow, verdict>>

\* process.Wait: the leader has exited and both pipes are at their end.
Wait ==
    /\ pc = "wait" /\ Leader \notin alive
    /\ \A s \in Streams : copier[s] = "eof"
    /\ err' = (status # "ok")
    /\ pc' = "close"
    /\ UNCHANGED <<monitor, cancelled, channels, group, output, verdict>>

CloseDone ==
    /\ pc = "close"
    /\ done' = TRUE
    /\ pc' = "join"
    /\ UNCHANGED <<monitor, cancelled, stop, stopCalls, group, output, err, verdict>>

\* Mutant of Join: the monitor is left to itself.
JoinNot ==
    /\ pc = "join"
    /\ pc' = "result"
    /\ UNCHANGED <<monitor, cancelled, channels, group, output, err, verdict>>

Join ==
    /\ pc = "join" /\ monitor = "done"
    /\ pc' = "result"
    /\ UNCHANGED <<monitor, cancelled, channels, group, output, err, verdict>>

\* boundedProcessResult: the context's error counts although the process ended.
Result ==
    /\ pc = "result"
    /\ err' = (err \/ cancelled)
    /\ pc' = "judge"
    /\ UNCHANGED <<monitor, cancelled, channels, group, output, verdict>>

\* Mutant of Judge: the caller relies on the error alone.
JudgeError ==
    /\ pc = "judge"
    /\ verdict' = IF err THEN "failed" ELSE "passed"
    /\ pc' = "returned"
    /\ UNCHANGED <<monitor, cancelled, channels, group, output, err>>

\* scan, in the security gate: error or overflow fails it.
Judge ==
    /\ pc = "judge"
    /\ verdict' = IF err \/ \E s \in Streams : overflow[s] THEN "failed" ELSE "passed"
    /\ pc' = "returned"
    /\ UNCHANGED <<monitor, cancelled, channels, group, output, err>>

Caller == CheckContext \/ Start \/ Wait \/ CloseDone \/ Join \/ Result \/ Judge

-----------------------------------------------------------------------------
\* The monitor: select takes any case that is ready.

Select ==
    /\ monitor = "select"
    /\ \/ (cancelled \/ stop) /\ monitor' = "kill"
       \/ done /\ monitor' = "done"
    /\ UNCHANGED <<pc, cancelled, channels, group, output, err, verdict>>

\* Mutant of KillGroup: only the process started is killed.
KillLeader ==
    /\ monitor = "kill"
    /\ alive' = alive \ {Leader} /\ holding' = holding \ {Leader}
    /\ status' = IF Leader \in alive THEN "killed" ELSE status
    /\ monitor' = "done"
    /\ UNCHANGED <<pc, cancelled, channels, output, err, verdict>>

\* terminateProcessGroup: SIGKILL to the group, to nobody when it is gone.
KillGroup ==
    /\ monitor = "kill"
    /\ alive' = {} /\ holding' = {}
    /\ status' = IF Leader \in alive THEN "killed" ELSE status
    /\ monitor' = "done"
    /\ UNCHANGED <<pc, cancelled, channels, output, err, verdict>>

Monitor == Select \/ KillGroup

-----------------------------------------------------------------------------
\* os/exec's copying goroutines and boundedProcessOutput.Write.

\* Write under the mutex; only the first overflow goes on to the callback,
\* outside it.
Copy(s) ==
    /\ copier[s] = "read" /\ pipe[s]
    /\ pipe' = [pipe EXCEPT ![s] = FALSE]
    /\ IF written[s] < Limit /\ ~overflow[s]
       THEN /\ written' = [written EXCEPT ![s] = @ + 1]
            /\ UNCHANGED <<overflow, copier>>
       ELSE /\ written' = [written EXCEPT ![s] = Limit]
            /\ overflow' = [overflow EXCEPT ![s] = TRUE]
            /\ copier' = IF overflow[s] THEN copier ELSE [copier EXCEPT ![s] = "callback"]
    /\ UNCHANGED <<pc, monitor, cancelled, channels, group, err, verdict>>

\* Mutant of Callback: without stopOnce each stream closes the channel.
CallbackUnguarded(s) ==
    /\ copier[s] = "callback"
    /\ copier' = [copier EXCEPT ![s] = "read"]
    /\ stop' = TRUE
    /\ stopCalls' = stopCalls + 1
    /\ UNCHANGED <<pc, monitor, cancelled, done, group, pipe, written, overflow, err, verdict>>

\* signalStop: stopOnce closes the channel for the first stream only.
Callback(s) ==
    /\ copier[s] = "callback"
    /\ copier' = [copier EXCEPT ![s] = "read"]
    /\ stop' = TRUE
    /\ stopCalls' = IF stop THEN stopCalls ELSE stopCalls + 1
    /\ UNCHANGED <<pc, monitor, cancelled, done, group, pipe, written, overflow, err, verdict>>

EndOfFile(s) ==
    /\ copier[s] = "read" /\ ~pipe[s] /\ holding = {}
    /\ copier' = [copier EXCEPT ![s] = "eof"]
    /\ UNCHANGED <<pc, monitor, cancelled, channels, group, pipe, written, overflow, err, verdict>>

Copiers == \E s \in Streams : Copy(s) \/ Callback(s) \/ EndOfFile(s)

-----------------------------------------------------------------------------
\* The scanner and what it starts; nothing obliges them to end.

WriteOutput(p, s) ==
    /\ p \in holding /\ ~pipe[s]
    /\ pipe' = [pipe EXCEPT ![s] = TRUE]
    /\ UNCHANGED <<pc, monitor, cancelled, channels, group, copier, written, overflow, err, verdict>>

\* A child inherits the pipes or has its output redirected.
Fork(p) ==
    /\ Leader \in alive /\ p \in Children \ alive
    /\ alive' = alive \cup {p}
    /\ holding' \in {holding, holding \cup {p}}
    /\ UNCHANGED <<pc, monitor, cancelled, channels, status, output, err, verdict>>

Exit(p) ==
    /\ p \in alive
    /\ alive' = alive \ {p} /\ holding' = holding \ {p}
    /\ IF p = Leader THEN status' \in {"ok", "failed"} ELSE UNCHANGED status
    /\ UNCHANGED <<pc, monitor, cancelled, channels, output, err, verdict>>

Scanner == \E p \in Processes : Fork(p) \/ Exit(p) \/ \E s \in Streams : WriteOutput(p, s)

Cancel ==
    /\ ~cancelled /\ pc # "returned"
    /\ cancelled' = TRUE
    /\ UNCHANGED <<pc, monitor, channels, group, output, err, verdict>>

Next == Caller \/ Monitor \/ Copiers \/ Scanner \/ Cancel

Spec == Init /\ [][Next]_vars

\* Goroutines that can run do, and SIGKILL works; the scanner is owed nothing.
FairSpec ==
    /\ Spec
    /\ WF_vars(Caller) /\ WF_vars(Monitor)
    /\ \A s \in Streams : WF_vars(Copy(s) \/ Callback(s) \/ EndOfFile(s))

-----------------------------------------------------------------------------

\* A pass means: the scanner ended well by itself, all it wrote was counted and
\* within the limit, and nothing was still to be read (process.go:292-308,
\* runner.go:1064-1091).  That a context which ends first fails the gate is
\* said by StoppedFails.
PassedIsWhole ==
    verdict = "passed" =>
        /\ status = "ok"
        /\ \A s \in Streams : ~overflow[s] /\ ~pipe[s] /\ copier[s] = "eof"

\* Once runBounded has returned nothing of it runs: no monitor that could
\* signal a process id used again, no copier writing to the caller's buffers.
ReturnedIsQuiet ==
    pc \in {"result", "judge", "returned"} =>
        /\ monitor \in {"none", "done"}
        /\ \A s \in Streams : copier[s] \in {"none", "eof"}

\* A scanner that overflows, or whose context ends before its result is
\* taken, ends, and the gate fails: although the scanner and its children
\* would go on for ever, and although they may end well at the same moment.
StoppedFails ==
    (\E s \in Streams : overflow[s]) \/ (cancelled /\ pc \notin {"judge", "returned"})
        ~> verdict = "failed"
=============================================================================
