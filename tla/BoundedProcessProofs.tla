------------------------ MODULE BoundedProcessProofs ------------------------
(***************************************************************************)
(* For any number of output streams and child processes and any limit: the *)
(* caller, the monitor and the copiers of runBounded never close a channel *)
(* twice, a pass means the whole output was read and accepted, and nothing *)
(* of the run is left when runBounded returns.                             *)
(***************************************************************************)
EXTENDS BoundedProcess, TLAPS

\* What process.Wait has waited for.  Nothing can change it any more: the leader
\* is gone, so nobody forks, and at the end of a stream nobody holds its pipe.
Ended ==
    /\ Leader \notin alive
    /\ \A s \in Streams : copier[s] = "eof"

\* Nothing has been started: the context was dead or Start failed.
Unstarted ==
    /\ alive = {} /\ monitor = "none"
    /\ \A s \in Streams : copier[s] = "none"

\* The channel is closed exactly when close(stop) has run.
ClosedOnce == stopCalls = IF stop THEN 1 ELSE 0

\* A leader holds its pipes for life; a copier at its end has read everything
\* and nobody is left to write.
PipesInOrder ==
    /\ Leader \in alive => Leader \in holding
    /\ \A s \in Streams : copier[s] = "eof" => ~pipe[s] /\ holding = {}

\* Where the caller is says what has ended, and what an absent error means.
CallerInOrder ==
    /\ pc \in {"check", "start"} => Unstarted
    /\ pc \in {"close", "join", "result"} => Ended
    /\ pc \in {"judge", "returned"} => Ended \/ (Unstarted /\ err)
    /\ pc \in {"close", "join", "result", "judge", "returned"} /\ ~err => status = "ok"
    /\ pc \in {"result", "judge", "returned"} => monitor \in {"none", "done"}
    /\ verdict # "none" => pc = "returned"
    /\ verdict = "passed" => ~err /\ \A s \in Streams : ~overflow[s]

\* TypeOK and PassedIsWhole are not inductive: that a second close does not happen
\* needs ClosedOnce, and that a pass stays whole needs that nobody is left who
\* could write or overflow.
Inv == TypeOK /\ ClosedOnce /\ PipesInOrder /\ CallerInOrder

-----------------------------------------------------------------------------

\* Before runBounded starts anything every part holds.
LEMMA InitInv == Init => Inv
  <1> SUFFICES ASSUME Init PROVE Inv
    OBVIOUS
  <1>1. TypeOK
    <2>1. 0 \in 0..Limit /\ 0 \in 0..1 /\ FALSE \in BOOLEAN
      BY BoundedProcessAssumption
    <2> QED BY <2>1 DEF Init, TypeOK
  <1>2. ClosedOnce /\ PipesInOrder /\ CallerInOrder
    BY DEF Init, ClosedOnce, PipesInOrder, CallerInOrder, Unstarted
  <1> QED BY <1>1, <1>2 DEF Inv

\* The caller's steps: what it has waited for is what the next position claims.
LEMMA CallerStep == Inv /\ Caller => Inv'
  <1> SUFFICES ASSUME Inv, Caller PROVE Inv'
    OBVIOUS
  <1> USE DEF Inv, channels, group, output
  <1>1. CASE CheckContext
    BY <1>1 DEF CheckContext, TypeOK, ClosedOnce, PipesInOrder, CallerInOrder, Unstarted, Ended
  <1>2. CASE Start
    BY <1>2 DEF Start, TypeOK, Processes, ClosedOnce, PipesInOrder, CallerInOrder, Unstarted, Ended
  <1>3. CASE Wait
    <2>1. TypeOK' /\ ClosedOnce'
      BY <1>3 DEF Wait, TypeOK, ClosedOnce
    <2>2. PipesInOrder' /\ CallerInOrder'
      BY <1>3 DEF Wait, TypeOK, PipesInOrder, CallerInOrder, Unstarted, Ended
    <2> QED BY <2>1, <2>2
  <1>4. CASE CloseDone
    BY <1>4 DEF CloseDone, TypeOK, ClosedOnce, PipesInOrder, CallerInOrder, Unstarted, Ended
  <1>5. CASE Join
    BY <1>5 DEF Join, TypeOK, ClosedOnce, PipesInOrder, CallerInOrder, Unstarted, Ended
  <1>6. CASE Result
    BY <1>6 DEF Result, TypeOK, ClosedOnce, PipesInOrder, CallerInOrder, Unstarted, Ended
  <1>7. CASE Judge
    BY <1>7 DEF Judge, TypeOK, ClosedOnce, PipesInOrder, CallerInOrder, Unstarted, Ended
  <1> QED BY <1>1, <1>2, <1>3, <1>4, <1>5, <1>6, <1>7 DEF Caller

\* The monitor's steps: a kill after the end changes nothing.
LEMMA MonitorStep == Inv /\ Monitor => Inv'
  <1> SUFFICES ASSUME Inv, Monitor PROVE Inv'
    OBVIOUS
  <1> USE DEF Inv, channels, group, output, TypeOK, ClosedOnce, PipesInOrder, CallerInOrder, Unstarted, Ended
  <1>1. CASE Select BY <1>1 DEF Select
  <1>2. CASE KillGroup BY <1>2 DEF KillGroup
  <1> QED BY <1>1, <1>2 DEF Monitor

\* A copier's steps: a stream that is not at its end belongs to a run that is
\* not over, and the written count stays within the limit.
LEMMA CopierStep ==
  ASSUME Inv, NEW s \in Streams, Copy(s) \/ Callback(s) \/ EndOfFile(s)
  PROVE  Inv'
  <1> USE BoundedProcessAssumption
      DEF Inv, channels, group, output, TypeOK, ClosedOnce, PipesInOrder, CallerInOrder, Unstarted, Ended
  <1>1. CASE Copy(s)
    <2>1. TypeOK'
      <3>1. /\ written[s] \in 0..Limit /\ Limit \in 0..Limit
            /\ written[s] < Limit => written[s] + 1 \in 0..Limit
        OBVIOUS
      <3>2. CASE written[s] < Limit /\ ~overflow[s] BY <1>1, <3>1, <3>2 DEF Copy
      <3>3. CASE ~(written[s] < Limit /\ ~overflow[s]) /\ overflow[s] BY <1>1, <3>1, <3>3 DEF Copy
      <3>4. CASE ~(written[s] < Limit /\ ~overflow[s]) /\ ~overflow[s] BY <1>1, <3>1, <3>4 DEF Copy
      <3> QED BY <3>2, <3>3, <3>4
    <2>2. ClosedOnce' /\ PipesInOrder' BY <1>1 DEF Copy
    <2>3. CallerInOrder' BY <1>1 DEF Copy
    <2> QED BY <2>1, <2>2, <2>3
  <1>2. CASE Callback(s) BY <1>2 DEF Callback
  <1>3. CASE EndOfFile(s) BY <1>3 DEF EndOfFile
  <1> QED BY <1>1, <1>2, <1>3

\* The steps of the scanner and its children, who need the leader to multiply.
LEMMA ScannerStep ==
  ASSUME Inv, NEW p \in Processes, Fork(p) \/ Exit(p) \/ \E s \in Streams : WriteOutput(p, s)
  PROVE  Inv'
  <1> USE BoundedProcessAssumption
      DEF Inv, channels, group, output, Processes, TypeOK, ClosedOnce, PipesInOrder, CallerInOrder, Unstarted, Ended
  <1>1. CASE Fork(p) BY <1>1 DEF Fork
  <1>2. CASE Exit(p) BY <1>2 DEF Exit
  <1>3. CASE \E s \in Streams : WriteOutput(p, s) BY <1>3 DEF WriteOutput
  <1> QED BY <1>1, <1>2, <1>3

\* Every step keeps the inductive invariant.
LEMMA NextInv == Inv /\ [Next]_vars => Inv'
  <1> SUFFICES ASSUME Inv, [Next]_vars PROVE Inv'
    OBVIOUS
  <1>1. CASE Caller BY <1>1, CallerStep
  <1>2. CASE Monitor BY <1>2, MonitorStep
  <1>3. CASE Copiers BY <1>3, CopierStep DEF Copiers
  <1>4. CASE Scanner BY <1>4, ScannerStep DEF Scanner
  <1>5. CASE Cancel
    BY <1>5 DEF Cancel, Inv, channels, group, output, TypeOK, ClosedOnce, PipesInOrder,
                CallerInOrder, Unstarted, Ended
  <1>6. CASE UNCHANGED vars
    BY <1>6 DEF vars, Inv, channels, group, output, TypeOK, ClosedOnce, PipesInOrder,
                CallerInOrder, Unstarted, Ended
  <1> QED BY <1>1, <1>2, <1>3, <1>4, <1>5, <1>6 DEF Next

\* The inductive invariant holds in every state of every run of a scanner.
THEOREM InvariantHolds == Spec => []Inv
  BY InitInv, NextInv, PTL DEF Spec

\* Whatever both streams do at the same time, close(stop) runs once at most
\* (process.go:269-276): part of TypeOK, with the types of everything else.
THEOREM ChannelsCloseOnce == Spec => []TypeOK
  <1>1. Inv => TypeOK BY DEF Inv
  <1> QED BY InvariantHolds, <1>1, PTL

\* A gate that accepts a scanner has read all of its output, and the scanner
\* ended well by itself (process.go:292-308, runner.go:1064-1091).
THEOREM PassIsWhole == Spec => []PassedIsWhole
  <1>1. Inv => PassedIsWhole
    BY DEF Inv, PipesInOrder, CallerInOrder, PassedIsWhole, Unstarted, Ended
  <1> QED BY InvariantHolds, <1>1, PTL

\* When runBounded has its result neither the monitor nor a copier is left.
THEOREM NothingStaysBehind == Spec => []ReturnedIsQuiet
  <1>1. Inv => ReturnedIsQuiet
    BY DEF Inv, CallerInOrder, ReturnedIsQuiet, Unstarted, Ended
  <1> QED BY InvariantHolds, <1>1, PTL
=============================================================================
