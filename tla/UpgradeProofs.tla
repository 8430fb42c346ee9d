--------------------------- MODULE UpgradeProofs ----------------------------
(***************************************************************************)
(* For any releases and any number of failures, stops and reruns: what     *)
(* golib upgrade answers is true of the files it leaves, and it never      *)
(* leaves a file that its next run refuses.                                *)
(***************************************************************************)
EXTENDS Upgrade, TLAPS

\* A file whose pins Plan finds and can replace.
PlannableFile(f, content) ==
    IF f = "config"
    THEN content \in Configurations
    ELSE content \in Workflows /\ content.use = content.input

\* How far apply is says which of the two files is already replaced.
Progress ==
    /\ pc \in {"config", "workflow", "rollback"} => \A f \in Files : PlannableFile(f, original[f])
    /\ pc = "config" => disk = original
    /\ pc \in {"workflow", "rollback"} =>
          disk["config"] = Rewritten("config") /\ disk["workflow"] = original["workflow"]

\* A temporary file exists only while its target is being replaced.
TemporaryInUse == temporary # "none" => Writing

\* What a power loss can bring back was once replaced, so Plan had accepted it.
OldPlannable == \A f \in Files : \A content \in old[f] : PlannableFile(f, content)

\* AnswerIsTrue says nothing of an attempt under way, and StaysPlannable nothing
\* of the contents a power loss may restore: Progress and OldPlannable do.
Inv == AnswerIsTrue /\ Progress /\ TemporaryInUse /\ OldPlannable

-----------------------------------------------------------------------------

\* What apply writes into a file is one of its contents, and Plan accepts it.
LEMMA WhatIsWritten ==
  ASSUME request \in Releases
  PROVE  \A f \in Files : Rewritten(f) \in Contents /\ PlannableFile(f, Rewritten(f))
  BY DEF Rewritten, Files, Contents, Configurations, Workflows, PlannableFile

\* Plan accepts a repository exactly when it accepts both files.
LEMMA PlannableByFile ==
  ASSUME NEW files,
         files["config"] \in Configurations \cup {Torn},
         files["workflow"] \in Workflows \cup {Torn}
  PROVE  Plannable(files) <=> \A f \in Files : PlannableFile(f, files[f])
  BY UpgradeAssumption DEF Plannable, PlannableFile, Files

\* Nothing is under way and nothing was replaced.
LEMMA InitInv == Init => Inv
  <1> SUFFICES ASSUME Init PROVE Inv
    OBVIOUS
  <1>1. TypeOK
    <2>1. 0 \in 0..MaxFaults BY UpgradeAssumption
    <2> QED BY <2>1 DEF Init, TypeOK, Contents, Files
  <1> QED BY <1>1 DEF Init, Inv, AnswerIsTrue, Progress, TemporaryInUse, OldPlannable

\* Planning, going on without writing, preparing the temporary file and starting
\* over: the files stay as they are.
LEMMA QuietStep ==
  ASSUME Inv, Plan \/ Skip \/ WriteTemporary \/ Sync \/ Again
  PROVE  Inv'
  <1> USE DEF Inv, AnswerIsTrue, TypeOK, Ended, Files
  <1>1. CASE Plan
    <2>1. Plannable(disk) => \A f \in Files : PlannableFile(f, disk[f])
      BY PlannableByFile
    <2> QED BY <1>1, <2>1 DEF Plan, Progress, TemporaryInUse, OldPlannable, Writing, Target, Changed, Pinned, Rewritten
  <1>2. CASE Skip
    BY <1>2 DEF Skip, Progress, TemporaryInUse, OldPlannable, Writing, Written, Target, Changed, Pinned, Rewritten
  <1>3. CASE WriteTemporary
    BY <1>3 DEF WriteTemporary, Progress, TemporaryInUse, OldPlannable, Writing, Target, Changed, Pinned, Rewritten
  <1>4. CASE Sync
    BY <1>4 DEF Sync, Progress, TemporaryInUse, OldPlannable, Writing, Target, Changed, Pinned, Rewritten
  <1>5. CASE Again
    BY <1>5 DEF Again, Progress, TemporaryInUse, OldPlannable, Writing, Target, Changed, Pinned, Rewritten
  <1> QED BY <1>1, <1>2, <1>3, <1>4, <1>5

\* A rename replaces the file that is due by the content that is due: the first
\* by the pins asked for, the second too, or the first by what it was.
LEMMA RenameStep == Inv /\ Rename => Inv'
  <1> SUFFICES ASSUME Inv, Rename PROVE Inv'
    OBVIOUS
  <1>1. /\ pc \in {"config", "workflow", "rollback"} /\ Target \in Files
        /\ Content \in Contents /\ PlannableFile(Target, Content)
    BY WhatIsWritten
       DEF Inv, AnswerIsTrue, TypeOK, Progress, TemporaryInUse, Rename, Writing, Target, Content, Files
  <1>2. PlannableFile(Target, disk[Target])
    BY <1>1, WhatIsWritten DEF Inv, AnswerIsTrue, TypeOK, Progress, Target, Files
  <1>3. /\ disk' = [disk EXCEPT ![Target] = Content]
        /\ old' = [old EXCEPT ![Target] = @ \cup {disk[Target]}]
        /\ temporary' = "none" /\ pc' = Written
        /\ UNCHANGED <<request, original, faults>>
    BY DEF Rename
  <1>4. TypeOK'
    <2>1. disk' \in [Files -> Contents] /\ old' \in [Files -> SUBSET Contents]
      BY <1>1, <1>3 DEF Inv, AnswerIsTrue, TypeOK
    <2>2. disk'["config"] \in Configurations \cup {Torn} /\ disk'["workflow"] \in Workflows \cup {Torn}
      BY <1>1, <1>3 DEF Inv, AnswerIsTrue, TypeOK, PlannableFile, Target, Files
    <2>3. pc' \in {"workflow", "updated", "failed"}
      BY <1>1, <1>3 DEF Written
    <2> QED BY <1>3, <2>1, <2>2, <2>3 DEF Inv, AnswerIsTrue, TypeOK, Ended
  <1>5. AnswerIsTrue' /\ Progress'
    <2>1. CASE pc = "config"
      BY <1>3, <1>4, <2>1 DEF Inv, AnswerIsTrue, TypeOK, Progress, Written, Target, Content, Files, Rewritten
    <2>2. CASE pc = "workflow"
      BY <1>3, <1>4, <2>2
         DEF Inv, AnswerIsTrue, TypeOK, Progress, Written, Target, Content, Files, Rewritten, Pinned
    <2>3. CASE pc = "rollback"
      BY <1>3, <1>4, <2>3 DEF Inv, AnswerIsTrue, TypeOK, Progress, Written, Target, Content, Files
    <2> QED BY <1>1, <2>1, <2>2, <2>3
  <1>6. OldPlannable' /\ TemporaryInUse'
    BY <1>1, <1>2, <1>3 DEF Inv, AnswerIsTrue, TypeOK, OldPlannable, TemporaryInUse
  <1> QED BY <1>5, <1>6 DEF Inv

\* A failed write and a kill leave the files alone; a power loss restores only
\* what had been replaced.
LEMMA FaultStep == Inv /\ (WriteFails \/ Killed \/ PowerLoss) => Inv'
  <1> SUFFICES ASSUME Inv, WriteFails \/ Killed \/ PowerLoss PROVE Inv'
    OBVIOUS
  <1>1. faults' \in 0..MaxFaults
    BY UpgradeAssumption DEF Inv, AnswerIsTrue, TypeOK, Fault, WriteFails, Killed, PowerLoss
  <1>2. CASE WriteFails
    BY <1>1, <1>2
       DEF WriteFails, NotWritten, Writing, Target, Changed, Rewritten, Ended, Files,
           Inv, AnswerIsTrue, TypeOK, Progress, TemporaryInUse, OldPlannable
  <1>3. CASE Killed
    BY <1>1, <1>3 DEF Killed, Ended, Inv, AnswerIsTrue, TypeOK, Progress, TemporaryInUse, OldPlannable
  <1>4. CASE PowerLoss
    <2>1. disk'["config"] \in Configurations \cup {Torn} /\ disk'["workflow"] \in Workflows \cup {Torn}
      BY <1>4 DEF PowerLoss, Inv, AnswerIsTrue, TypeOK, OldPlannable, PlannableFile, Files
    <2> QED BY <1>1, <1>4, <2>1
            DEF PowerLoss, Ended, Inv, AnswerIsTrue, TypeOK, Progress, TemporaryInUse, OldPlannable
  <1> QED BY <1>2, <1>3, <1>4

\* Every step keeps the inductive invariant.
LEMMA NextInv == Inv /\ [Next]_vars => Inv'
  <1> SUFFICES ASSUME Inv, [Next]_vars PROVE Inv'
    OBVIOUS
  <1>1. CASE UNCHANGED vars
    BY <1>1 DEF vars, Inv, AnswerIsTrue, TypeOK, Progress, TemporaryInUse, OldPlannable, Pinned,
                Rewritten, Writing, Target, Changed
  <1> QED BY <1>1, QuietStep, RenameStep, FaultStep DEF Next, Go

\* The inductive invariant holds through every attempt.
THEOREM InvariantHolds == Spec => []Inv
  BY InitInv, NextInv, PTL DEF Spec

\* Success means both files pin the requested release; an error without a
\* rollback error means both are as they were (upgrade.go:185-203).
THEOREM AnswersHold == Spec => []AnswerIsTrue
  <1>1. Inv => AnswerIsTrue BY DEF Inv
  <1> QED BY InvariantHolds, <1>1, PTL

\* Whatever fails or stops, a repository that could be upgraded still can.
THEOREM NeverStuck == Spec => StaysPlannable
  <1>1. Inv /\ Inv' /\ [Next]_vars => [Plannable(disk) => Plannable(disk')]_vars
    <2> SUFFICES ASSUME Inv, Inv', Next, Plannable(disk) PROVE Plannable(disk')
      BY DEF vars
    <2>1. \A f \in Files : PlannableFile(f, disk[f])
      BY PlannableByFile DEF Inv, AnswerIsTrue, TypeOK
    <2>2. \A f \in Files : PlannableFile(f, disk'[f])
      <3>1. CASE disk' = disk BY <2>1, <3>1
      <3>2. CASE Rename
        BY <2>1, <3>2, WhatIsWritten
           DEF Rename, Inv, AnswerIsTrue, TypeOK, Progress, TemporaryInUse, Writing, Target, Content, Files
      <3>3. CASE PowerLoss
        BY <2>1, <3>3 DEF PowerLoss, Inv, OldPlannable
      <3> QED
        BY <3>1, <3>2, <3>3 DEF Next, Go, Plan, Skip, WriteTemporary, Sync, Again, WriteFails, Killed
    <2> QED BY <2>2, PlannableByFile DEF Inv, AnswerIsTrue, TypeOK
  <1> QED BY InvariantHolds, <1>1, PTL DEF Spec, StaysPlannable
=============================================================================
