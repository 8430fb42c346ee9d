--------------------------- MODULE CampaignProofs ---------------------------
(***************************************************************************)
(* Proofs about module Campaign, for any number of processes, packages,    *)
(* contents, mutants and failures: the inductive invariant Inv, that a     *)
(* record always has its report, that evidence is never replaced, that     *)
(* what is published and accepted was executed on the content it names,    *)
(* and that a campaign that passed accepted every package.                 *)
(***************************************************************************)
EXTENDS Campaign, TLAPS

\* The key of the package at hand is a key.
LEMMA KeyType ==
    ASSUME TypeOK, NEW c \in Campaigns
    PROVE  /\ package(c) \in Packages
           /\ input[c] # None => Key(c) \in Keys
  <1>1. at[c] \in DOMAIN Order
    BY DEF TypeOK
  <1>2. package(c) \in Packages
    BY <1>1 DEF package, Packages
  <1>3. input[c] # None => input[c] \in Inputs
    BY DEF TypeOK
  <1> QED
    BY <1>2, <1>3 DEF Key, Keys

\* A process that forgets keeps the types.
LEMMA ForgetType ==
    ASSUME TypeOK, NEW c \in Campaigns, Forget(c)
    PROVE  /\ source' \in [Campaigns -> Sources \cup {None}]
           /\ hashed' \in [Campaigns -> Inputs \cup {None}]
           /\ input' \in [Campaigns -> Inputs \cup {None}]
           /\ review' \in [Campaigns -> Reviews \cup {None}]
           /\ report' \in [Campaigns -> Reports \cup {None}]
           /\ found' \in [Campaigns -> Records \cup {None}]
           /\ \A d \in Campaigns \ {c} :
                /\ source'[d] = source[d]
                /\ hashed'[d] = hashed[d]
                /\ input'[d] = input[d]
                /\ report'[d] = report[d]
                /\ found'[d] = found[d]
  BY DEF TypeOK, Forget

\* What a package accepts.
LEMMA AcceptType ==
    ASSUME TypeOK, NEW c \in Campaigns, NEW raw \in Reports, input[c] # None, Accept(c, raw)
    PROVE  accepted' \in [Campaigns -> SUBSET Acceptances]
  <1> DEFINE a == [key |-> Key(c), report |-> raw, review |-> review[c]]
  <1>1. a \in Acceptances
    BY KeyType DEF Acceptances, TypeOK
  <1>2. accepted' = [accepted EXCEPT ![c] = accepted[c] \cup {a}]
    BY DEF Accept, TypeOK
  <1> HIDE DEF a
  <1>3. accepted \in [Campaigns -> SUBSET Acceptances]
    BY DEF TypeOK
  <1>4. accepted[c] \cup {a} \in SUBSET Acceptances
    BY <1>1, <1>3
  <1> QED
    BY <1>2, <1>3, <1>4

\* After a package: the next one, or the end.
LEMMA NextPackageType ==
    ASSUME TypeOK, NEW c \in Campaigns, NextPackage(c)
    PROVE  /\ pc' \in [Campaigns -> Steps]
           /\ at' \in [Campaigns -> DOMAIN Order]
           /\ policy' = policy /\ tool' = tool
           /\ Forget(c)
           /\ pc'[c] \in {"source", "passed"}
           /\ \A d \in Campaigns \ {c} : pc'[d] = pc[d] /\ at'[d] = at[d]
  <1>1. at[c] < Len(Order) => at[c] + 1 \in DOMAIN Order
    BY CampaignAssumption DEF TypeOK
  <1> QED
    BY <1>1 DEF NextPackage, Goto, TypeOK, Steps

LEMMA SpendType ==
    ASSUME budget \in [DOMAIN Limits -> Nat], NEW what \in DOMAIN Limits, Spend(what)
    PROVE  budget' \in [DOMAIN Limits -> Nat]
  <1>1. budget[what] - 1 \in Nat
    BY DEF Spend
  <1> QED
    BY <1>1 DEF Spend

LEMMA LimitNames == DOMAIN Limits = {"edits", "reviews", "failures", "runs"}
  BY DEF Limits

\* The other processes are left alone.
Alone(c) ==
    \A d \in Campaigns \ {c} :
        /\ pc'[d] = pc[d] /\ at'[d] = at[d] /\ source'[d] = source[d]
        /\ hashed'[d] = hashed[d] /\ input'[d] = input[d] /\ report'[d] = report[d]
        /\ found'[d] = found[d] /\ tool'[d] = tool[d]

\* What a step of one process has to keep for the rest of Inv to hold.
LEMMA Frame ==
    ASSUME Inv, TypeOK', NEW c \in Campaigns, Alone(c), Carried(c)', powerLost' = powerLost,
           \A k \in Keys : reports[k] # None => reports'[k] = reports[k],
           \A k \in Keys : records'[k] = records[k] \/ records'[k].report = reports'[k],
           pc'[c] = "record" => reports'[Key(c)'] = report'[c]
    PROVE  Inv'
  <1>1. \A d \in Campaigns : Carried(d)'
    BY DEF Inv, Alone, Carried
  <1>2. ASSUME NEW d \in Campaigns, pc'[d] = "record"
        PROVE  reports'[Key(d)'] = report'[d]
    <2>1. CASE d = c
      BY <1>2, <2>1
    <2>2. CASE d # c
      <3>1. Key(d)' = Key(d) /\ pc[d] = "record" /\ report'[d] = report[d]
        BY <1>2, <2>2 DEF Alone, Key, package
      <3>2. Key(d) \in Keys
        BY <3>1, KeyType DEF Inv, Carried, Keyed, Executed
      <3>3. reports[Key(d)] = report[d] /\ report[d] # None
        BY <3>1 DEF Inv, RecordingHasReport, Carried, Executed
      <3> QED
        BY <3>1, <3>2, <3>3
    <2> QED
      BY <2>1, <2>2
  <1>3. ASSUME NEW k \in Keys, records'[k] # None, ~powerLost', records'[k] = records[k]
        PROVE  records'[k].report = reports'[k]
    <2>1. records[k].report = reports[k]
      BY <1>3 DEF Inv, RecordHasReport
    <2>2. records[k] \in Records
      BY <1>3 DEF Inv, TypeOK
    <2>3. reports[k] # None
      BY <2>1, <2>2, CampaignAssumption DEF Records
    <2> QED
      BY <1>3, <2>1, <2>3
  <1> QED
    BY <1>1, <1>2, <1>3 DEF Inv, RecordingHasReport, RecordHasReport

\* An error, in every action that may end in one.
LEMMA AbortKeeps ==
    ASSUME Inv, NEW c \in Campaigns, Abort(c), UNCHANGED <<repository, outcome, powerLost>>,
           budget' \in [DOMAIN Limits -> Nat]
    PROVE  Inv'
  <1>1. TypeOK'
    <2>1. pc' \in [Campaigns -> Steps]
      BY DEF Inv, TypeOK, Abort, Goto, Steps
    <2> QED
      BY <2>1, ForgetType DEF Inv, TypeOK, Abort, evidence, repository
  <1>2. Alone(c)
    BY ForgetType DEF Inv, Alone, Abort, Goto, TypeOK
  <1>3. pc'[c] = "failed"
    BY DEF Inv, TypeOK, Abort, Goto
  <1>4. Carried(c)'
    BY <1>3 DEF Carried, Keyed, Executed
  <1> QED
    BY <1>1, <1>2, <1>3, <1>4, Frame DEF Abort, evidence

LEMMA RunKeeps == ASSUME Inv, NEW c \in Campaigns, Run(c) PROVE Inv'
  <1>1. pc' \in [Campaigns -> Steps] /\ pc'[c] = "source"
    BY DEF Inv, TypeOK, Run, Goto, Steps
  <1>2. at' \in [Campaigns -> DOMAIN Order]
    BY CampaignAssumption DEF Inv, TypeOK, Run
  <1>3. budget' \in [DOMAIN Limits -> Nat]
    BY SpendType, LimitNames DEF Inv, TypeOK, Run
  <1>4. /\ policy' \in [Campaigns -> [Packages -> Reviews \cup {None}]]
        /\ tool' \in [Campaigns -> Tools \cup {None}]
        /\ accepted' \in [Campaigns -> SUBSET Acceptances]
    BY DEF Inv, TypeOK, Run
  <1>5. TypeOK'
    BY <1>1, <1>2, <1>3, <1>4, ForgetType DEF Inv, TypeOK, Run, repository, evidence
  <1>6. Alone(c)
    BY ForgetType DEF Inv, Alone, Run, Goto, TypeOK
  <1>7. Carried(c)'
    BY <1>1 DEF Carried, Keyed, Executed
  <1> QED
    BY <1>1, <1>5, <1>6, <1>7, Frame DEF Run, evidence

LEMMA ReadSourceKeeps == ASSUME Inv, NEW c \in Campaigns, ReadSource(c) PROVE Inv'
  <1>1. /\ pc' \in [Campaigns -> Steps]
        /\ pc'[c] = IF pc[c] = "source" THEN "hash" ELSE "rehash"
    BY DEF Inv, TypeOK, ReadSource, Goto, Steps
  <1>2. tree[package(c)].source \in Sources
    BY KeyType DEF Inv, TypeOK, Inputs
  <1>3. source' \in [Campaigns -> Sources \cup {None}] /\ source'[c] # None
    BY <1>2, CampaignAssumption DEF Inv, TypeOK, ReadSource
  <1>4. TypeOK'
    BY <1>1, <1>3 DEF Inv, TypeOK, ReadSource, repository, evidence, history
  <1>5. Alone(c)
    BY DEF Inv, TypeOK, Alone, ReadSource, Goto
  <1>6. Carried(c)'
    BY <1>1, <1>3 DEF Inv, Carried, Keyed, Executed, ReadSource
  <1> QED
    BY <1>1, <1>4, <1>5, <1>6, Frame DEF ReadSource, evidence, history

LEMMA HashRestKeeps == ASSUME Inv, NEW c \in Campaigns, HashRest(c) PROVE Inv'
  <1>1. /\ pc' \in [Campaigns -> Steps]
        /\ pc'[c] = IF pc[c] = "hash" THEN "own" ELSE "reown"
    BY DEF Inv, TypeOK, HashRest, Goto, Steps
  <1>2. source[c] \in Sources
    BY DEF Inv, TypeOK, Carried, HashRest
  <1>3. [source |-> source[c], rest |-> tree[package(c)].rest] \in Inputs
    BY <1>2, KeyType DEF Inv, TypeOK, Inputs
  <1>4. hashed' \in [Campaigns -> Inputs \cup {None}] /\ hashed'[c] # None
    BY <1>3, CampaignAssumption DEF Inv, TypeOK, HashRest
  <1>5. TypeOK'
    BY <1>1, <1>4 DEF Inv, TypeOK, HashRest, repository, evidence, history
  <1>6. Alone(c)
    BY DEF Inv, TypeOK, Alone, HashRest, Goto
  <1>7. Carried(c)'
    BY <1>1, <1>4 DEF Inv, Carried, Keyed, Executed, HashRest
  <1> QED
    BY <1>1, <1>5, <1>6, <1>7, Frame DEF HashRest, evidence, history

LEMMA HashOwnKeeps == ASSUME Inv, NEW c \in Campaigns, HashOwn(c) PROVE Inv'
  <1>1. /\ pc' \in [Campaigns -> Steps]
        /\ pc'[c] = IF pc[c] = "own" THEN "confirm" ELSE "reconfirm"
    BY DEF Inv, TypeOK, HashOwn, Goto, Steps
  <1>2. hashed[c] \in Inputs
    BY DEF Inv, TypeOK, Carried, HashOwn
  <1>3. [source |-> tree[package(c)].source, rest |-> hashed[c].rest] \in Inputs
    BY <1>2, KeyType DEF Inv, TypeOK, Inputs
  <1>4. hashed' = [hashed EXCEPT ![c] = [source |-> tree[package(c)].source, rest |-> hashed[c].rest]]
    BY DEF Inv, TypeOK, HashOwn
  <1>5. hashed' \in [Campaigns -> Inputs \cup {None}] /\ hashed'[c] # None
    BY <1>3, <1>4, CampaignAssumption DEF Inv, TypeOK
  <1>6. TypeOK'
    BY <1>1, <1>5 DEF Inv, TypeOK, HashOwn, repository, evidence, history
  <1>7. Alone(c)
    BY <1>4 DEF Inv, TypeOK, Alone, HashOwn, Goto
  <1>8. Carried(c)'
    BY <1>1, <1>5 DEF Inv, Carried, Keyed, Executed, HashOwn
  <1> QED
    BY <1>1, <1>6, <1>7, <1>8, Frame DEF HashOwn, evidence, history

LEMMA ConfirmKeeps == ASSUME Inv, NEW c \in Campaigns, Confirm(c) PROVE Inv'
  <1> DEFINE entry == policy[c][package(c)]
  <1>1. CASE SourceMoved(c) \/ Drifted(entry, source[c])
    BY <1>1, AbortKeeps DEF Confirm, Inv, TypeOK, repository
  <1>2. CASE ~(SourceMoved(c) \/ Drifted(entry, source[c]))
    <2>1. pc' \in [Campaigns -> Steps] /\ pc'[c] = "lookup"
      BY <1>2 DEF Inv, TypeOK, Confirm, Goto, Steps
    <2>2. hashed[c] \in Inputs /\ hashed[c] # None
      BY DEF Inv, TypeOK, Carried, Confirm
    <2>3. entry \in Reviews \cup {None}
      BY KeyType DEF Inv, TypeOK
    <2>4. input' = [input EXCEPT ![c] = hashed[c]] /\ review' = [review EXCEPT ![c] = entry]
      BY <1>2 DEF Confirm
    <2> HIDE DEF entry
    <2>5. /\ input' \in [Campaigns -> Inputs \cup {None}] /\ input'[c] # None
          /\ review' \in [Campaigns -> Reviews \cup {None}]
          /\ source' \in [Campaigns -> Sources \cup {None}]
          /\ hashed' \in [Campaigns -> Inputs \cup {None}]
      BY <1>2, <2>2, <2>3, <2>4 DEF Inv, TypeOK, Confirm, entry
    <2>6. TypeOK'
      BY <1>2, <2>1, <2>5 DEF Inv, TypeOK, Confirm, repository, evidence, entry
    <2>7. Alone(c)
      BY <1>2 DEF entry,  Inv, TypeOK, Alone, Confirm, Goto
    <2>8. Carried(c)'
      BY <2>1, <2>5 DEF Carried, Keyed, Executed
    <2> QED
      BY <1>2, <2>1, <2>6, <2>7, <2>8, Frame DEF Confirm, evidence, entry
  <1> QED
    BY <1>1, <1>2

LEMMA LookupKeeps == ASSUME Inv, NEW c \in Campaigns, Lookup(c) PROVE Inv'
  <1>1. /\ pc' \in [Campaigns -> Steps]
        /\ pc'[c] = IF records[Key(c)] = None THEN "prepare" ELSE "verify"
    BY DEF Inv, TypeOK, Lookup, Goto, Steps
  <1>2. input[c] # None
    BY DEF Inv, Carried, Keyed, Lookup
  <1>3. records[Key(c)] \in Records \cup {None}
    BY <1>2, KeyType DEF Inv, TypeOK
  <1>4. /\ found' \in [Campaigns -> Records \cup {None}]
        /\ found'[c] = records[Key(c)]
    BY <1>3 DEF Inv, TypeOK, Lookup
  <1>5. TypeOK'
    BY <1>1, <1>4 DEF Inv, TypeOK, Lookup, repository, evidence, history
  <1>6. Alone(c)
    BY DEF Inv, TypeOK, Alone, Lookup, Goto
  <1>7. Carried(c)'
    BY <1>1, <1>2, <1>4 DEF Carried, Keyed, Executed, Lookup
  <1> QED
    BY <1>1, <1>5, <1>6, <1>7, Frame DEF Lookup, evidence, history

\* A package that ends well, reused or recorded.
LEMMA NextPackageKeeps ==
    ASSUME Inv, NEW c \in Campaigns, NEW raw \in Reports, pc[c] \in Keyed,
           Accept(c, raw), NextPackage(c), reports' = reports,
           records' \in [Keys -> Records \cup {None}],
           \A k \in Keys : records'[k] = records[k] \/ records'[k].report = reports'[k],
           UNCHANGED <<repository, executed, outcome, powerLost, budget>>
    PROVE  Inv'
  <1>1. accepted' \in [Campaigns -> SUBSET Acceptances]
    BY AcceptType DEF Inv, Carried
  <1>2. TypeOK'
    BY <1>1, NextPackageType, ForgetType DEF Inv, TypeOK, repository
  <1>3. Alone(c)
    BY NextPackageType, ForgetType DEF Inv, Alone
  <1>4. Carried(c)' /\ pc'[c] # "record"
    BY NextPackageType DEF Inv, Carried, Keyed, Executed
  <1> QED
    BY <1>2, <1>3, <1>4, Frame

LEMMA VerifyKeeps == ASSUME Inv, NEW c \in Campaigns, Verify(c) PROVE Inv'
  <1> DEFINE raw == reports[Key(c)]
             good == raw # None /\ Valid(raw, review[c]) /\ raw = found[c].report
  <1>1. CASE ~good
    BY <1>1, AbortKeeps DEF Verify, Inv, TypeOK, repository
  <1>2. CASE good
    <2>1. Key(c) \in Keys /\ pc[c] \in Keyed
      BY KeyType DEF Inv, Carried, Keyed, Verify
    <2>2. raw \in Reports
      BY <1>2, <2>1 DEF Inv, TypeOK
    <2>3. Accept(c, raw) /\ NextPackage(c) /\ UNCHANGED <<evidence, executed>>
      BY <1>2 DEF Verify
    <2>4. UNCHANGED <<repository, outcome, powerLost, budget>>
      BY DEF Verify
    <2>5. records' \in [Keys -> Records \cup {None}]
      BY <2>3 DEF Inv, TypeOK, evidence
    <2> HIDE DEF raw
    <2> QED
      BY <2>1, <2>2, <2>3, <2>4, <2>5, NextPackageKeeps DEF evidence
  <1> QED
    BY <1>1, <1>2

LEMMA PrepareKeeps == ASSUME Inv, NEW c \in Campaigns, Prepare(c) PROVE Inv'
  <1>1. pc' \in [Campaigns -> Steps] /\ pc'[c] = "execute"
    BY DEF Inv, TypeOK, Prepare, Goto, Steps
  <1>2. PICK t \in Tools : tool' = [tool EXCEPT ![c] = t]
    BY DEF Prepare
  <1>3. tool' \in [Campaigns -> Tools \cup {None}] /\ tool'[c] # None
    BY <1>2, CampaignAssumption DEF Inv, TypeOK
  <1>4. TypeOK'
    BY <1>1, <1>3 DEF Inv, TypeOK, Prepare, repository, evidence, history
  <1>5. Alone(c)
    BY <1>2 DEF Inv, TypeOK, Alone, Prepare, Goto
  <1>6. Carried(c)'
    BY <1>1, <1>3 DEF Inv, Carried, Keyed, Executed, Prepare
  <1> QED
    BY <1>1, <1>4, <1>5, <1>6, Frame DEF Prepare, evidence, history

LEMMA ExecuteKeeps == ASSUME Inv, NEW c \in Campaigns, Execute(c) PROVE Inv'
  <1> DEFINE ran == [package |-> package(c), input |-> tree[package(c)]]
  <1>1. ran \in Keys
    BY KeyType DEF Inv, TypeOK, Keys
  <1>2. PICK raw \in IF Flaky THEN Reports ELSE {outcome[ran]} :
            IF Tolerated(raw, review[c]) /\ Valid(raw, review[c])
            THEN /\ report' = [report EXCEPT ![c] = raw]
                 /\ executed' = executed \cup {[key |-> ran, report |-> raw]}
                 /\ Goto(c, "resource")
                 /\ UNCHANGED <<evidence, accepted, at, policy, source, hashed, input, review, found, tool>>
            ELSE Abort(c)
    BY DEF Execute
  <1> HIDE DEF ran
  <1>3. pc[c] = "execute" /\ UNCHANGED <<repository, outcome, powerLost, budget>>
    BY DEF Execute
  <1>4. raw \in Reports
    BY <1>1, <1>2 DEF Inv, TypeOK
  <1>5. CASE ~(Tolerated(raw, review[c]) /\ Valid(raw, review[c]))
    BY <1>2, <1>3, <1>5, AbortKeeps DEF Inv, TypeOK, repository
  <1>6. CASE Tolerated(raw, review[c]) /\ Valid(raw, review[c])
    <2>1. /\ report' = [report EXCEPT ![c] = raw]
          /\ executed' = executed \cup {[key |-> ran, report |-> raw]}
          /\ Goto(c, "resource")
          /\ UNCHANGED <<evidence, accepted, at, policy, source, hashed, input, review, found, tool>>
      BY <1>2, <1>6
    <2>2. pc' \in [Campaigns -> Steps] /\ pc'[c] = "resource"
      BY <2>1 DEF Inv, TypeOK, Goto, Steps
    <2>3. report' \in [Campaigns -> Reports \cup {None}] /\ report'[c] # None
      BY <1>4, <2>1, CampaignAssumption DEF Inv, TypeOK
    <2>4. executed' \subseteq [key : Keys, report : Reports]
      BY <1>1, <1>4, <2>1 DEF Inv, TypeOK
    <2>5. TypeOK'
      BY <1>3, <2>1, <2>2, <2>3, <2>4 DEF Inv, TypeOK, repository, evidence
    <2>6. Alone(c)
      BY <2>1 DEF Inv, TypeOK, Alone, Goto
    <2>7. Carried(c)'
      BY <1>3, <2>1, <2>2, <2>3 DEF Inv, Carried, Keyed, Executed
    <2> QED
      BY <1>3, <2>1, <2>2, <2>5, <2>6, <2>7, Frame DEF evidence
  <1> QED
    BY <1>5, <1>6

LEMMA ReconfirmKeeps == ASSUME Inv, NEW c \in Campaigns, Reconfirm(c) PROVE Inv'
  <1> DEFINE moved == SourceMoved(c) \/ Drifted(policy[c][package(c)], source[c]) \/ hashed[c] # input[c]
  <1>1. CASE moved
    BY <1>1, AbortKeeps DEF Reconfirm, Inv, TypeOK, repository
  <1>2. CASE ~moved
    <2>1. pc' \in [Campaigns -> Steps] /\ pc'[c] = "report"
      BY <1>2 DEF Inv, TypeOK, Reconfirm, Goto, Steps
    <2>2. TypeOK'
      BY <1>2, <2>1 DEF Inv, TypeOK, Reconfirm, repository, evidence
    <2>3. Alone(c)
      BY <1>2 DEF Inv, TypeOK, Alone, Reconfirm, Goto
    <2>4. Carried(c)'
      BY <1>2, <2>1 DEF Inv, Carried, Keyed, Executed, Reconfirm
    <2> QED
      BY <1>2, <2>1, <2>2, <2>3, <2>4, Frame DEF Reconfirm, evidence
  <1> QED
    BY <1>1, <1>2

LEMMA StoreReportKeeps == ASSUME Inv, NEW c \in Campaigns, StoreReport(c) PROVE Inv'
  <1>1. /\ pc[c] = "report" /\ Key(c) \in Keys
        /\ report[c] \in Reports /\ report[c] # None
    BY KeyType DEF Inv, TypeOK, Carried, Keyed, Executed, StoreReport
  <1>2. CASE reports[Key(c)] \notin {None, report[c]}
    BY <1>2, AbortKeeps DEF StoreReport, Inv, TypeOK, repository
  <1>3. CASE reports[Key(c)] \in {None, report[c]}
    <2>1. /\ reports' = [reports EXCEPT ![Key(c)] = report[c]]
          /\ Goto(c, "record")
          /\ UNCHANGED <<records, local, executed, accepted>>
          /\ UNCHANGED <<repository, outcome, powerLost, budget>>
      BY <1>3 DEF StoreReport
    <2>2. pc' \in [Campaigns -> Steps] /\ pc'[c] = "record"
      BY <2>1 DEF Inv, TypeOK, Goto, Steps
    <2>3. reports' \in [Keys -> Reports \cup {None}]
      BY <1>1, <2>1 DEF Inv, TypeOK
    <2>4. TypeOK'
      BY <2>1, <2>2, <2>3 DEF Inv, TypeOK, repository, local
    <2>5. Alone(c)
      BY <2>1 DEF Inv, TypeOK, Alone, Goto, local
    <2>6. Carried(c)'
      BY <1>1, <2>1, <2>2 DEF Inv, Carried, Keyed, Executed, local
    <2>7. Key(c)' = Key(c) /\ reports'[Key(c)] = report'[c]
      BY <1>1, <2>1 DEF Inv, TypeOK, Key, package, local
    <2>8. \A k \in Keys : reports[k] # None => reports'[k] = reports[k]
      BY <1>1, <1>3, <2>1 DEF Inv, TypeOK
    <2> QED
      BY <2>1, <2>4, <2>5, <2>6, <2>7, <2>8, Frame
  <1> QED
    BY <1>2, <1>3

LEMMA StoreRecordKeeps == ASSUME Inv, NEW c \in Campaigns, StoreRecord(c) PROVE Inv'
  <1> DEFINE record == [report |-> report[c], tool |-> tool[c]]
  <1>1. /\ pc[c] = "record" /\ pc[c] \in Keyed /\ Key(c) \in Keys
        /\ report[c] \in Reports /\ tool[c] \in Tools
    BY KeyType DEF Inv, TypeOK, Carried, Keyed, Executed, StoreRecord
  <1>2. record \in Records /\ record.report = reports[Key(c)]
    BY <1>1 DEF Records, Inv, RecordingHasReport
  <1>3. CASE records[Key(c)] \notin {None, record}
    BY <1>3, AbortKeeps DEF StoreRecord, Inv, TypeOK, repository
  <1>4. CASE records[Key(c)] \in {None, record}
    <2>1. /\ records' = [records EXCEPT ![Key(c)] = record]
          /\ Accept(c, report[c]) /\ NextPackage(c)
          /\ reports' = reports
          /\ UNCHANGED <<repository, executed, outcome, powerLost, budget>>
      BY <1>4 DEF StoreRecord
    <2> HIDE DEF record
    <2>2. records' \in [Keys -> Records \cup {None}]
      BY <1>1, <1>2, <2>1 DEF Inv, TypeOK
    <2>3. \A k \in Keys : records'[k] = records[k] \/ records'[k].report = reports'[k]
      BY <1>1, <1>2, <2>1 DEF Inv, TypeOK
    <2> QED
      BY <1>1, <2>1, <2>2, <2>3, NextPackageKeeps
  <1> QED
    BY <1>3, <1>4

LEMMA FailKeeps == ASSUME Inv, NEW c \in Campaigns, Fail(c) PROVE Inv'
  <1>1. budget' \in [DOMAIN Limits -> Nat]
    BY SpendType, LimitNames DEF Inv, TypeOK, Fail
  <1> QED
    BY <1>1, AbortKeeps DEF Fail

LEMMA KillKeeps == ASSUME Inv, NEW c \in Campaigns, Kill(c) PROVE Inv'
  <1>1. budget' \in [DOMAIN Limits -> Nat]
    BY SpendType, LimitNames DEF Inv, TypeOK, Kill
  <1>2. pc' \in [Campaigns -> Steps] /\ pc'[c] = "idle"
    BY DEF Inv, TypeOK, Kill, Goto, Steps
  <1>3. TypeOK'
    BY <1>1, <1>2, ForgetType DEF Inv, TypeOK, Kill, repository, evidence
  <1>4. Alone(c)
    BY ForgetType DEF Inv, Alone, Kill, Goto, TypeOK
  <1>5. Carried(c)'
    BY <1>2 DEF Carried, Keyed, Executed
  <1> QED
    BY <1>2, <1>3, <1>4, <1>5, Frame DEF Kill, evidence

\* A power loss ends every process, so no record is under way after it.
LEMMA PowerLossKeeps ==
    ASSUME Inv, NEW lostReports \in SUBSET Present(reports),
           NEW lostRecords \in SUBSET Present(records), PowerLoss(lostReports, lostRecords)
    PROVE  Inv'
  <1>1. budget' \in [DOMAIN Limits -> Nat]
    BY SpendType, LimitNames DEF Inv, TypeOK, PowerLoss
  <1>2. /\ pc' \in [Campaigns -> Steps]
        /\ \A c \in Campaigns : pc'[c] = "idle"
    BY DEF PowerLoss, Steps
  <1>3. /\ reports' \in [Keys -> Reports \cup {None}]
        /\ records' \in [Keys -> Records \cup {None}]
    BY DEF Inv, TypeOK, PowerLoss
  <1>4. TypeOK'
    BY <1>1, <1>2, <1>3 DEF Inv, TypeOK, PowerLoss, repository
  <1>5. powerLost'
    BY DEF PowerLoss
  <1> QED
    BY <1>2, <1>4, <1>5 DEF Inv, Carried, Keyed, Executed, RecordingHasReport, RecordHasReport

LEMMA EditKeeps == ASSUME Inv, NEW p \in Packages, NEW i \in Inputs, Edit(p, i) PROVE Inv'
  <1>1. budget' \in [DOMAIN Limits -> Nat]
    BY SpendType, LimitNames DEF Inv, TypeOK, Edit
  <1>2. tree' \in [Packages -> Inputs] /\ past' \in [Packages -> SUBSET Inputs]
    BY DEF Inv, TypeOK, Edit
  <1>3. UNCHANGED <<inventory, reports, records, pc, local, executed, accepted, outcome, powerLost>>
    BY DEF Edit, evidence
  <1>4. TypeOK'
    BY <1>1, <1>2, <1>3 DEF Inv, TypeOK, local
  <1> QED
    BY <1>3, <1>4 DEF Inv, Carried, RecordingHasReport, RecordHasReport, Key, package, local

LEMMA EditInventoryKeeps ==
    ASSUME Inv, NEW p \in Packages, NEW entry \in Reviews \cup {None}, EditInventory(p, entry)
    PROVE  Inv'
  <1>1. budget' \in [DOMAIN Limits -> Nat]
    BY SpendType, LimitNames DEF Inv, TypeOK, EditInventory
  <1>2. inventory' \in [Packages -> Reviews \cup {None}]
    BY DEF Inv, TypeOK, EditInventory
  <1>3. UNCHANGED <<tree, past, reports, records, pc, local, executed, accepted, outcome, powerLost>>
    BY DEF EditInventory, evidence
  <1>4. TypeOK'
    BY <1>1, <1>2, <1>3 DEF Inv, TypeOK, local
  <1> QED
    BY <1>3, <1>4 DEF Inv, Carried, RecordingHasReport, RecordHasReport, Key, package, local

-----------------------------------------------------------------------------

LEMMA InitEstablishes == ASSUME Init PROVE Inv
  <1>1. Limits \in [DOMAIN Limits -> Nat]
    BY CampaignAssumption DEF Limits
  <1>2. at \in [Campaigns -> DOMAIN Order]
    BY CampaignAssumption DEF Init
  <1>3. pc \in [Campaigns -> Steps] /\ \A c \in Campaigns : pc[c] = "idle"
    BY DEF Init, Steps
  <1>4. past \in [Packages -> SUBSET Inputs]
    BY DEF Init
  <1>5. outcome \in [Keys -> Reports]
    <2>1. NoResults \in [{} -> {"KILLED", "LIVED", "TIMED OUT"}]
      BY DEF NoResults
    <2>2. NoResults \in Reports
      BY <2>1 DEF Reports
    <2> QED
      BY <2>2 DEF Init
  <1>6. TypeOK
    BY <1>1, <1>2, <1>3, <1>4, <1>5 DEF Init, TypeOK
  <1> QED
    BY <1>3, <1>6 DEF Init, Inv, Carried, Keyed, Executed, RecordingHasReport, RecordHasReport

LEMMA AdvanceKeeps == ASSUME Inv, NEW c \in Campaigns, Advance(c) PROVE Inv'
  BY ReadSourceKeeps, HashRestKeeps, HashOwnKeeps, ConfirmKeeps, LookupKeeps, VerifyKeeps,
     PrepareKeeps, ExecuteKeeps, ReconfirmKeeps, StoreReportKeeps, StoreRecordKeeps DEF Advance

LEMMA StutterKeeps == ASSUME Inv, UNCHANGED vars PROVE Inv'
  BY DEF vars, repository, evidence, local, history, Inv, TypeOK, Carried,
         RecordingHasReport, RecordHasReport, Key, package

LEMMA NextKeeps == ASSUME Inv, [Next]_vars PROVE Inv'
  <1>1. CASE UNCHANGED vars
    BY <1>1, StutterKeeps
  <1>2. ASSUME NEW c \in Campaigns, Run(c) \/ Advance(c) \/ Fail(c) \/ Kill(c)
        PROVE  Inv'
    BY <1>2, RunKeeps, AdvanceKeeps, FailKeeps, KillKeeps
  <1> QED
    BY <1>1, <1>2, PowerLossKeeps, EditKeeps, EditInventoryKeeps DEF Next

\* What runPackage has in hand, and what the two directories hold, agree in
\* every reachable state (campaign.go:346-449).
THEOREM InvariantHolds == Spec => []Inv
  BY InitEstablishes, NextKeeps, PTL DEF Spec

\* A record never vouches for a missing or different report, for any number of
\* campaigns, kills and edits, short of a power loss (campaign.go:426-449).
THEOREM RecordedReportIsThere == Spec => []RecordHasReport
  <1>1. Inv => RecordHasReport
    BY DEF Inv
  <1> QED
    BY <1>1, InvariantHolds, PTL

\* No step of a campaign, an editor or the machine replaces published evidence
\* (report_store.go:109-121, evidence.go:321-334).
THEOREM EvidenceStays == Spec => EvidenceIsImmutable
  <1> DEFINE Kept == \A k \in Keys :
                /\ reports[k] # None => reports'[k] = reports[k] \/ (powerLost' /\ reports'[k] = None)
                /\ records[k] # None => records'[k] = records[k] \/ (powerLost' /\ records'[k] = None)
  <1>1. ASSUME UNCHANGED evidence PROVE Kept
    BY <1>1 DEF evidence
  <1>2. ASSUME Inv, NEW c \in Campaigns, StoreReport(c) PROVE Kept
    <2>1. Key(c) \in Keys
      BY <1>2, KeyType DEF Inv, Carried, Keyed, Executed, StoreReport
    <2> QED
      BY <1>2, <2>1 DEF StoreReport, Abort, evidence, Inv, TypeOK
  <1>3. ASSUME Inv, NEW c \in Campaigns, StoreRecord(c) PROVE Kept
    <2>1. Key(c) \in Keys
      BY <1>3, KeyType DEF Inv, Carried, Keyed, Executed, StoreRecord
    <2> QED
      BY <1>3, <2>1 DEF StoreRecord, Abort, evidence, Inv, TypeOK
  <1>4. ASSUME NEW c \in Campaigns, Advance(c), ~StoreReport(c), ~StoreRecord(c)
        PROVE  UNCHANGED evidence
    BY <1>4 DEF Advance, ReadSource, HashRest, HashOwn, Confirm, Lookup, Verify, Prepare,
                Execute, Reconfirm, Abort
  <1>5. ASSUME NEW c \in Campaigns, Run(c) \/ Fail(c) \/ Kill(c)
        PROVE  UNCHANGED evidence
    BY <1>5 DEF Run, Fail, Kill, Abort
  <1>6. ASSUME NEW lostReports, NEW lostRecords, PowerLoss(lostReports, lostRecords)
        PROVE  Kept
    BY <1>6 DEF PowerLoss
  <1>7. ASSUME NEW p, NEW i, Edit(p, i) \/ EditInventory(p, i)
        PROVE  UNCHANGED evidence
    BY <1>7 DEF Edit, EditInventory
  <1>8. ASSUME Inv, [Next]_vars PROVE [Kept]_evidence
    <2>1. CASE UNCHANGED vars
      BY <2>1 DEF vars
    <2> QED
      BY <1>1, <1>2, <1>3, <1>4, <1>5, <1>6, <1>7, <1>8, <2>1 DEF Next
  <1> QED
    BY <1>8, InvariantHolds, PTL DEF Spec, EvidenceIsImmutable

-----------------------------------------------------------------------------
(* Where evidence comes from.  The code compares what it reads before and  *)
(* after the tool ran with what it hashed; that shows what the tool saw    *)
(* only if no content came back in between, which is ~Reverting: no digest *)
(* comparison can tell an edit that is undone from no edit.                *)

\* The sources, and the rests, of contents.
SourcesOf(contents) == {i.source : i \in contents}
RestsOf(contents) == {i.rest : i \in contents}

\* What runPackage has read was there, and at "confirm" the source that was
\* hashed lies between two reads of the source digest.
Observed(c) ==
    /\ pc[c] \in {"hash", "own", "confirm"} => source[c] \in SourcesOf(past[package(c)])
    /\ pc[c] \in {"own", "confirm"} => hashed[c].rest \in RestsOf(past[package(c)])
    /\ pc[c] = "confirm" => /\ hashed[c].source \in SourcesOf(past[package(c)])
                            /\ tree[package(c)].source = source[c] => hashed[c].source = source[c]
    /\ pc[c] \in Keyed => /\ input[c].source \in SourcesOf(past[package(c)])
                          /\ input[c].rest \in RestsOf(past[package(c)])

\* The review at hand is the one of the loaded inventory, for this input.
Selected(c) ==
    pc[c] \in Keyed =>
        /\ review[c] = policy[c][package(c)]
        /\ review[c] # None => review[c].source = input[c].source

\* The tool ran on this content, which can differ from the selected input
\* only in a part that has been edited for good, before the second pass
\* reads that part.
RanOn(c, content) ==
    /\ [key |-> [package |-> package(c), input |-> content], report |-> report[c]] \in executed
    /\ tree[package(c)].source = input[c].source => content.source = input[c].source
    /\ tree[package(c)].rest = input[c].rest => content.rest = input[c].rest
    /\ pc[c] \in {"reown", "reconfirm"} /\ hashed[c].rest = input[c].rest => content.rest = input[c].rest
    /\ pc[c] = "reconfirm" /\ hashed[c].source = input[c].source => content.source = input[c].source
    /\ pc[c] \in {"report", "record"} => content = input[c]

Backed(c) ==
    pc[c] \in Executed =>
        /\ Valid(report[c], review[c])
        /\ \E content \in Inputs : RanOn(c, content)

Sound(c) == Observed(c) /\ Selected(c) /\ Backed(c)

\* What a package may be accepted on.
Proven(a, entry, runs) ==
    /\ [key |-> a.key, report |-> a.report] \in runs
    /\ a.review = entry
    /\ Valid(a.report, a.review)
    /\ a.review # None => a.review.source = a.key.input.source

\* The inductive invariant behind EvidenceWasExecuted, AcceptedIsProved and
\* ReviewBindsInput.
Provenance ==
    /\ Inv
    /\ \A p \in Packages : tree[p] \in past[p]
    /\ \A c \in Campaigns : Sound(c)
    /\ EvidenceWasExecuted
    /\ \A c \in Campaigns : \A a \in accepted[c] :
          /\ a.key.package \in Packages
          /\ Proven(a, policy[c][a.key.package], executed)

\* Also review, policy and accepted of the other processes are left alone.
Apart(c) ==
    \A d \in Campaigns \ {c} :
        /\ pc'[d] = pc[d] /\ at'[d] = at[d] /\ source'[d] = source[d]
        /\ hashed'[d] = hashed[d] /\ input'[d] = input[d] /\ report'[d] = report[d]
        /\ review'[d] = review[d] /\ policy'[d] = policy[d] /\ accepted'[d] = accepted[d]

\* A process that nobody disturbs stays sound, whatever else is executed.
LEMMA ApartIsSound ==
    ASSUME NEW c \in Campaigns, Sound(c), UNCHANGED <<tree, past>>, executed \subseteq executed',
           pc'[c] = pc[c], at'[c] = at[c], source'[c] = source[c], hashed'[c] = hashed[c],
           input'[c] = input[c], report'[c] = report[c], review'[c] = review[c], policy'[c] = policy[c]
    PROVE  Sound(c)'
  <1>1. Observed(c)'
    BY DEF Sound, Observed, package
  <1>2. Selected(c)'
    BY DEF Sound, Selected, package
  <1>3. Backed(c)'
    <2>1. SUFFICES ASSUME pc[c] \in Executed
                   PROVE  /\ Valid(report[c], review[c])'
                          /\ (\E content \in Inputs : RanOn(c, content))'
      BY DEF Backed
    <2>2. Valid(report[c], review[c])'
      BY <2>1 DEF Sound, Backed, Valid, Expected
    <2>3. PICK content \in Inputs : RanOn(c, content)
      BY <2>1 DEF Sound, Backed
    <2>4. RanOn(c, content)'
      BY <2>3 DEF RanOn, package
    <2> QED
      BY <2>2, <2>4
  <1> QED
    BY <1>1, <1>2, <1>3 DEF Sound

\* What a step of one process has to keep for the rest of Provenance to hold.
LEMMA ProvenanceFrame ==
    ASSUME Provenance, Inv', NEW c \in Campaigns, Apart(c), Sound(c)',
           UNCHANGED <<tree, past>>, executed \subseteq executed',
           \A k \in Keys : reports'[k] \in {reports[k], None}
                             \/ [key |-> k, report |-> reports'[k]] \in executed',
           \A a \in accepted'[c] : /\ a.key.package \in Packages
                                   /\ Proven(a, policy'[c][a.key.package], executed')
    PROVE  Provenance'
  <1>1. \A d \in Campaigns : Sound(d)'
    <2>1. ASSUME NEW d \in Campaigns, d # c PROVE Sound(d)'
      BY <2>1, ApartIsSound DEF Provenance, Apart
    <2> QED
      BY <2>1
  <1>2. EvidenceWasExecuted'
    BY DEF Provenance, EvidenceWasExecuted
  <1>3. ASSUME NEW d \in Campaigns, NEW a \in accepted'[d]
        PROVE  /\ a.key.package \in Packages
               /\ Proven(a, policy'[d][a.key.package], executed')
    <2>1. CASE d # c
      <3>1. accepted'[d] = accepted[d] /\ policy'[d] = policy[d]
        BY <2>1 DEF Apart
      <3>2. a.key.package \in Packages /\ Proven(a, policy[d][a.key.package], executed)
        BY <1>3, <3>1 DEF Provenance
      <3> QED
        BY <3>1, <3>2 DEF Proven
    <2> QED
      BY <1>3, <2>1
  <1>4. \A p \in Packages : tree'[p] \in past'[p]
    BY DEF Provenance
  <1> QED
    BY <1>1, <1>2, <1>3, <1>4 DEF Provenance

\* Nothing is at hand between two packages and after the end.
LEMMA NothingAtHand ==
    ASSUME NEW c \in Campaigns, pc'[c] \in {"idle", "source", "passed", "failed"}
    PROVE  Sound(c)'
  BY DEF Sound, Observed, Selected, Backed, Keyed, Executed

LEMMA AbortIsSound ==
    ASSUME Provenance, Inv', NEW c \in Campaigns, Abort(c), UNCHANGED <<repository, outcome, powerLost>>
    PROVE  Provenance'
  <1>1. Apart(c) /\ pc'[c] = "failed"
    BY ForgetType DEF Provenance, Inv, TypeOK, Apart, Abort, Goto, Forget
  <1>2. Sound(c)'
    BY <1>1, NothingAtHand
  <1>3. \A a \in accepted'[c] : a.key.package \in Packages /\ Proven(a, policy'[c][a.key.package], executed')
    BY DEF Provenance, Abort
  <1> QED
    BY <1>1, <1>2, <1>3, ProvenanceFrame DEF Abort, evidence, repository

LEMMA RunIsSound == ASSUME Provenance, Inv', NEW c \in Campaigns, Run(c) PROVE Provenance'
  <1>1. Apart(c) /\ pc'[c] = "source" /\ accepted'[c] = {}
    BY ForgetType DEF Provenance, Inv, TypeOK, Apart, Run, Goto, Forget
  <1>2. Sound(c)'
    BY <1>1, NothingAtHand
  <1> QED
    BY <1>1, <1>2, ProvenanceFrame DEF Run, evidence, repository

LEMMA ReadSourceIsSound == ASSUME Provenance, Inv', NEW c \in Campaigns, ReadSource(c) PROVE Provenance'
  <1> DEFINE p == package(c)
  <1>1. /\ pc[c] \in {"source", "resource"}
        /\ pc'[c] = IF pc[c] = "source" THEN "hash" ELSE "rehash"
        /\ source'[c] = tree[p].source
        /\ UNCHANGED <<repository, evidence, history, at, policy, hashed, input, review, report, found, tool>>
    BY DEF Provenance, Inv, TypeOK, ReadSource, Goto
  <1>2. Apart(c)
    BY DEF Provenance, Inv, TypeOK, ReadSource, Goto, Apart, history
  <1>3. p \in Packages /\ package(c)' = p /\ tree[p].source \in SourcesOf(past[p])
    BY <1>1, KeyType DEF Provenance, Inv, SourcesOf, package
  <1>4. Observed(c)'
    BY <1>1, <1>3 DEF Provenance, Sound, Observed, Keyed, Executed, repository
  <1>5. Selected(c)'
    BY <1>1, <1>3 DEF Provenance, Sound, Selected, Keyed, Executed
  <1>6. Backed(c)'
    <2>1. CASE pc[c] = "source"
      BY <1>1, <2>1 DEF Backed, Executed
    <2>2. CASE pc[c] = "resource"
      <3>1. PICK content \in Inputs : RanOn(c, content)
        BY <2>2 DEF Provenance, Sound, Backed, Executed
      <3>2. RanOn(c, content)'
        BY <1>1, <1>3, <2>2, <3>1 DEF RanOn, repository, history
      <3>3. Valid(report[c], review[c])'
        BY <1>1, <2>2 DEF Provenance, Sound, Backed, Executed, Valid, Expected
      <3> QED
        BY <3>2, <3>3 DEF Backed
    <2> QED
      BY <1>1, <2>1, <2>2
  <1>7. \A a \in accepted'[c] : a.key.package \in Packages /\ Proven(a, policy'[c][a.key.package], executed')
    BY <1>1 DEF Provenance, history
  <1> QED
    BY <1>1, <1>2, <1>4, <1>5, <1>6, <1>7, ProvenanceFrame DEF Sound, evidence, repository, history

LEMMA HashRestIsSound == ASSUME Provenance, Inv', NEW c \in Campaigns, HashRest(c) PROVE Provenance'
  <1> DEFINE p == package(c)
  <1>1. /\ pc[c] \in {"hash", "rehash"}
        /\ pc'[c] = IF pc[c] = "hash" THEN "own" ELSE "reown"
        /\ hashed'[c] = [source |-> source[c], rest |-> tree[p].rest]
        /\ UNCHANGED <<repository, evidence, history, at, policy, source, input, review, report, found, tool>>
    BY DEF Provenance, Inv, TypeOK, HashRest, Goto
  <1>2. Apart(c)
    BY DEF Provenance, Inv, TypeOK, HashRest, Goto, Apart, history
  <1>3. p \in Packages /\ package(c)' = p /\ tree[p].rest \in RestsOf(past[p])
    BY <1>1, KeyType DEF Provenance, Inv, RestsOf, package
  <1>4. Observed(c)'
    BY <1>1, <1>3 DEF Provenance, Sound, Observed, Keyed, Executed, repository
  <1>5. Selected(c)'
    BY <1>1, <1>3 DEF Provenance, Sound, Selected, Keyed, Executed
  <1>6. Backed(c)'
    <2>1. CASE pc[c] = "hash"
      BY <1>1, <2>1 DEF Backed, Executed
    <2>2. CASE pc[c] = "rehash"
      <3>1. PICK content \in Inputs : RanOn(c, content)
        BY <2>2 DEF Provenance, Sound, Backed, Executed
      <3>2. RanOn(c, content)'
        BY <1>1, <1>3, <2>2, <3>1 DEF RanOn, repository, history
      <3>3. Valid(report[c], review[c])'
        BY <1>1, <2>2 DEF Provenance, Sound, Backed, Executed, Valid, Expected
      <3> QED
        BY <3>2, <3>3 DEF Backed
    <2> QED
      BY <1>1, <2>1, <2>2
  <1>7. \A a \in accepted'[c] : a.key.package \in Packages /\ Proven(a, policy'[c][a.key.package], executed')
    BY <1>1 DEF Provenance, history
  <1> QED
    BY <1>1, <1>2, <1>4, <1>5, <1>6, <1>7, ProvenanceFrame DEF Sound, evidence, repository, history

LEMMA HashOwnIsSound == ASSUME Provenance, Inv', NEW c \in Campaigns, HashOwn(c) PROVE Provenance'
  <1> DEFINE p == package(c)
  <1>1. /\ pc[c] \in {"own", "reown"}
        /\ pc'[c] = IF pc[c] = "own" THEN "confirm" ELSE "reconfirm"
        /\ hashed'[c] = [source |-> tree[p].source, rest |-> hashed[c].rest]
        /\ UNCHANGED <<repository, evidence, history, at, policy, source, input, review, report, found, tool>>
    BY DEF Provenance, Inv, TypeOK, HashOwn, Goto
  <1>2. Apart(c)
    BY DEF Provenance, Inv, TypeOK, HashOwn, Goto, Apart, history
  <1>3. p \in Packages /\ package(c)' = p /\ tree[p].source \in SourcesOf(past[p])
    BY <1>1, KeyType DEF Provenance, Inv, SourcesOf, package
  <1>4. Observed(c)'
    BY <1>1, <1>3 DEF Provenance, Sound, Observed, Keyed, Executed, repository
  <1>5. Selected(c)'
    BY <1>1, <1>3 DEF Provenance, Sound, Selected, Keyed, Executed
  <1>6. Backed(c)'
    <2>1. CASE pc[c] = "own"
      BY <1>1, <2>1 DEF Backed, Executed
    <2>2. CASE pc[c] = "reown"
      <3>1. PICK content \in Inputs : RanOn(c, content)
        BY <2>2 DEF Provenance, Sound, Backed, Executed
      <3>2. RanOn(c, content)'
        BY <1>1, <1>3, <2>2, <3>1 DEF RanOn, repository, history
      <3>3. Valid(report[c], review[c])'
        BY <1>1, <2>2 DEF Provenance, Sound, Backed, Executed, Valid, Expected
      <3> QED
        BY <3>2, <3>3 DEF Backed
    <2> QED
      BY <1>1, <2>1, <2>2
  <1>7. \A a \in accepted'[c] : a.key.package \in Packages /\ Proven(a, policy'[c][a.key.package], executed')
    BY <1>1 DEF Provenance, history
  <1> QED
    BY <1>1, <1>2, <1>4, <1>5, <1>6, <1>7, ProvenanceFrame DEF Sound, evidence, repository, history

\* The source has not moved between the two reads of its digest, so the one
\* that was hashed in between is the one that selected the review.
LEMMA ConfirmIsSound == ASSUME Provenance, Inv', NEW c \in Campaigns, Confirm(c) PROVE Provenance'
  <1> DEFINE p == package(c)
             entry == policy[c][p]
  <1>1. CASE SourceMoved(c) \/ Drifted(entry, source[c])
    BY <1>1, AbortIsSound DEF Confirm
  <1>2. CASE ~(SourceMoved(c) \/ Drifted(entry, source[c]))
    <2>1. /\ pc[c] = "confirm" /\ pc'[c] = "lookup"
          /\ input'[c] = hashed[c] /\ review'[c] = entry
          /\ UNCHANGED <<repository, evidence, executed, accepted, at, policy, report, found, tool, outcome, powerLost, budget>>
      BY <1>2 DEF Provenance, Inv, TypeOK, Confirm, Goto
    <2>2. Apart(c)
      BY <1>2 DEF Provenance, Inv, TypeOK, Confirm, Goto, Apart
    <2>3. package(c)' = p
      BY <2>1 DEF package
    <2>4. Observed(c)'
      BY <2>1, <2>3 DEF Provenance, Sound, Observed, repository
    <2>5. hashed[c].source = source[c]
      BY <1>2, <2>1 DEF Provenance, Sound, Observed, SourceMoved
    <2>6. Selected(c)'
      BY <1>2, <2>1, <2>3, <2>5 DEF Selected, Drifted
    <2>7. Backed(c)'
      BY <2>1 DEF Backed, Executed
    <2>8. \A a \in accepted'[c] : a.key.package \in Packages /\ Proven(a, policy'[c][a.key.package], executed')
      BY <2>1 DEF Provenance
    <2> QED
      BY <2>1, <2>2, <2>4, <2>6, <2>7, <2>8, ProvenanceFrame DEF Sound, evidence, repository
  <1> QED
    BY <1>1, <1>2

LEMMA LookupIsSound == ASSUME Provenance, Inv', NEW c \in Campaigns, Lookup(c) PROVE Provenance'
  <1>1. /\ pc[c] = "lookup" /\ pc'[c] \in {"prepare", "verify"}
        /\ UNCHANGED <<repository, evidence, history, at, policy, source, hashed, input, review, report, tool>>
    BY DEF Provenance, Inv, TypeOK, Lookup, Goto
  <1>2. Apart(c)
    BY DEF Provenance, Inv, TypeOK, Lookup, Goto, Apart, history
  <1>3. package(c)' = package(c)
    BY <1>1 DEF package
  <1>4. Observed(c)' /\ Selected(c)' /\ Backed(c)'
    BY <1>1, <1>3 DEF Provenance, Sound, Observed, Selected, Backed, Keyed, Executed, repository
  <1>5. \A a \in accepted'[c] : a.key.package \in Packages /\ Proven(a, policy'[c][a.key.package], executed')
    BY <1>1 DEF Provenance, history
  <1> QED
    BY <1>1, <1>2, <1>4, <1>5, ProvenanceFrame DEF Sound, evidence, repository, history

LEMMA PrepareIsSound == ASSUME Provenance, Inv', NEW c \in Campaigns, Prepare(c) PROVE Provenance'
  <1>1. /\ pc[c] = "prepare" /\ pc'[c] = "execute"
        /\ UNCHANGED <<repository, evidence, history, at, policy, source, hashed, input, review, report, found>>
    BY DEF Provenance, Inv, TypeOK, Prepare, Goto
  <1>2. Apart(c)
    BY DEF Provenance, Inv, TypeOK, Prepare, Goto, Apart, history
  <1>3. package(c)' = package(c)
    BY <1>1 DEF package
  <1>4. Observed(c)' /\ Selected(c)' /\ Backed(c)'
    BY <1>1, <1>3 DEF Provenance, Sound, Observed, Selected, Backed, Keyed, Executed, repository
  <1>5. \A a \in accepted'[c] : a.key.package \in Packages /\ Proven(a, policy'[c][a.key.package], executed')
    BY <1>1 DEF Provenance, history
  <1> QED
    BY <1>1, <1>2, <1>4, <1>5, ProvenanceFrame DEF Sound, evidence, repository, history

\* A package that ends well, on a report that was executed and is valid.
LEMMA AcceptIsSound ==
    ASSUME Provenance, Inv', NEW c \in Campaigns, NEW raw, pc[c] \in Keyed,
           Accept(c, raw), NextPackage(c), UNCHANGED <<repository, reports, executed>>,
           [key |-> Key(c), report |-> raw] \in executed, Valid(raw, review[c])
    PROVE  Provenance'
  <1> DEFINE new == [key |-> Key(c), report |-> raw, review |-> review[c]]
  <1>1. Apart(c) /\ pc'[c] \in {"source", "passed"} /\ policy' = policy
    BY NextPackageType, ForgetType DEF Provenance, Inv, TypeOK, Apart, Accept, Forget
  <1>2. Sound(c)'
    BY <1>1, NothingAtHand
  <1>3. accepted'[c] = accepted[c] \cup {new}
    BY DEF Provenance, Inv, TypeOK, Accept
  <1>4. new.key.package = package(c) /\ new.key.input = input[c] /\ package(c) \in Packages
    BY KeyType DEF Provenance, Inv, Key
  <1>5. Proven(new, policy[c][package(c)], executed)
    BY <1>4 DEF Provenance, Sound, Selected, Proven
  <1> HIDE DEF new
  <1>6. \A a \in accepted'[c] : a.key.package \in Packages /\ Proven(a, policy'[c][a.key.package], executed')
    BY <1>1, <1>3, <1>4, <1>5 DEF Provenance
  <1> QED
    BY <1>1, <1>2, <1>6, ProvenanceFrame DEF repository

LEMMA VerifyIsSound == ASSUME Provenance, Inv', NEW c \in Campaigns, Verify(c) PROVE Provenance'
  <1> DEFINE raw == reports[Key(c)]
             good == raw # None /\ Valid(raw, review[c]) /\ raw = found[c].report
  <1>1. CASE ~good
    BY <1>1, AbortIsSound DEF Verify
  <1>2. CASE good
    <2>1. Key(c) \in Keys /\ pc[c] \in Keyed
      BY KeyType DEF Provenance, Inv, Carried, Keyed, Verify
    <2>2. [key |-> Key(c), report |-> raw] \in executed
      BY <1>2, <2>1 DEF Provenance, EvidenceWasExecuted
    <2>3. Accept(c, raw) /\ NextPackage(c) /\ UNCHANGED <<evidence, executed, repository>>
      BY <1>2 DEF Verify
    <2>4. UNCHANGED <<repository, reports, executed>>
      BY <2>3 DEF evidence
    <2> HIDE DEF raw
    <2> QED
      BY <1>2, <2>1, <2>2, <2>3, <2>4, AcceptIsSound
  <1> QED
    BY <1>1, <1>2

\* The tool sees what is there now.
LEMMA ExecuteIsSound == ASSUME Provenance, Inv', NEW c \in Campaigns, Execute(c) PROVE Provenance'
  <1> DEFINE p == package(c)
  <1>0. PICK content : content = tree[p]
    OBVIOUS
  <1> DEFINE ran == [package |-> p, input |-> content]
  <1>1. PICK raw : IF Tolerated(raw, review[c]) /\ Valid(raw, review[c])
            THEN /\ report' = [report EXCEPT ![c] = raw]
                 /\ executed' = executed \cup {[key |-> ran, report |-> raw]}
                 /\ Goto(c, "resource")
                 /\ UNCHANGED <<evidence, accepted, at, policy, source, hashed, input, review, found, tool>>
            ELSE Abort(c)
    BY <1>0 DEF Execute
  <1>2. pc[c] = "execute" /\ UNCHANGED <<repository, outcome, powerLost, budget>>
    BY DEF Execute
  <1>3. CASE ~(Tolerated(raw, review[c]) /\ Valid(raw, review[c]))
    BY <1>1, <1>2, <1>3, AbortIsSound
  <1>4. CASE Tolerated(raw, review[c]) /\ Valid(raw, review[c])
    <2>1. /\ report'[c] = raw /\ pc'[c] = "resource"
          /\ executed' = executed \cup {[key |-> ran, report |-> raw]}
          /\ UNCHANGED <<repository, evidence, accepted, at, policy, source, hashed, input, review, found, tool>>
      BY <1>1, <1>2, <1>4 DEF Provenance, Inv, TypeOK, Goto
    <2>2. Apart(c)
      BY <1>1, <1>4 DEF Provenance, Inv, TypeOK, Goto, Apart
    <2>3. package(c)' = p /\ content \in Inputs
      BY <1>0, <2>1, KeyType DEF package, Provenance, Inv, TypeOK
    <2>4. Observed(c)' /\ Selected(c)'
      BY <1>2, <2>1, <2>3 DEF Provenance, Sound, Observed, Selected, Keyed, Executed, repository
    <2>5. RanOn(c, content)'
      BY <1>0, <2>1, <2>3 DEF RanOn, repository
    <2>6. Valid(report[c], review[c])'
      BY <1>4, <2>1 DEF Valid, Expected
    <2>7. Backed(c)'
      BY <2>3, <2>5, <2>6 DEF Backed
    <2>8. executed \subseteq executed'
      BY <2>1
    <2>9. \A a \in accepted'[c] : a.key.package \in Packages /\ Proven(a, policy'[c][a.key.package], executed')
      BY <2>1, <2>8 DEF Provenance, Proven
    <2> QED
      BY <2>1, <2>2, <2>4, <2>7, <2>8, <2>9, ProvenanceFrame DEF Sound, evidence, repository
  <1> QED
    BY <1>3, <1>4

\* Both passes found the same input, so the tool ran on exactly that.
LEMMA ReconfirmIsSound == ASSUME Provenance, Inv', NEW c \in Campaigns, Reconfirm(c) PROVE Provenance'
  <1> DEFINE p == package(c)
             moved == SourceMoved(c) \/ Drifted(policy[c][p], source[c]) \/ hashed[c] # input[c]
  <1>1. CASE moved
    BY <1>1, AbortIsSound DEF Reconfirm
  <1>2. CASE ~moved
    <2>1. /\ pc[c] = "reconfirm" /\ pc'[c] = "report" /\ hashed[c] = input[c]
          /\ UNCHANGED <<repository, evidence, executed, accepted, at, policy, input, review, report, found, tool>>
      BY <1>2 DEF Provenance, Inv, TypeOK, Reconfirm, Goto
    <2>2. Apart(c)
      BY <1>2 DEF Provenance, Inv, TypeOK, Reconfirm, Goto, Apart
    <2>3. package(c)' = p
      BY <2>1 DEF package
    <2>4. Observed(c)' /\ Selected(c)'
      BY <2>1, <2>3 DEF Provenance, Sound, Observed, Selected, Keyed, Executed, repository
    <2>5. PICK content \in Inputs : RanOn(c, content)
      BY <2>1 DEF Provenance, Sound, Backed, Executed
    <2>6. content.source = input[c].source /\ content.rest = input[c].rest
      BY <2>1, <2>5 DEF RanOn
    <2>7. input[c] \in Inputs
      BY <2>1 DEF Provenance, Inv, Carried, Keyed, Executed, TypeOK
    <2>8. content = input[c]
      BY <2>6, <2>7 DEF Inputs
    <2>9. RanOn(c, content)'
      BY <2>1, <2>3, <2>5, <2>8 DEF RanOn
    <2>10. Valid(report[c], review[c])'
      BY <2>1 DEF Provenance, Sound, Backed, Executed, Valid, Expected
    <2>11. Backed(c)'
      BY <2>9, <2>10 DEF Backed
    <2>12. \A a \in accepted'[c] : a.key.package \in Packages /\ Proven(a, policy'[c][a.key.package], executed')
      BY <2>1 DEF Provenance
    <2> QED
      BY <2>1, <2>2, <2>4, <2>11, <2>12, ProvenanceFrame DEF Sound, evidence, repository
  <1> QED
    BY <1>1, <1>2

\* A report that is about to be published, or recorded, was executed.
LEMMA ReportWasExecuted ==
    ASSUME Provenance, NEW c \in Campaigns, pc[c] \in {"report", "record"}
    PROVE  /\ [key |-> Key(c), report |-> report[c]] \in executed
           /\ Valid(report[c], review[c])
  BY DEF Provenance, Sound, Backed, RanOn, Executed, Key

LEMMA StoreReportIsSound == ASSUME Provenance, Inv', NEW c \in Campaigns, StoreReport(c) PROVE Provenance'
  <1>1. pc[c] = "report"
    BY DEF StoreReport
  <1>2. CASE reports[Key(c)] \notin {None, report[c]}
    BY <1>2, AbortIsSound DEF StoreReport
  <1>3. CASE reports[Key(c)] \in {None, report[c]}
    <2>1. /\ reports' = [reports EXCEPT ![Key(c)] = report[c]] /\ pc'[c] = "record"
          /\ UNCHANGED <<records, local, executed, accepted, repository, outcome, powerLost, budget>>
      BY <1>3 DEF Provenance, Inv, TypeOK, StoreReport, Goto
    <2>2. Apart(c)
      BY <1>3 DEF Provenance, Inv, TypeOK, StoreReport, Goto, Apart, local
    <2>3. package(c)' = package(c)
      BY <2>1 DEF package, local
    <2>4. Observed(c)' /\ Selected(c)'
      BY <1>1, <2>1, <2>3 DEF Provenance, Sound, Observed, Selected, Keyed, Executed, repository, local
    <2>5. PICK content \in Inputs : RanOn(c, content)
      BY <1>1 DEF Provenance, Sound, Backed, Executed
    <2>6. RanOn(c, content)'
      BY <1>1, <2>1, <2>3, <2>5 DEF RanOn, repository, local
    <2>7. Valid(report[c], review[c])'
      BY <1>1, <2>1, ReportWasExecuted DEF Valid, Expected, local
    <2>8. Backed(c)'
      BY <2>6, <2>7 DEF Backed
    <2>9. \A k \in Keys : reports'[k] \in {reports[k], None} \/ [key |-> k, report |-> reports'[k]] \in executed'
      BY <1>1, <2>1, ReportWasExecuted DEF Provenance, Inv, TypeOK
    <2>10. \A a \in accepted'[c] : a.key.package \in Packages /\ Proven(a, policy'[c][a.key.package], executed')
      BY <2>1 DEF Provenance, local
    <2> QED
      BY <2>1, <2>2, <2>4, <2>8, <2>9, <2>10, ProvenanceFrame DEF Sound, repository
  <1> QED
    BY <1>2, <1>3

LEMMA StoreRecordIsSound == ASSUME Provenance, Inv', NEW c \in Campaigns, StoreRecord(c) PROVE Provenance'
  <1> DEFINE record == [report |-> report[c], tool |-> tool[c]]
  <1>1. pc[c] = "record" /\ pc[c] \in Keyed
    BY DEF StoreRecord, Keyed, Executed
  <1>2. CASE records[Key(c)] \notin {None, record}
    BY <1>2, AbortIsSound DEF StoreRecord
  <1>3. CASE records[Key(c)] \in {None, record}
    BY <1>1, <1>3, ReportWasExecuted, AcceptIsSound DEF StoreRecord
  <1> QED
    BY <1>2, <1>3

LEMMA FailIsSound == ASSUME Provenance, Inv', NEW c \in Campaigns, Fail(c) PROVE Provenance'
  <1>1. Apart(c) /\ pc'[c] = "failed"
    BY ForgetType DEF Provenance, Inv, TypeOK, Apart, Fail, Abort, Goto, Forget
  <1>2. Sound(c)'
    BY <1>1, NothingAtHand
  <1>3. \A a \in accepted'[c] : a.key.package \in Packages /\ Proven(a, policy'[c][a.key.package], executed')
    BY DEF Provenance, Fail, Abort
  <1> QED
    BY <1>1, <1>2, <1>3, ProvenanceFrame DEF Fail, Abort, evidence, repository

LEMMA KillIsSound == ASSUME Provenance, Inv', NEW c \in Campaigns, Kill(c) PROVE Provenance'
  <1>1. Apart(c) /\ pc'[c] = "idle"
    BY ForgetType DEF Provenance, Inv, TypeOK, Apart, Kill, Goto, Forget
  <1>2. Sound(c)'
    BY <1>1, NothingAtHand
  <1>3. \A a \in accepted'[c] : a.key.package \in Packages /\ Proven(a, policy'[c][a.key.package], executed')
    BY DEF Provenance, Kill
  <1> QED
    BY <1>1, <1>2, <1>3, ProvenanceFrame DEF Kill, evidence, repository

LEMMA PowerLossIsSound ==
    ASSUME Provenance, Inv', NEW lostReports, NEW lostRecords, PowerLoss(lostReports, lostRecords)
    PROVE  Provenance'
  <1>1. \A c \in Campaigns : Sound(c)'
    <2>1. ASSUME NEW c \in Campaigns PROVE pc'[c] = "idle"
      BY DEF PowerLoss
    <2> QED
      BY <2>1, NothingAtHand
  <1>2. EvidenceWasExecuted'
    BY DEF Provenance, EvidenceWasExecuted, PowerLoss
  <1> QED
    BY <1>1, <1>2 DEF Provenance, PowerLoss, repository

\* An edit brings nothing back: what is there again after it was there before.
LEMMA EditBringsNothingBack ==
    ASSUME Provenance, ~Reverting, NEW p \in Packages, NEW i \in Inputs, Edit(p, i), NEW q \in Packages
    PROVE  /\ SourcesOf(past[q]) \subseteq SourcesOf(past'[q])
           /\ RestsOf(past[q]) \subseteq RestsOf(past'[q])
           /\ \A s \in SourcesOf(past[q]) : tree'[q].source = s => tree[q].source = s
           /\ \A r \in RestsOf(past[q]) : tree'[q].rest = r => tree[q].rest = r
  <1>1. /\ tree' = [tree EXCEPT ![p] = i]
        /\ past' = [past EXCEPT ![p] = past[p] \cup {i}]
        /\ \A old \in past[p] : /\ i.source = old.source => i.source = tree[p].source
                                /\ i.rest = old.rest => i.rest = tree[p].rest
    BY DEF Provenance, Inv, TypeOK, Edit
  <1> QED
    BY <1>1 DEF Provenance, Inv, TypeOK, SourcesOf, RestsOf

LEMMA EditIsSound ==
    ASSUME Provenance, Inv', ~Reverting, NEW p \in Packages, NEW i \in Inputs, Edit(p, i)
    PROVE  Provenance'
  <1>1. UNCHANGED <<inventory, reports, records, pc, at, policy, source, hashed, input, review, report,
                    found, tool, executed, accepted>>
    BY DEF Edit, evidence, local
  <1>2. \A q \in Packages : tree'[q] \in past'[q]
    BY DEF Provenance, Inv, TypeOK, Edit
  <1>3. ASSUME NEW c \in Campaigns PROVE Sound(c)'
    <2>1. package(c)' = package(c) /\ package(c) \in Packages
      BY <1>1, KeyType DEF Provenance, Inv, package
    <2>2. /\ SourcesOf(past[package(c)]) \subseteq SourcesOf(past'[package(c)])
          /\ RestsOf(past[package(c)]) \subseteq RestsOf(past'[package(c)])
          /\ \A s \in SourcesOf(past[package(c)]) : tree'[package(c)].source = s => tree[package(c)].source = s
          /\ \A r \in RestsOf(past[package(c)]) : tree'[package(c)].rest = r => tree[package(c)].rest = r
      BY <2>1, EditBringsNothingBack
    <2>3. Observed(c)
      BY DEF Provenance, Sound
    <2>4. Observed(c)'
      BY <1>1, <2>1, <2>2, <2>3 DEF Observed
    <2>5. Selected(c)'
      BY <1>1, <2>1 DEF Provenance, Sound, Selected
    <2>6. Backed(c)'
      <3>1. CASE pc[c] \in Executed
        <4>1. PICK content \in Inputs : RanOn(c, content)
          BY <3>1 DEF Provenance, Sound, Backed
        <4>2. input[c].source \in SourcesOf(past[package(c)]) /\ input[c].rest \in RestsOf(past[package(c)])
          BY <2>3, <3>1 DEF Observed, Keyed
        <4>3. RanOn(c, content)'
          BY <1>1, <2>1, <2>2, <4>1, <4>2 DEF RanOn
        <4>4. Valid(report[c], review[c])'
          BY <1>1, <3>1 DEF Provenance, Sound, Backed, Valid, Expected
        <4> QED
          BY <4>3, <4>4 DEF Backed
      <3>2. CASE pc[c] \notin Executed
        BY <1>1, <3>2 DEF Backed
      <3> QED
        BY <3>1, <3>2
    <2> QED
      BY <2>4, <2>5, <2>6 DEF Sound
  <1> QED
    BY <1>1, <1>2, <1>3 DEF Provenance, EvidenceWasExecuted

LEMMA EditInventoryIsSound ==
    ASSUME Provenance, Inv', NEW p, NEW entry, EditInventory(p, entry)
    PROVE  Provenance'
  <1>1. UNCHANGED <<tree, past, reports, records, pc, at, policy, source, hashed, input, review, report,
                    found, tool, executed, accepted>>
    BY DEF EditInventory, evidence, local
  <1>2. \A c \in Campaigns : Sound(c)'
    BY <1>1, ApartIsSound DEF Provenance
  <1> QED
    BY <1>1, <1>2 DEF Provenance, EvidenceWasExecuted

LEMMA InitIsSound == ASSUME Init PROVE Provenance
  <1>1. Inv
    BY InitEstablishes
  <1>2. \A p \in Packages : tree[p] \in past[p]
    BY DEF Init
  <1>3. \A c \in Campaigns : Sound(c)
    BY DEF Init, Sound, Observed, Selected, Backed, Keyed, Executed
  <1> QED
    BY <1>1, <1>2, <1>3 DEF Init, Provenance, EvidenceWasExecuted

LEMMA NextIsSound == ASSUME Provenance, ~Reverting, [Next]_vars PROVE Provenance'
  <1>1. Inv'
    BY NextKeeps DEF Provenance
  <1>2. CASE UNCHANGED vars
    <2>1. UNCHANGED <<tree, past, reports, records, pc, at, policy, source, hashed, input, review, report,
                      found, tool, executed, accepted>>
      BY <1>2 DEF vars, repository, evidence, local, history
    <2>2. \A c \in Campaigns : Sound(c)'
      BY <2>1, ApartIsSound DEF Provenance
    <2> QED
      BY <1>1, <2>1, <2>2 DEF Provenance, EvidenceWasExecuted
  <1>3. ASSUME NEW c \in Campaigns, Advance(c) PROVE Provenance'
    BY <1>1, <1>3, ReadSourceIsSound, HashRestIsSound, HashOwnIsSound, ConfirmIsSound, LookupIsSound,
       VerifyIsSound, PrepareIsSound, ExecuteIsSound, ReconfirmIsSound, StoreReportIsSound,
       StoreRecordIsSound DEF Advance
  <1>4. ASSUME NEW c \in Campaigns, Run(c) \/ Fail(c) \/ Kill(c) PROVE Provenance'
    BY <1>1, <1>4, RunIsSound, FailIsSound, KillIsSound
  <1> QED
    BY <1>1, <1>2, <1>3, <1>4, PowerLossIsSound, EditIsSound, EditInventoryIsSound DEF Next

\* Unless edits are undone, everything a campaign publishes or accepts has
\* its provenance (campaign.go:346-449).
THEOREM ProvenanceHolds ==
    ASSUME ~Reverting
    PROVE  Spec => []Provenance
  <1>1. Init => Provenance
    BY InitIsSound
  <1>2. Provenance /\ [Next]_vars => Provenance'
    BY NextIsSound
  <1> QED
    BY <1>1, <1>2, PTL DEF Spec

\* Evidence published under a digest was produced by running the tool on the
\* content of that digest, however people edit meanwhile, unless an edit is
\* undone (campaign.go:415-425).
THEOREM EvidenceIsGenuine ==
    ASSUME ~Reverting
    PROVE  Spec => []EvidenceWasExecuted
  <1>1. Provenance => EvidenceWasExecuted
    BY DEF Provenance
  <1> QED
    BY <1>1, ProvenanceHolds, PTL

\* A package passes only on a report the tool gave for its digest, reused or
\* new, and one that the inventory loaded by this run accepts in full
\* (reuse.go:21-55, report_store.go:148-149).
THEOREM AcceptanceIsProved ==
    ASSUME ~Reverting
    PROVE  Spec => []AcceptedIsProved
  <1>1. Provenance => AcceptedIsProved
    BY DEF Provenance, AcceptedIsProved, Proven
  <1> QED
    BY <1>1, ProvenanceHolds, PTL

\* A review is applied only to evidence hashed from the source it was given
\* for (campaign.go:540-542).
THEOREM ReviewsBindTheirInput ==
    ASSUME ~Reverting
    PROVE  Spec => []ReviewBindsInput
  <1>1. Provenance => ReviewBindsInput
    BY DEF Provenance, ReviewBindsInput, Proven
  <1> QED
    BY <1>1, ProvenanceHolds, PTL

-----------------------------------------------------------------------------
(* A campaign that passed has been through the whole order of packages.    *)

\* The package at position n is accepted, and has its record.
Settled(proofs, kept, lost, n) ==
    \E a \in proofs :
        /\ a.key \in Keys /\ a.key.package = Order[n]
        /\ ~lost => kept[a.key] # None

\* Everything before the package at hand is settled, and a record that has
\* been found is still there.
Progressed(c) ==
    /\ pc[c] \notin Ended => \A n \in DOMAIN Order : n < at[c] => Settled(accepted[c], records, powerLost, n)
    /\ pc[c] = "passed" => \A n \in DOMAIN Order : Settled(accepted[c], records, powerLost, n)
    /\ pc[c] = "verify" /\ ~powerLost => records[Key(c)] # None

\* The inductive invariant behind PassedIsComplete.
Progress == Inv /\ \A c \in Campaigns : Progressed(c)

\* What is settled stays settled.
LEMMA SettledStays ==
    ASSUME NEW proofs, NEW more, proofs \subseteq more,
           NEW kept, NEW later, NEW lost, NEW lostLater, lost => lostLater,
           \A k \in Keys : ~lostLater /\ kept[k] # None => later[k] # None,
           NEW n, Settled(proofs, kept, lost, n)
    PROVE  Settled(more, later, lostLater, n)
  BY DEF Settled

\* What a step of one process has to keep for the others to stay where they are.
LEMMA ProgressFrame ==
    ASSUME Progress, Inv', NEW c \in Campaigns, Progressed(c)',
           powerLost => powerLost', \A k \in Keys : ~powerLost' /\ records[k] # None => records'[k] # None,
           \A d \in Campaigns \ {c} : /\ pc'[d] = pc[d] /\ at'[d] = at[d] /\ input'[d] = input[d]
                                      /\ accepted'[d] = accepted[d]
    PROVE  Progress'
  <1>1. ASSUME NEW d \in Campaigns, d # c PROVE Progressed(d)'
    <2>1. /\ pc'[d] = pc[d] /\ at'[d] = at[d] /\ input'[d] = input[d]
          /\ accepted'[d] = accepted[d]
      BY <1>1
    <2>2. Progressed(d) /\ Inv
      BY DEF Progress
    <2>3. Key(d)' = Key(d)
      BY <2>1 DEF Key, package
    <2>4. pc[d] = "verify" => Key(d) \in Keys
      BY <2>2, KeyType DEF Inv, Carried, Keyed
    <2>5. pc'[d] = "verify" /\ ~powerLost' => records'[Key(d)'] # None
      BY <2>1, <2>2, <2>3, <2>4 DEF Progressed
    <2>6. ASSUME NEW n \in DOMAIN Order, Settled(accepted[d], records, powerLost, n)
          PROVE  Settled(accepted'[d], records', powerLost', n)
      BY <2>1, <2>6, SettledStays
    <2>7. pc'[d] \notin Ended =>
            \A n \in DOMAIN Order : n < at'[d] => Settled(accepted'[d], records', powerLost', n)
      BY <2>1, <2>2, <2>6 DEF Progressed
    <2>8. pc'[d] = "passed" => \A n \in DOMAIN Order : Settled(accepted'[d], records', powerLost', n)
      BY <2>1, <2>2, <2>6 DEF Progressed
    <2> QED
      BY <2>5, <2>7, <2>8 DEF Progressed
  <1> QED
    BY <1>1 DEF Progress

\* A step within a package, which finds a record only where there is one.
LEMMA WithinPackage ==
    ASSUME Progress, Inv', NEW c \in Campaigns, pc[c] \notin Ended, pc'[c] \notin Ended,
           UNCHANGED <<records, powerLost, at, accepted>>,
           pc'[c] = "verify" => records[Key(c)'] # None,
           \A d \in Campaigns \ {c} : pc'[d] = pc[d] /\ input'[d] = input[d]
    PROVE  Progress'
  <1>1. Progressed(c)'
    BY DEF Progress, Progressed, Ended
  <1> QED
    BY <1>1, ProgressFrame

\* A process that ends without passing, or begins.
LEMMA OutsidePackage ==
    ASSUME Progress, Inv', NEW c \in Campaigns, UNCHANGED <<records, powerLost>>,
           \/ pc'[c] \in {"failed", "idle"}
           \/ pc'[c] = "source" /\ at'[c] = 1,
           \A d \in Campaigns \ {c} : /\ pc'[d] = pc[d] /\ at'[d] = at[d] /\ input'[d] = input[d]
                                      /\ accepted'[d] = accepted[d]
    PROVE  Progress'
  <1>1. \A n \in DOMAIN Order : ~(n < 1)
    BY CampaignAssumption
  <1>2. Progressed(c)'
    BY <1>1 DEF Progressed, Ended
  <1> QED
    BY <1>2, ProgressFrame

LEMMA AbortProgresses ==
    ASSUME Progress, Inv', NEW c \in Campaigns, Abort(c), UNCHANGED powerLost
    PROVE  Progress'
  <1>1. pc'[c] = "failed" /\ records' = records
    BY DEF Progress, Inv, TypeOK, Abort, Goto, evidence
  <1>2. \A d \in Campaigns \ {c} : /\ pc'[d] = pc[d] /\ at'[d] = at[d] /\ input'[d] = input[d]
                                   /\ accepted'[d] = accepted[d]
    BY DEF Progress, Inv, TypeOK, Abort, Goto, Forget
  <1> QED
    BY <1>1, <1>2, OutsidePackage

\* The package at hand is accepted and has its record: the next one, or the end.
LEMMA NextPackageProgresses ==
    ASSUME Progress, Inv', NEW c \in Campaigns, NEW raw, pc[c] \in Keyed,
           Accept(c, raw), NextPackage(c), UNCHANGED powerLost,
           \A k \in Keys : ~powerLost /\ records[k] # None => records'[k] # None,
           ~powerLost => records'[Key(c)] # None
    PROVE  Progress'
  <1> DEFINE new == [key |-> Key(c), report |-> raw, review |-> review[c]]
  <1>1. Key(c) \in Keys /\ Key(c).package = Order[at[c]] /\ at[c] \in DOMAIN Order
    BY KeyType DEF Progress, Inv, TypeOK, Carried, Key, package
  <1>2. accepted'[c] = accepted[c] \cup {new}
    BY DEF Progress, Inv, TypeOK, Accept
  <1>3. new.key = Key(c)
    OBVIOUS
  <1> HIDE DEF new
  <1>4. Settled(accepted'[c], records', powerLost', at[c])
    BY <1>1, <1>2, <1>3 DEF Settled
  <1>5. ASSUME NEW n \in DOMAIN Order, n < at[c]
        PROVE  Settled(accepted'[c], records', powerLost', n)
    <2>1. Settled(accepted[c], records, powerLost, n)
      BY <1>5 DEF Progress, Progressed, Keyed, Executed, Ended
    <2> QED
      BY <1>2, <2>1, SettledStays
  <1>6. \A n \in DOMAIN Order : n <= at[c] => Settled(accepted'[c], records', powerLost', n)
    <2>1. ASSUME NEW n \in DOMAIN Order, n <= at[c] PROVE n < at[c] \/ n = at[c]
      BY <1>1, <2>1, CampaignAssumption
    <2> QED
      BY <1>4, <1>5, <2>1
  <1>7. ASSUME at[c] < Len(Order) PROVE Progressed(c)'
    <2>1. pc'[c] = "source" /\ at'[c] = at[c] + 1
      BY <1>7 DEF Progress, Inv, TypeOK, NextPackage, Goto
    <2>2. \A n \in DOMAIN Order : n < at'[c] => n <= at[c]
      BY <1>1, <2>1, CampaignAssumption
    <2> QED
      BY <1>6, <2>1, <2>2 DEF Progressed, Ended
  <1>8. ASSUME ~(at[c] < Len(Order)) PROVE Progressed(c)'
    <2>1. pc'[c] = "passed"
      BY <1>8 DEF Progress, Inv, TypeOK, NextPackage, Goto
    <2>2. \A n \in DOMAIN Order : n <= at[c]
      BY <1>1, <1>8, CampaignAssumption
    <2> QED
      BY <1>6, <2>1, <2>2 DEF Progressed, Ended
  <1>9. \A d \in Campaigns \ {c} : /\ pc'[d] = pc[d] /\ at'[d] = at[d] /\ input'[d] = input[d]
                                   /\ accepted'[d] = accepted[d]
    BY NextPackageType DEF Progress, Inv, TypeOK, Accept, Forget
  <1> QED
    BY <1>7, <1>8, <1>9, ProgressFrame

LEMMA VerifyProgresses == ASSUME Progress, Inv', NEW c \in Campaigns, Verify(c) PROVE Progress'
  <1> DEFINE raw == reports[Key(c)]
             good == raw # None /\ Valid(raw, review[c]) /\ raw = found[c].report
  <1>1. CASE ~good
    BY <1>1, AbortProgresses DEF Verify
  <1>2. CASE good
    <2>1. Accept(c, raw) /\ NextPackage(c) /\ records' = records /\ powerLost' = powerLost
      BY <1>2 DEF Verify, evidence
    <2>2. pc[c] \in Keyed /\ (~powerLost => records[Key(c)] # None)
      BY DEF Progress, Progressed, Verify, Keyed
    <2> HIDE DEF raw
    <2> QED
      BY <2>1, <2>2, NextPackageProgresses
  <1> QED
    BY <1>1, <1>2

LEMMA StoreRecordProgresses == ASSUME Progress, Inv', NEW c \in Campaigns, StoreRecord(c) PROVE Progress'
  <1>1. PICK record : record = [report |-> report[c], tool |-> tool[c]]
    OBVIOUS
  <1>2. /\ pc[c] = "record" /\ pc[c] \in Keyed /\ Key(c) \in Keys
        /\ report[c] \in Reports /\ tool[c] \in Tools
    BY KeyType DEF Progress, Inv, TypeOK, Carried, Keyed, Executed, StoreRecord
  <1>3. record \in Records
    BY <1>1, <1>2 DEF Records
  <1>4. record # None
    BY <1>3, CampaignAssumption
  <1>5. CASE records[Key(c)] \notin {None, record}
    BY <1>1, <1>5, AbortProgresses DEF StoreRecord
  <1>6. CASE records[Key(c)] \in {None, record}
    <2>1. /\ records' = [records EXCEPT ![Key(c)] = record]
          /\ Accept(c, report[c]) /\ NextPackage(c) /\ powerLost' = powerLost
      BY <1>1, <1>6 DEF StoreRecord
    <2>2. /\ records'[Key(c)] # None
          /\ \A k \in Keys : records[k] # None => records'[k] # None
      BY <1>2, <1>4, <2>1 DEF Progress, Inv, TypeOK
    <2> QED
      BY <1>2, <2>1, <2>2, NextPackageProgresses
  <1> QED
    BY <1>5, <1>6

LEMMA AdvanceProgresses == ASSUME Progress, Inv', NEW c \in Campaigns, Advance(c) PROVE Progress'
  <1>1. ASSUME ReadSource(c) \/ HashRest(c) \/ HashOwn(c) PROVE Progress'
    <2>1. /\ pc[c] \notin Ended /\ pc'[c] \notin Ended /\ pc'[c] # "verify"
          /\ UNCHANGED <<records, powerLost, at, accepted, input>>
          /\ \A d \in Campaigns \ {c} : pc'[d] = pc[d]
      BY <1>1 DEF Progress, Inv, TypeOK, ReadSource, HashRest, HashOwn, Goto, Ended, evidence, history
    <2> QED
      BY <2>1, WithinPackage
  <1>2. ASSUME Confirm(c) PROVE Progress'
    <2>1. CASE SourceMoved(c) \/ Drifted(policy[c][package(c)], source[c])
      BY <1>2, <2>1, AbortProgresses DEF Confirm
    <2>2. CASE ~(SourceMoved(c) \/ Drifted(policy[c][package(c)], source[c]))
      <3>1. /\ pc[c] \notin Ended /\ pc'[c] = "lookup"
            /\ UNCHANGED <<records, powerLost, at, accepted>>
            /\ \A d \in Campaigns \ {c} : pc'[d] = pc[d] /\ input'[d] = input[d]
        BY <1>2, <2>2 DEF Progress, Inv, TypeOK, Confirm, Goto, Ended, evidence
      <3> QED
        BY <3>1, WithinPackage DEF Ended
    <2> QED
      BY <2>1, <2>2
  <1>3. ASSUME Lookup(c) PROVE Progress'
    <2>1. /\ pc[c] \notin Ended /\ pc'[c] \notin Ended
          /\ pc'[c] = IF records[Key(c)] = None THEN "prepare" ELSE "verify"
          /\ UNCHANGED <<records, powerLost, at, accepted, input>>
          /\ \A d \in Campaigns \ {c} : pc'[d] = pc[d]
      BY <1>3 DEF Progress, Inv, TypeOK, Lookup, Goto, Ended, evidence, history
    <2>2. Key(c)' = Key(c)
      BY <2>1 DEF Key, package
    <2> QED
      BY <2>1, <2>2, WithinPackage
  <1>4. ASSUME Prepare(c) PROVE Progress'
    <2>1. /\ pc[c] \notin Ended /\ pc'[c] = "execute"
          /\ UNCHANGED <<records, powerLost, at, accepted, input>>
          /\ \A d \in Campaigns \ {c} : pc'[d] = pc[d]
      BY <1>4 DEF Progress, Inv, TypeOK, Prepare, Goto, Ended, evidence, history
    <2> QED
      BY <2>1, WithinPackage DEF Ended
  <1>5. ASSUME Execute(c) PROVE Progress'
    <2>1. PICK raw : IF Tolerated(raw, review[c]) /\ Valid(raw, review[c])
            THEN /\ Goto(c, "resource")
                 /\ UNCHANGED <<evidence, accepted, at, policy, source, hashed, input, review, found, tool>>
            ELSE Abort(c)
      BY <1>5 DEF Execute
    <2>2. pc[c] = "execute" /\ powerLost' = powerLost
      BY <1>5 DEF Execute
    <2>3. CASE Abort(c)
      BY <2>2, <2>3, AbortProgresses
    <2>4. CASE ~Abort(c)
      <3>1. /\ pc[c] \notin Ended /\ pc'[c] = "resource"
            /\ UNCHANGED <<records, powerLost, at, accepted, input>>
            /\ \A d \in Campaigns \ {c} : pc'[d] = pc[d]
        BY <2>1, <2>2, <2>4 DEF Progress, Inv, TypeOK, Goto, Ended, evidence
      <3> QED
        BY <3>1, WithinPackage DEF Ended
    <2> QED
      BY <2>3, <2>4
  <1>6. ASSUME Reconfirm(c) PROVE Progress'
    <2>1. CASE SourceMoved(c) \/ Drifted(policy[c][package(c)], source[c]) \/ hashed[c] # input[c]
      BY <1>6, <2>1, AbortProgresses DEF Reconfirm
    <2>2. CASE ~(SourceMoved(c) \/ Drifted(policy[c][package(c)], source[c]) \/ hashed[c] # input[c])
      <3>1. /\ pc[c] \notin Ended /\ pc'[c] = "report"
            /\ UNCHANGED <<records, powerLost, at, accepted, input>>
            /\ \A d \in Campaigns \ {c} : pc'[d] = pc[d]
        BY <1>6, <2>2 DEF Progress, Inv, TypeOK, Reconfirm, Goto, Ended, evidence
      <3> QED
        BY <3>1, WithinPackage DEF Ended
    <2> QED
      BY <2>1, <2>2
  <1>7. ASSUME StoreReport(c) PROVE Progress'
    <2>1. CASE reports[Key(c)] \notin {None, report[c]}
      BY <1>7, <2>1, AbortProgresses DEF StoreReport
    <2>2. CASE reports[Key(c)] \in {None, report[c]}
      <3>1. /\ pc[c] \notin Ended /\ pc'[c] = "record"
            /\ UNCHANGED <<records, powerLost, at, accepted, input>>
            /\ \A d \in Campaigns \ {c} : pc'[d] = pc[d]
        BY <1>7, <2>2 DEF Progress, Inv, TypeOK, StoreReport, Goto, Ended, local
      <3> QED
        BY <3>1, WithinPackage DEF Ended
    <2> QED
      BY <2>1, <2>2
  <1> QED
    BY <1>1, <1>2, <1>3, <1>4, <1>5, <1>6, <1>7, VerifyProgresses, StoreRecordProgresses DEF Advance

LEMMA NextProgresses == ASSUME Progress, [Next]_vars PROVE Progress'
  <1>1. Inv'
    BY NextKeeps DEF Progress
  <1>2. CASE UNCHANGED <<records, powerLost, pc, at, input, accepted>>
    BY <1>1, <1>2 DEF Progress, Progressed, Key, package
  <1>3. ASSUME UNCHANGED vars \/ \E p, i : Edit(p, i) \/ EditInventory(p, i)
        PROVE  UNCHANGED <<records, powerLost, pc, at, input, accepted>>
    BY <1>3 DEF vars, local, history, evidence, Edit, EditInventory
  <1>4. ASSUME NEW c \in Campaigns, Run(c) PROVE Progress'
    <2>1. /\ pc'[c] = "source" /\ at'[c] = 1 /\ UNCHANGED <<records, powerLost>>
          /\ \A d \in Campaigns \ {c} : /\ pc'[d] = pc[d] /\ at'[d] = at[d] /\ input'[d] = input[d]
                                        /\ accepted'[d] = accepted[d]
      BY <1>4 DEF Progress, Inv, TypeOK, Run, Goto, Forget, evidence
    <2> QED
      BY <1>1, <2>1, OutsidePackage
  <1>5. ASSUME NEW c \in Campaigns, Fail(c) PROVE Progress'
    BY <1>1, <1>5, AbortProgresses DEF Fail
  <1>6. ASSUME NEW c \in Campaigns, Kill(c) PROVE Progress'
    <2>1. /\ pc'[c] = "idle" /\ UNCHANGED <<records, powerLost>>
          /\ \A d \in Campaigns \ {c} : /\ pc'[d] = pc[d] /\ at'[d] = at[d] /\ input'[d] = input[d]
                                        /\ accepted'[d] = accepted[d]
      BY <1>6 DEF Progress, Inv, TypeOK, Kill, Goto, Forget, evidence
    <2> QED
      BY <1>1, <2>1, OutsidePackage
  <1>7. ASSUME NEW lostReports, NEW lostRecords, PowerLoss(lostReports, lostRecords) PROVE Progress'
    <2>1. \A c \in Campaigns : pc'[c] = "idle"
      BY <1>7 DEF PowerLoss
    <2> QED
      BY <1>1, <2>1 DEF Progress, Progressed, Ended
  <1>8. ASSUME NEW c \in Campaigns, Advance(c) PROVE Progress'
    BY <1>1, <1>8, AdvanceProgresses
  <1> QED
    BY <1>2, <1>3, <1>4, <1>5, <1>6, <1>7, <1>8 DEF Next

\* A campaign that passed has accepted every package of the module, each with
\* a record in the directory unless a power loss took it, whoever was killed
\* or published the same evidence meanwhile (campaign.go:181-185, 403-449).
THEOREM PassingIsComplete == Spec => []PassedIsComplete
  <1>1. Init => Progress
    BY InitEstablishes DEF Init, Progress, Progressed, Ended
  <1>2. Progress /\ [Next]_vars => Progress'
    BY NextProgresses
  <1>3. Progress => PassedIsComplete
    <2>1. SUFFICES ASSUME Progress, NEW c \in Campaigns, pc[c] = "passed", NEW p \in Packages
                   PROVE  \E a \in accepted[c] : a.key.package = p /\ (~powerLost => records[a.key] # None)
      BY DEF PassedIsComplete
    <2>2. PICK n \in DOMAIN Order : p = Order[n]
      BY <2>1 DEF Packages
    <2> QED
      BY <2>1, <2>2 DEF Progress, Progressed, Settled
  <1> QED
    BY <1>1, <1>2, <1>3, PTL DEF Spec
=============================================================================
