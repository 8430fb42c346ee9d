-------------------------- MODULE PublicationProofs --------------------------
(***************************************************************************)
(* For any number of writers, digests and documents: the publication       *)
(* protocol keeps its inductive invariant, and every step of it is a step  *)
(* of ImmutableStore or changes nothing there.                             *)
(***************************************************************************)
EXTENDS Publication, TLAPS

\* Nothing is published and nobody publishes initially, so every conjunct holds.
LEMMA InitInv == Init => Inv
  BY PublicationAssumption
     DEF Init, Inv, TypeOK, Controlled, Prepared, Answered, PublishedSynced,
         PublishedComplete, AnswersAgreeWithStore, Steps

WriterOK(w) == Controlled(w) /\ Prepared(w) /\ Answered(w)

FileOK(file) == file # None => file.synced /\ file.content \in Document

\* The invariant, one writer and one destination at a time.
LEMMA InvByPart ==
  /\ Inv <=> /\ TypeOK
             /\ \A w \in Writers : WriterOK(w)
             /\ \A k \in Keys : FileOK(destination[k])
  /\ Inv' <=> /\ TypeOK'
              /\ \A w \in Writers : WriterOK(w)'
              /\ \A k \in Keys : FileOK(destination'[k])
  BY DEF Inv, WriterOK, FileOK, PublishedSynced, PublishedComplete, AnswersAgreeWithStore

\* A writer that did nothing stays in order while nothing published changes.
LEMMA OtherWriter ==
  ASSUME NEW v \in Writers, WriterOK(v), TypeOK,
         pc'[v] = pc[v], reply'[v] = reply[v], temporary'[v] = temporary[v],
         \A k \in Keys : destination[k] # None => destination'[k] = destination[k]
  PROVE  WriterOK(v)'
  <1>1. reply[v] # None => reply[v] \in Replies /\ reply[v].key \in Keys
    BY DEF TypeOK, Replies
  <1>2. Controlled(v)'
    BY DEF WriterOK, Controlled
  <1>3. Prepared(v)'
    BY <1>1 DEF WriterOK, Controlled, Prepared
  <1>4. Answered(v)'
    BY <1>1 DEF WriterOK, Answered
  <1> QED BY <1>2, <1>3, <1>4 DEF WriterOK

\* A step of one writer that links nothing: its own part is all there is to show.
LEMMA LocalStep ==
  ASSUME Inv, NEW w \in Writers, TypeOK', WriterOK(w)',
         \A v \in Writers \ {w} :
            pc'[v] = pc[v] /\ reply'[v] = reply[v] /\ temporary'[v] = temporary[v],
         destination' = destination
  PROVE  Inv'
  <1>1. \A v \in Writers : WriterOK(v)'
    <2> SUFFICES ASSUME NEW v \in Writers, v # w PROVE WriterOK(v)'
      OBVIOUS
    <2> QED BY OtherWriter, InvByPart
  <1> QED BY <1>1, InvByPart

\* Every step of a writer other than linking a file leaves the invariant true.
LEMMA WriterStep ==
  ASSUME Inv, NEW w \in Writers,
         \/ \E k \in Keys, d \in Document : Store(w, k, d)
         \/ Prepare(w) \/ Write(w) \/ Sync(w) \/ Close(w)
         \/ Compare(w) \/ Remove(w) \/ Return(w) \/ Kill(w)
  PROVE  Inv'
  <1>1. /\ TypeOK /\ WriterOK(w) /\ (\A k \in Keys : FileOK(destination[k]))
        /\ None \notin Replies /\ None \notin File
    BY InvByPart, PublicationAssumption
  <1>2. reply[w] # None =>
          /\ reply[w] \in Replies
          /\ reply[w].key \in Keys
          /\ reply[w].document \in Document
          /\ \A status \in Statuses, d \in Document :
                [status |-> status, key |-> reply[w].key, document |-> d] \in Replies
    BY <1>1 DEF TypeOK, Replies
  <1>3. /\ temporary[w] # None => temporary[w].content \in Document \cup {Torn}
        /\ \A c \in Document \cup {Torn}, b \in BOOLEAN : [content |-> c, synced |-> b] \in File
    BY <1>1 DEF TypeOK, File
  <1> USE DEF TypeOK, WriterOK, Controlled, Prepared, Answered, Steps, Statuses, Goto, Answer, Fail
  <1>4. ASSUME NEW k \in Keys, NEW d \in Document, Store(w, k, d) PROVE Inv'
    <2>1. TypeOK' /\ WriterOK(w)' BY <1>1, <1>4 DEF Store, Replies
    <2> QED BY <1>4, <2>1, LocalStep DEF Store
  <1>5. CASE Prepare(w)
    <2> DEFINE failed == [status |-> "failed", key |-> reply[w].key, document |-> reply[w].document]
               file == [content |-> Torn, synced |-> FALSE]
    <2>1. reply[w] # None /\ (pc[w] # "prepare" => temporary[w] # None)
      BY <1>1, <1>5 DEF Prepare
    <2>2. failed \in Replies /\ failed.status = "failed" /\ file \in File
      BY <1>1, <1>2, <1>3, <1>5, <2>1 DEF Prepare
    <2>3. /\ pc' = [pc EXCEPT ![w] = pc'[w]]
          /\ reply' = [reply EXCEPT ![w] = reply'[w]]
          /\ temporary' = [temporary EXCEPT ![w] = temporary'[w]]
          /\ destination' = destination
      BY <1>1, <1>5 DEF Prepare
    <2>4. \/ pc'[w] = "write" /\ reply'[w] = reply[w] /\ temporary'[w] = file
          \/ pc'[w] = "return" /\ reply'[w] = failed /\ temporary'[w] = temporary[w]
      BY <1>1, <1>5 DEF Prepare
    <2>5. pc'[w] \in Steps
      BY <1>1, <1>5 DEF Prepare
    <2>6. TypeOK'
      <3> HIDE DEF failed, file
      <3> QED BY <1>1, <2>2, <2>3, <2>4, <2>5
    <2>7. Controlled(w)'
      <3> HIDE DEF failed, file
      <3>1. pc[w] = "prepare" BY <1>5 DEF Prepare
      <3> QED BY <1>1, <2>1, <2>2, <2>4, <3>1
    <2>8. Prepared(w)' BY <1>1, <2>1, <1>5 DEF Prepare
    <2>9. Answered(w)' BY <1>1, <2>1, <1>5 DEF Prepare
    <2> QED BY <1>5, <2>3, <2>6, <2>7, <2>8, <2>9, LocalStep
  <1>6. CASE Write(w)
    <2> DEFINE failed == [status |-> "failed", key |-> reply[w].key, document |-> reply[w].document]
               file == [content |-> reply[w].document, synced |-> FALSE]
    <2>1. reply[w] # None /\ (pc[w] # "prepare" => temporary[w] # None)
      BY <1>1, <1>6 DEF Write
    <2>2. failed \in Replies /\ failed.status = "failed" /\ file \in File
      BY <1>1, <1>2, <1>3, <1>6, <2>1 DEF Write
    <2>3. /\ pc' = [pc EXCEPT ![w] = pc'[w]]
          /\ reply' = [reply EXCEPT ![w] = reply'[w]]
          /\ temporary' = [temporary EXCEPT ![w] = temporary'[w]]
          /\ destination' = destination
      BY <1>1, <1>6 DEF Write
    <2>4. \/ pc'[w] = "sync" /\ reply'[w] = reply[w] /\ temporary'[w] = file
          \/ pc'[w] = "close" /\ reply'[w] = failed /\ temporary'[w] = temporary[w]
      BY <1>1, <1>6 DEF Write
    <2>5. pc'[w] \in Steps
      BY <1>1, <1>6 DEF Write
    <2>6. TypeOK'
      <3> HIDE DEF failed, file
      <3> QED BY <1>1, <2>2, <2>3, <2>4, <2>5
    <2>7. Controlled(w)'
      <3> HIDE DEF failed, file
      <3>1. pc[w] = "write" BY <1>6 DEF Write
      <3> QED BY <1>1, <2>1, <2>2, <2>4, <3>1
    <2>8. Prepared(w)' BY <1>1, <2>1, <1>6 DEF Write
    <2>9. Answered(w)' BY <1>1, <2>1, <1>6 DEF Write
    <2> QED BY <1>6, <2>3, <2>6, <2>7, <2>8, <2>9, LocalStep
  <1>7. CASE Sync(w)
    <2> DEFINE failed == [status |-> "failed", key |-> reply[w].key, document |-> reply[w].document]
               file == [content |-> temporary[w].content, synced |-> TRUE]
    <2>1. reply[w] # None /\ (pc[w] # "prepare" => temporary[w] # None)
      BY <1>1, <1>7 DEF Sync
    <2>2. failed \in Replies /\ failed.status = "failed" /\ file \in File
      BY <1>1, <1>2, <1>3, <1>7, <2>1 DEF Sync
    <2>3. /\ pc' = [pc EXCEPT ![w] = pc'[w]]
          /\ reply' = [reply EXCEPT ![w] = reply'[w]]
          /\ temporary' = [temporary EXCEPT ![w] = temporary'[w]]
          /\ destination' = destination
      BY <1>1, <1>7 DEF Sync
    <2>4. \/ pc'[w] = "close" /\ reply'[w] = reply[w] /\ temporary'[w] = file
          \/ pc'[w] = "close" /\ reply'[w] = failed /\ temporary'[w] = temporary[w]
      BY <1>1, <1>7 DEF Sync
    <2>5. pc'[w] \in Steps
      BY <1>1, <1>7 DEF Sync
    <2>6. TypeOK'
      <3> HIDE DEF failed, file
      <3> QED BY <1>1, <2>2, <2>3, <2>4, <2>5
    <2>7. Controlled(w)'
      <3> HIDE DEF failed, file
      <3>1. pc[w] = "sync" BY <1>7 DEF Sync
      <3> QED BY <1>1, <2>1, <2>2, <2>4, <3>1
    <2>8. Prepared(w)'
      <3>1. temporary[w].content = reply[w].document BY <1>1, <1>7 DEF Sync
      <3>2. file = [content |-> reply[w].document, synced |-> TRUE] BY <3>1
      <3> HIDE DEF failed, file
      <3> QED BY <2>2, <2>4, <3>2
    <2>9. Answered(w)' BY <1>1, <2>1, <1>7 DEF Sync
    <2> QED BY <1>7, <2>3, <2>6, <2>7, <2>8, <2>9, LocalStep
  <1>8. CASE Close(w)
    <2>1. reply[w] # None /\ temporary[w] # None
      BY <1>1, <1>8 DEF Close
    <2>2. TypeOK' BY <1>1, <1>2, <1>3, <1>8, <2>1 DEF Close
    <2>3. WriterOK(w)'
      <3>1. Controlled(w)' BY <1>1, <1>2, <1>3, <1>8, <2>1 DEF Close
      <3>2. Prepared(w)' BY <1>1, <1>2, <1>3, <1>8, <2>1 DEF Close
      <3>3. Answered(w)' BY <1>1, <1>2, <1>3, <1>8, <2>1 DEF Close
      <3> QED BY <3>1, <3>2, <3>3
    <2> QED BY <1>8, <2>2, <2>3, LocalStep DEF Close
  <1>9. CASE Remove(w)
    <2>1. TypeOK' BY <1>1, <1>2, <1>3, <1>9 DEF Remove
    <2>2. WriterOK(w)' BY <1>1, <1>2, <1>3, <1>9 DEF Remove
    <2> QED BY <1>9, <2>1, <2>2, LocalStep DEF Remove
  <1>10. CASE Return(w)
    <2>1. TypeOK' BY <1>1, <1>2, <1>3, <1>10 DEF Return
    <2>2. WriterOK(w)' BY <1>1, <1>2, <1>3, <1>10 DEF Return
    <2> QED BY <1>10, <2>1, <2>2, LocalStep DEF Return
  <1>11. CASE Kill(w)
    <2>1. TypeOK' BY <1>1, <1>2, <1>3, <1>11 DEF Kill
    <2>2. WriterOK(w)' BY <1>1, <1>2, <1>3, <1>11 DEF Kill
    <2> QED BY <1>11, <2>1, <2>2, LocalStep DEF Kill
  <1>12. CASE Compare(w)
    <2>1. reply[w] # None /\ destination[reply[w].key] # None
      BY <1>1, <1>12 DEF Compare
    <2>2. destination[reply[w].key].content \in Document
      BY <1>1, <1>2, <2>1 DEF FileOK
    <2>3. TypeOK' BY <1>1, <1>2, <1>12, <2>1, <2>2 DEF Compare
    <2>4. WriterOK(w)' BY <1>1, <1>2, <1>12, <2>1, <2>2, <2>3 DEF Compare
    <2> QED BY <1>12, <2>3, <2>4, LocalStep DEF Compare
  <1> QED BY <1>4, <1>5, <1>6, <1>7, <1>8, <1>9, <1>10, <1>11, <1>12

\* Linking makes a name for a complete, synced file and disturbs nobody else.
LEMMA LinkStep ==
  ASSUME Inv, NEW w \in Writers, Link(w)
  PROVE  Inv'
  <1>1. TypeOK /\ WriterOK(w) /\ (\A k \in Keys : FileOK(destination[k]))
    BY InvByPart
  <1>2. pc[w] = "link" /\ reply[w] # None /\ reply[w].status = "busy"
    BY <1>1 DEF Link, WriterOK, Controlled
  <1>3. reply[w] \in Replies /\ reply[w].key \in Keys /\ reply[w].document \in Document
    BY <1>1, <1>2 DEF TypeOK, Replies
  <1>4. temporary[w] = [content |-> reply[w].document, synced |-> TRUE]
    BY <1>1, <1>2 DEF WriterOK, Prepared
  <1>5. temporary[w] \in File
    BY <1>3, <1>4 DEF File
  <1>6. TypeOK'
    BY <1>1, <1>3, <1>5 DEF Link, TypeOK, Answer, Fail, Goto, Replies, Statuses, Steps
  <1>7. \A k \in Keys : FileOK(destination'[k])
    <2>1. \A k \in Keys : destination'[k] \in {destination[k], temporary[w]}
      BY <1>1, <1>3 DEF Link, TypeOK
    <2> QED BY <1>1, <1>3, <1>4, <2>1 DEF FileOK
  <1>8. \A k \in Keys : destination[k] # None => destination'[k] = destination[k]
    BY <1>1 DEF Link, TypeOK
  <1>9. WriterOK(w)'
    <2>1. reply'[w] # None /\ pc'[w] \in {"remove", "compare"} /\ temporary'[w] = temporary[w]
      <3>1. \A status \in Statuses :
              [status |-> status, key |-> reply[w].key, document |-> reply[w].document] \in Replies
        BY <1>3 DEF Replies
      <3> QED BY <1>1, <1>2, <3>1, PublicationAssumption
              DEF Link, TypeOK, Answer, Fail, Goto, Statuses
    <2>2. Controlled(w)'
      BY <1>1, <1>2, <1>3, <1>4, <1>5, <2>1, PublicationAssumption
      DEF Link, TypeOK, Controlled, Answer, Fail, Goto, WriterOK
    <2>3. Prepared(w)'
      BY <1>1, <1>2, <1>4, <2>1 DEF Link, TypeOK, Prepared, Answer, Fail, Goto
    <2>4. Answered(w)'
      BY <1>1, <1>2, <1>3, <1>4, <1>5, <2>1, PublicationAssumption
      DEF Link, TypeOK, Answered, Answer, Fail, Goto
    <2> QED BY <2>2, <2>3, <2>4 DEF WriterOK
  <1>10. \A v \in Writers : WriterOK(v)'
    <2> SUFFICES ASSUME NEW v \in Writers, v # w PROVE WriterOK(v)'
      BY <1>9
    <2>1. pc'[v] = pc[v] /\ reply'[v] = reply[v] /\ temporary'[v] = temporary[v]
      BY <1>1 DEF Link, TypeOK, Answer, Fail, Goto
    <2> QED BY <1>1, <1>8, <2>1, OtherWriter, InvByPart
  <1> QED BY <1>6, <1>7, <1>10, InvByPart

\* Losing power loses links and temporary files but tears nothing that is named.
LEMMA PowerLossStep ==
  ASSUME Inv, NEW lost \in SUBSET Keys, PowerLoss(lost)
  PROVE  Inv'
  <1>1. \A k \in Keys : destination'[k] \in {None, destination[k]}
    BY DEF PowerLoss, Inv, PublishedSynced
  <1>2. \A k \in Keys : FileOK(destination'[k])
    BY <1>1, InvByPart DEF FileOK
  <1>3. TypeOK'
    <2>1. destination' \in [Keys -> File \cup {None}]
      BY <1>1 DEF PowerLoss, Inv, TypeOK
    <2> QED BY <2>1 DEF PowerLoss, TypeOK, Steps
  <1>4. \A v \in Writers : WriterOK(v)'
    BY DEF PowerLoss, WriterOK, Controlled, Prepared, Answered
  <1> QED BY <1>2, <1>3, <1>4, InvByPart

LEMMA Stutter == ASSUME Inv, UNCHANGED vars PROVE Inv'
  BY DEF vars, Inv, TypeOK, Controlled, Prepared, Answered, PublishedSynced,
         PublishedComplete, AnswersAgreeWithStore

\* The invariant holds in every state, for every set of writers and digests.
THEOREM InvariantHolds == Spec => []Inv
  <1>1. ASSUME Inv, [Next]_vars PROVE Inv'
    <2>1. ASSUME NEW w \in Writers, Step(w) PROVE Inv'
      BY <1>1, <2>1, WriterStep, LinkStep DEF Step
    <2>2. ASSUME NEW lost \in SUBSET Keys, PowerLoss(lost) PROVE Inv'
      BY <1>1, <2>2, PowerLossStep
    <2> QED BY <1>1, <2>1, <2>2, Stutter DEF Next
  <1> QED BY InitInv, <1>1, PTL DEF Spec

\* A name under by-input or reports never shows a torn file, whatever fails.
THEOREM NeverTorn == Spec => []PublishedComplete
  BY InvariantHolds, PTL DEF Inv

\* "stored" and "reused" are always told of the document really in the store.
THEOREM AnswersHold == Spec => []AnswersAgreeWithStore
  BY InvariantHolds, PTL DEF Inv

-----------------------------------------------------------------------------

\* Steps that link nothing leave the abstract store alone.
LEMMA SameStore == destination' = destination => Published' = Published
  BY DEF Published

\* A failing file operation is the abstract failure, or has been reported already.
LEMMA FailureMaps ==
  ASSUME Inv, NEW w \in Writers, reply[w] # None, reply[w].status \in {"busy", "failed"},
         Fail(w), destination' = destination
  PROVE  Abstract!Fail(w) \/ UNCHANGED <<Published, reply>>
  <1>1. reply \in [Writers -> Replies \cup {None}] /\ reply[w] \in Replies
    BY DEF Inv, TypeOK
  <1>2. CASE reply[w].status = "busy"
    BY <1>2, SameStore DEF Fail, Answer, Abstract!Fail, Abstract!Answer, Abstract!Busy
  <1>3. CASE reply[w].status = "failed"
    <2>1. reply[w] = [status |-> "failed", key |-> reply[w].key, document |-> reply[w].document]
      BY <1>1, <1>3 DEF Replies
    <2>2. reply' = reply
      BY <1>1, <2>1 DEF Fail, Answer
    <2> QED BY <2>2, SameStore
  <1> QED BY <1>2, <1>3

\* Linking is the abstract publication, unless the name was taken or link failed.
LEMMA LinkMaps ==
  ASSUME Inv, NEW w \in Writers, Link(w)
  PROVE  Abstract!Publish(w) \/ Abstract!Fail(w) \/ UNCHANGED <<Published, reply>>
  <1>1. /\ TypeOK /\ pc[w] = "link" /\ reply[w] # None /\ reply[w].status = "busy"
        /\ temporary[w] = [content |-> reply[w].document, synced |-> TRUE]
        /\ temporary[w] # None
    BY DEF Link, Inv, Controlled, Prepared
  <1>2. reply[w].key \in Keys
    BY <1>1 DEF TypeOK, Replies
  <1> DEFINE k == reply[w].key
  <1>3. CASE /\ destination[k] = None
             /\ destination' = [destination EXCEPT ![k] = temporary[w]]
             /\ Answer(w, "stored", reply[w].document)
    <2>1. Published[k] = None
      BY <1>2, <1>3 DEF Published
    <2>2. destination'[k] = temporary[w] /\ \A j \in Keys \ {k} : destination'[j] = destination[j]
      BY <1>1, <1>2, <1>3 DEF TypeOK
    <2>3. Published'[k] = reply[w].document
      BY <1>1, <1>2, <2>2 DEF Published
    <2>4. \A j \in Keys \ {k} : Published'[j] = Published[j]
      BY <2>2 DEF Published
    <2>5. Published' = [Published EXCEPT ![k] = reply[w].document]
      <3>1. /\ Published = [j \in Keys |-> Published[j]]
            /\ Published' = [j \in Keys |-> Published'[j]]
        BY DEF Published
      <3> HIDE DEF k
      <3> QED BY <1>2, <2>3, <2>4, <3>1
    <2> QED BY <1>1, <1>3, <2>1, <2>5 DEF Answer, Abstract!Publish, Abstract!Answer, Abstract!Busy
  <1>4. CASE Fail(w) /\ destination' = destination
    BY <1>1, <1>4, FailureMaps
  <1>5. CASE UNCHANGED <<reply, destination>>
    BY <1>5, SameStore
  <1> QED BY <1>3, <1>4, <1>5 DEF Link

\* Reading the existing file back is the abstract reuse or refusal.
LEMMA CompareMaps ==
  ASSUME Inv, NEW w \in Writers, Compare(w)
  PROVE  Abstract!Reuse(w) \/ Abstract!Refuse(w) \/ Abstract!Fail(w) \/ UNCHANGED <<Published, reply>>
  <1>1. /\ TypeOK /\ pc[w] = "compare" /\ reply[w] # None /\ reply[w].status = "busy"
        /\ destination[reply[w].key] # None /\ destination' = destination
    BY DEF Compare, Inv, Controlled, Prepared
  <1>2. reply[w].key \in Keys
    BY <1>1 DEF TypeOK, Replies
  <1>3. destination[reply[w].key].content \in Document
    BY <1>1, <1>2 DEF Inv, PublishedComplete
  <1>4. /\ Published[reply[w].key] = destination[reply[w].key].content
        /\ Published[reply[w].key] # None /\ Published[reply[w].key] # Torn
    BY <1>1, <1>2, <1>3, PublicationAssumption DEF Published
  <1>5. Published' = Published
    BY <1>1, SameStore
  <1>6. CASE /\ Matches(destination[reply[w].key], reply[w].document)
             /\ Answer(w, "reused", destination[reply[w].key].content)
    BY <1>1, <1>4, <1>5, <1>6
       DEF Matches, Answer, Abstract!Reuse, Abstract!Answer, Abstract!Busy
  <1>7. CASE /\ ~Matches(destination[reply[w].key], reply[w].document)
             /\ Answer(w, "conflict", reply[w].document)
    BY <1>1, <1>4, <1>5, <1>7
       DEF Matches, Answer, Abstract!Refuse, Abstract!Answer, Abstract!Busy
  <1>8. CASE Fail(w)
    BY <1>1, <1>8, FailureMaps
  <1> QED BY <1>6, <1>7, <1>8 DEF Compare

\* The steps around the link either answer "failed" or are invisible above.
LEMMA WriterMaps ==
  ASSUME Inv, NEW w \in Writers, Step(w)
  PROVE  Abstract!Next \/ UNCHANGED <<Published, reply>>
  <1>1. TypeOK /\ Controlled(w)
    BY DEF Inv
  <1>2. ASSUME NEW k \in Keys, NEW d \in Document, Store(w, k, d)
        PROVE  Abstract!Request(w, k, d)
    BY <1>1, <1>2, SameStore DEF Store, Controlled, Abstract!Request
  <1>3. CASE Prepare(w) \/ Write(w) \/ Sync(w) \/ Close(w)
    <2>1. reply[w] # None /\ reply[w].status \in {"busy", "failed"} /\ destination' = destination
      BY <1>1, <1>3 DEF Prepare, Write, Sync, Close, Controlled
    <2>2. reply' = reply \/ Fail(w)
      BY <1>3 DEF Prepare, Write, Sync, Close
    <2> QED BY <2>1, <2>2, FailureMaps, SameStore DEF Abstract!Next
  <1>4. CASE Remove(w)
    BY <1>4, SameStore DEF Remove
  <1>5. CASE Return(w) \/ Kill(w)
    <2>1. Abstract!Release(w)
      BY <1>1, <1>5, SameStore DEF Return, Kill, Controlled, Abstract!Release
    <2> QED BY <2>1 DEF Abstract!Next
  <1> QED BY <1>2, <1>3, <1>4, <1>5, LinkMaps, CompareMaps
          DEF Step, Abstract!Next, Abstract!Document, Document

\* Power loss is the abstract loss of some publications: none is altered.
LEMMA PowerLossMaps ==
  ASSUME Inv, NEW lost \in SUBSET Keys, PowerLoss(lost)
  PROVE  Abstract!Forget(lost)
  <1>1. \A k \in Keys : Published'[k] = IF k \in lost THEN None ELSE Published[k]
    <2> SUFFICES ASSUME NEW k \in Keys
                 PROVE  Published'[k] = IF k \in lost THEN None ELSE Published[k]
      OBVIOUS
    <2>1. destination'[k] = IF k \in lost THEN None ELSE destination[k]
      BY DEF PowerLoss, Inv, PublishedSynced
    <2> QED BY <2>1 DEF Published
  <1>2. Published' = [k \in Keys |-> IF k \in lost THEN None ELSE Published[k]]
    BY <1>1 DEF Published
  <1> QED BY <1>2 DEF PowerLoss, Abstract!Forget

\* Publication implements ImmutableStore, for every set of writers and digests.
THEOREM Refinement == Spec => ImplementsStore
  <1>1. Init => Abstract!Init
    BY DEF Init, Abstract!Init, Published
  <1>2. ASSUME Inv, [Next]_vars PROVE [Abstract!Next]_(Abstract!vars)
    <2>1. ASSUME NEW w \in Writers, Step(w) PROVE Abstract!Next \/ UNCHANGED <<Published, reply>>
      BY <1>2, <2>1, WriterMaps
    <2>2. ASSUME NEW lost \in SUBSET Keys, PowerLoss(lost) PROVE Abstract!Next
      BY <1>2, <2>2, PowerLossMaps DEF Abstract!Next
    <2>3. CASE UNCHANGED vars
      BY <2>3, SameStore DEF vars, Abstract!vars
    <2> QED BY <1>2, <2>1, <2>2, <2>3 DEF Next, Abstract!vars
  <1> QED BY <1>1, <1>2, InvariantHolds, PTL DEF Spec, ImplementsStore, Abstract!Spec
=============================================================================
