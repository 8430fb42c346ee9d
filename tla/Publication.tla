----------------------------- MODULE Publication -----------------------------
(***************************************************************************)
(* The file protocol behind evidence.Store (internal/evidence) and         *)
(* publishReport (internal/mutation): prepare the directories, create a    *)
(* temporary file beside the destination, write, sync and close it, link   *)
(* it to the destination without replacement and, when the destination     *)
(* exists, read it back and compare.  Several processes publish at once;   *)
(* every file operation may fail; a process may be killed between any two  *)
(* of them; the machine may lose power.                                    *)
(***************************************************************************)
CONSTANTS
    Writers, Keys, Meanings, Stamps, None,
    Torn        \* the content of a file whose bytes are missing or partial

VARIABLES
    pc,         \* pc[w]: the next file operation of writer w
    reply,      \* reply[w]: request and outcome, as in ImmutableStore
    temporary,  \* temporary[w]: w's temporary file, or None
    destination \* destination[k]: the file linked under digest k, or None

vars == <<pc, reply, temporary, destination>>

Document == [meaning : Meanings, stamp : Stamps]

Statuses == {"busy", "stored", "reused", "conflict", "failed"}

Replies == [status : Statuses, key : Keys, document : Document]

File == [content : Document \cup {Torn}, synced : BOOLEAN]

ASSUME PublicationAssumption == None \notin Document \cup Replies \cup File /\ Torn \notin Document

Steps == {"idle", "prepare", "write", "sync", "close", "link", "compare", "remove", "return"}

TypeOK ==
    /\ pc \in [Writers -> Steps]
    /\ reply \in [Writers -> Replies \cup {None}]
    /\ temporary \in [Writers -> File \cup {None}]
    /\ destination \in [Keys -> File \cup {None}]

Init ==
    /\ pc = [w \in Writers |-> "idle"]
    /\ reply = [w \in Writers |-> None]
    /\ temporary = [w \in Writers |-> None]
    /\ destination = [k \in Keys |-> None]

-----------------------------------------------------------------------------

Goto(w, step) == pc' = [pc EXCEPT ![w] = step]

Answer(w, status, document) ==
    reply' = [reply EXCEPT ![w] = [status |-> status, key |-> @.key, document |-> document]]

Fail(w) == Answer(w, "failed", reply[w].document)

\* A caller hands over a validated document for a digest.
Store(w, k, d) ==
    /\ pc[w] = "idle"
    /\ reply' = [reply EXCEPT ![w] = [status |-> "busy", key |-> k, document |-> d]]
    /\ Goto(w, "prepare")
    /\ UNCHANGED <<temporary, destination>>

\* Directories and CreateTemp: without a temporary file there is nothing to remove.
Prepare(w) ==
    /\ pc[w] = "prepare"
    /\ \/ /\ temporary' = [temporary EXCEPT ![w] = [content |-> Torn, synced |-> FALSE]]
          /\ Goto(w, "write")
          /\ UNCHANGED reply
       \/ /\ Fail(w)
          /\ Goto(w, "return")
          /\ UNCHANGED temporary
    /\ UNCHANGED destination

\* A failed write skips Sync; Close still runs.
Write(w) ==
    /\ pc[w] = "write"
    /\ \/ /\ temporary' = [temporary EXCEPT ![w] = [content |-> reply[w].document, synced |-> FALSE]]
          /\ Goto(w, "sync")
          /\ UNCHANGED reply
       \/ /\ Fail(w)
          /\ Goto(w, "close")
          /\ UNCHANGED temporary
    /\ UNCHANGED destination

\* Mutant of Sync: the file is linked without having reached the disk.
SyncSkipped(w) ==
    /\ pc[w] = "sync"
    /\ Goto(w, "close")
    /\ UNCHANGED <<temporary, reply, destination>>

Sync(w) ==
    /\ pc[w] = "sync"
    /\ \/ /\ temporary' = [temporary EXCEPT ![w] = [content |-> @.content, synced |-> TRUE]]
          /\ UNCHANGED reply
       \/ /\ Fail(w)
          /\ UNCHANGED temporary
    /\ Goto(w, "close")
    /\ UNCHANGED destination

\* Mutant of Close: a close error returns without the removal.
CloseLeaks(w) ==
    /\ pc[w] = "close"
    /\ \/ /\ reply[w].status = "busy"
          /\ Goto(w, "link")
          /\ UNCHANGED reply
       \/ /\ Fail(w)
          /\ Goto(w, "return")
    /\ UNCHANGED <<temporary, destination>>

Close(w) ==
    /\ pc[w] = "close"
    /\ \/ /\ reply[w].status = "busy"
          /\ Goto(w, "link")
          /\ UNCHANGED reply
       \/ /\ Fail(w)
          /\ Goto(w, "remove")
    /\ UNCHANGED <<temporary, destination>>

\* Mutant of Link: rename, which replaces an existing destination.
LinkReplaces(w) ==
    /\ pc[w] = "link"
    /\ destination' = [destination EXCEPT ![reply[w].key] = temporary[w]]
    /\ Answer(w, "stored", reply[w].document)
    /\ Goto(w, "remove")
    /\ UNCHANGED temporary

\* link(2) never replaces: os.ErrExist leads to the comparison.
Link(w) ==
    /\ pc[w] = "link"
    /\ LET k == reply[w].key IN
       \/ /\ destination[k] = None
          /\ destination' = [destination EXCEPT ![k] = temporary[w]]
          /\ Answer(w, "stored", reply[w].document)
          /\ Goto(w, "remove")
       \/ /\ destination[k] # None
          /\ Goto(w, "compare")
          /\ UNCHANGED <<reply, destination>>
       \/ /\ Fail(w)
          /\ Goto(w, "remove")
          /\ UNCHANGED destination
    /\ UNCHANGED temporary

\* The existing file parses and means the same: equivalent() for records,
\* equal canonical digests for reports.
Matches(file, document) ==
    /\ file.content # Torn
    /\ file.content.meaning = document.meaning

\* Mutant of Compare: the existing file is taken for a match unread.
CompareUnread(w) ==
    /\ pc[w] = "compare"
    /\ Answer(w, "reused", reply[w].document)
    /\ Goto(w, "remove")
    /\ UNCHANGED <<temporary, destination>>

Compare(w) ==
    /\ pc[w] = "compare"
    /\ LET existing == destination[reply[w].key] IN
       \/ /\ Matches(existing, reply[w].document)
          /\ Answer(w, "reused", existing.content)
       \/ /\ ~Matches(existing, reply[w].document)
          /\ Answer(w, "conflict", reply[w].document)
       \/ Fail(w)
    /\ Goto(w, "remove")
    /\ UNCHANGED <<temporary, destination>>

\* The deferred Remove; its failure is ignored and leaves a file that is
\* neither a destination nor an inspected name, so it is not kept here.
Remove(w) ==
    /\ pc[w] = "remove"
    /\ temporary' = [temporary EXCEPT ![w] = None]
    /\ Goto(w, "return")
    /\ UNCHANGED <<reply, destination>>

Return(w) ==
    /\ pc[w] = "return"
    /\ reply' = [reply EXCEPT ![w] = None]
    /\ Goto(w, "idle")
    /\ UNCHANGED <<temporary, destination>>

-----------------------------------------------------------------------------

\* The process is killed: the page cache, and so every file, survives.
Kill(w) ==
    /\ pc[w] # "idle"
    /\ pc' = [pc EXCEPT ![w] = "idle"]
    /\ reply' = [reply EXCEPT ![w] = None]
    /\ temporary' = [temporary EXCEPT ![w] = None]
    /\ UNCHANGED destination

\* Power is lost: every process dies, unsynced bytes are gone, and a link may
\* be gone too, since no directory is ever synced.
PowerLoss(lost) ==
    /\ pc' = [w \in Writers |-> "idle"]
    /\ reply' = [w \in Writers |-> None]
    /\ temporary' = [w \in Writers |-> None]
    /\ destination' =
        [k \in Keys |->
            IF k \in lost \/ destination[k] = None THEN None
            ELSE IF destination[k].synced THEN destination[k]
            ELSE [content |-> Torn, synced |-> FALSE]]

Step(w) ==
    \/ \E k \in Keys, d \in Document : Store(w, k, d)
    \/ Prepare(w)
    \/ Write(w)
    \/ Sync(w)
    \/ Close(w)
    \/ Link(w)
    \/ Compare(w)
    \/ Remove(w)
    \/ Return(w)
    \/ Kill(w)

Next ==
    \/ \E w \in Writers : Step(w)
    \/ \E lost \in SUBSET Keys : PowerLoss(lost)

Spec == Init /\ [][Next]_vars

-----------------------------------------------------------------------------

\* The deferred Remove covers every path after CreateTemp: a writer owns a
\* temporary file exactly from its creation to its removal, and has an answer
\* when it comes to remove it.
Controlled(w) ==
    /\ reply[w] = None <=> pc[w] = "idle"
    /\ temporary[w] # None <=> pc[w] \notin {"idle", "prepare", "return"}
    /\ pc[w] \in {"prepare", "write", "sync", "link", "compare"} => reply[w].status = "busy"
    /\ pc[w] = "close" => reply[w].status \in {"busy", "failed"}
    /\ pc[w] \in {"remove", "return"} => reply[w].status # "busy"

\* What is about to be linked is the whole document, on disk.
Prepared(w) ==
    /\ pc[w] = "sync" => temporary[w].content = reply[w].document
    /\ pc[w] \in {"close", "link", "compare"} /\ reply[w].status = "busy"
        => temporary[w] = [content |-> reply[w].document, synced |-> TRUE]
    /\ pc[w] = "compare" => destination[reply[w].key] # None

Answered(w) ==
    reply[w] # None /\ reply[w].status \in {"stored", "reused"}
        => /\ destination[reply[w].key] # None
           /\ destination[reply[w].key].content = reply[w].document

PublishedSynced == \A k \in Keys : destination[k] # None => destination[k].synced

\* A file a reader can find under a digest is whole, whatever died when: the
\* bytes are synced before the link makes the name (evidence.go:312-321,
\* report_store.go:100-110).
PublishedComplete ==
    \A k \in Keys : destination[k] # None => destination[k].content \in Document

\* A writer told "stored" or "reused" holds the document that the store really
\* holds, although others published between its link and its read
\* (evidence.go:326-334, report_store.go:114-121).
AnswersAgreeWithStore == \A w \in Writers : Answered(w)

\* The inductive invariant: types, control, what is prepared, what is published.
Inv ==
    /\ TypeOK
    /\ \A w \in Writers : Controlled(w) /\ Prepared(w)
    /\ PublishedSynced
    /\ PublishedComplete
    /\ AnswersAgreeWithStore

\* The refinement mapping: the store is the set of linked files.
Published == [k \in Keys |-> IF destination[k] = None THEN None ELSE destination[k].content]

Abstract == INSTANCE ImmutableStore WITH store <- Published

\* Every publication, with all its failures and crashes, is one atomic request
\* to the write-once store the callers rely on (the doc comments at
\* evidence.go:259-264 and report_store.go:85-86).
ImplementsStore == Abstract!Spec
=============================================================================
