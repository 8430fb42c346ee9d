--------------------------- MODULE ImmutableStore ---------------------------
(***************************************************************************)
(* What evidence.Store and mutation's publishReport promise their callers: *)
(* a write-once map from input digests to documents.  The first writer of  *)
(* a key wins; a later writer of the same meaning is given the winner's    *)
(* document; a later writer of another meaning is refused.  A document is  *)
(* a meaning (what the digests compare) and a stamp (completion time,      *)
(* elapsed time: what they ignore).                                        *)
(***************************************************************************)
CONSTANTS
    Writers,    \* processes that publish
    Keys,       \* input digests
    Meanings,   \* canonical contents, equal iff the canonical digests are
    Stamps,     \* nonsemantic parts of a document
    None        \* absence

VARIABLES
    store,      \* store[k]: the document published under k, or None
    reply       \* reply[w]: what writer w asked for and has been told

Document == [meaning : Meanings, stamp : Stamps]

Statuses == {"busy", "stored", "reused", "conflict", "failed"}

Replies == [status : Statuses, key : Keys, document : Document]

TypeOK ==
    /\ store \in [Keys -> Document \cup {None}]
    /\ reply \in [Writers -> Replies \cup {None}]

Init ==
    /\ store = [k \in Keys |-> None]
    /\ reply = [w \in Writers |-> None]

Answer(w, status, document) ==
    reply' = [reply EXCEPT ![w] = [status |-> status, key |-> @.key, document |-> document]]

Busy(w) == reply[w] # None /\ reply[w].status = "busy"

Request(w, k, d) ==
    /\ reply[w] = None
    /\ reply' = [reply EXCEPT ![w] = [status |-> "busy", key |-> k, document |-> d]]
    /\ UNCHANGED store

Publish(w) ==
    /\ Busy(w)
    /\ store[reply[w].key] = None
    /\ store' = [store EXCEPT ![reply[w].key] = reply[w].document]
    /\ Answer(w, "stored", reply[w].document)

Reuse(w) ==
    /\ Busy(w)
    /\ store[reply[w].key] # None
    /\ store[reply[w].key].meaning = reply[w].document.meaning
    /\ Answer(w, "reused", store[reply[w].key])
    /\ UNCHANGED store

Refuse(w) ==
    /\ Busy(w)
    /\ store[reply[w].key] # None
    /\ store[reply[w].key].meaning # reply[w].document.meaning
    /\ Answer(w, "conflict", reply[w].document)
    /\ UNCHANGED store

Fail(w) ==
    /\ Busy(w)
    /\ Answer(w, "failed", reply[w].document)
    /\ UNCHANGED store

\* The writer returns, or its process is killed: nothing published is undone.
Release(w) ==
    /\ reply[w] # None
    /\ reply' = [reply EXCEPT ![w] = None]
    /\ UNCHANGED store

\* A machine failure may forget publications, never alter one.
Forget(lost) ==
    /\ store' = [k \in Keys |-> IF k \in lost THEN None ELSE store[k]]
    /\ reply' = [w \in Writers |-> None]

Next ==
    \/ \E w \in Writers :
        \/ \E k \in Keys, d \in Document : Request(w, k, d)
        \/ Publish(w)
        \/ Reuse(w)
        \/ Refuse(w)
        \/ Fail(w)
        \/ Release(w)
    \/ \E lost \in SUBSET Keys : Forget(lost)

vars == <<store, reply>>

Spec == Init /\ [][Next]_vars
=============================================================================
