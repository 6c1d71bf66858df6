--------------------------- MODULE ObjectColumn ---------------------------
(***************************************************************************)
(* One OBJECT column of one row, edited by several ORM sessions.           *)
(*                                                                         *)
(* Each session holds its own `MutableDict` (type/object.py): the items,   *)
(* `_changed_keys` and `_deleted_keys`.  SQLAlchemy's unit of work decides *)
(* when the attribute takes part in an UPDATE, `rewrite_update`            *)
(* (compiler.py) decides which keys the UPDATE writes, and CrateDB commits *)
(* every statement on its own, so that `do_rollback` (dialect.py) does     *)
(* nothing.  Nested documents are the subject of MutableDict.tla: here a   *)
(* nested edit is an edit of the top-level key it is recorded under.       *)
(***************************************************************************)
EXTENDS RewriteUpdate

CONSTANTS
    Sessions,
    Applications  \* the applications that are looked at

Habits ==
    {"keeps",      \* its sessions have `expire_on_commit=False`
     "flushes",    \* it flushes before it commits (autoflush does)
     "reassigns",  \* it edits a document it assigned and has not flushed yet
     "inherits"}    \* it calls dict methods that MutableDict does not override

\* The sessions at work on the row, the keys that documents have, and the habits.
Application == [sessions : SUBSET Sessions, keys : SUBSET Keys, habits : SUBSET Habits]

ASSUME ApplicationsAssumption == Applications \subseteq Application

VARIABLES
    app,        \* the application; it never changes
    doc,        \* the column's document in CrateDB
    loaded,     \* loaded[s]: the attribute is present in the session
    items,      \* items[s]: the content of the session's MutableDict
    changed,    \* `_changed_keys`
    deleted,    \* `_deleted_keys`
    pending,    \* whether SQLAlchemy has the attribute in `committed_state`, and how
    committed,  \* the value it has there, when the attribute was replaced
    edited      \* history: the keys the application edited since the last flush

tracker == <<items, changed, deleted>>
vars == <<app, doc, loaded, tracker, pending, committed, edited>>

ExpireOnCommit    == "keeps" \notin app.habits
FlushesEarly      == "flushes" \in app.habits
EditsReplacement  == "reassigns" \in app.habits
InheritedMutators == "inherits" \in app.habits

\* The documents of the application.
Uses(d) == \A k \in Keys \ app.keys : d[k] = Absent

Pending == {"clean",     \* not modified
            "flagged",   \* Mutable.changed(): modified, no previous value known
            "replaced"}  \* assigned, the previous value is known

\* Every variable keeps its type: a session's marks are sets of keys, its items a document.
TypeOK ==
    /\ app       \in Applications
    /\ doc       \in Documents
    /\ loaded    \in [Sessions -> BOOLEAN]
    /\ items     \in [Sessions -> Documents]
    /\ changed   \in [Sessions -> SUBSET Keys]
    /\ deleted   \in [Sessions -> SUBSET Keys]
    /\ pending   \in [Sessions -> Pending]
    /\ committed \in [Sessions -> Documents]
    /\ edited    \in [Sessions -> SUBSET Keys]

Init ==
    /\ app       \in Applications
    /\ doc       \in Documents /\ Uses(doc)
    /\ loaded    = [s \in Sessions |-> FALSE]
    /\ items     = [s \in Sessions |-> NoDocument]
    /\ changed   = [s \in Sessions |-> {}]
    /\ deleted   = [s \in Sessions |-> {}]
    /\ pending   = [s \in Sessions |-> "clean"]
    /\ committed = [s \in Sessions |-> NoDocument]
    /\ edited    = [s \in Sessions |-> {}]

-----------------------------------------------------------------------------
(* The MutableDict of a session.                                           *)

\* Faulty variant: the top-level key, None for a root, is marked from the start.
WrappedWithMark(s, d) ==
    /\ items'   = [items   EXCEPT ![s] = d]
    /\ changed' = [changed EXCEPT ![s] = {Null}]
    /\ deleted' = [deleted EXCEPT ![s] = {}]

\* `coerce` and `__init__`: a new MutableDict holds d and has no marks.
Wrapped(s, d) ==
    /\ items'   = [items   EXCEPT ![s] = d]
    /\ changed' = [changed EXCEPT ![s] = {}]
    /\ deleted' = [deleted EXCEPT ![s] = {}]

\* `Mutable.changed()`: the attribute is modified, its previous value forgotten.
MarkModified(s) ==
    /\ pending'   = [pending   EXCEPT ![s] = "flagged"]
    /\ committed' = [committed EXCEPT ![s] = NoDocument]

\* An attribute replaced by an equal value (`__eq__`) is left out of the UPDATE.
IsDirty(s) ==
    /\ pending[s] # "clean"
    /\ ~(pending[s] = "replaced" /\ items[s] = committed[s])

\* Only a whole document that was assigned is dirty without a mark.
MayEdit(s, k) ==
    /\ loaded[s]
    /\ k \in app.keys
    /\ EditsReplacement \/ ~IsDirty(s) \/ changed[s] \cup deleted[s] # {}

\* Faulty variant: a key that was deleted before is still marked deleted.
SetItemKeepingDeletion(s, k, c) ==
    /\ MayEdit(s, k)
    /\ items'   = [items   EXCEPT ![s][k] = c]
    /\ changed' = [changed EXCEPT ![s] = @ \cup {k}]
    /\ MarkModified(s)
    /\ edited'  = [edited EXCEPT ![s] = @ \cup {k}]
    /\ UNCHANGED <<doc, loaded, deleted>>

\* `data[k] = c`, and `on_key_changed(k)` on the root.
SetItem(s, k, c) ==
    /\ MayEdit(s, k)
    /\ items'   = [items   EXCEPT ![s][k] = c]
    /\ deleted' = [deleted EXCEPT ![s] = @ \ {k}]
    /\ changed' = [changed EXCEPT ![s] = @ \cup {k}]
    /\ MarkModified(s)
    /\ edited'  = [edited EXCEPT ![s] = @ \cup {k}]
    /\ UNCHANGED <<doc, loaded>>

\* `del data[k]` on the root; a missing key raises KeyError and changes nothing.
DelItem(s, k) ==
    /\ MayEdit(s, k)
    /\ items[s][k] # Absent
    /\ items'   = [items   EXCEPT ![s][k] = Absent]
    /\ deleted' = [deleted EXCEPT ![s] = @ \cup {k}]
    /\ MarkModified(s)
    /\ edited'  = [edited EXCEPT ![s] = @ \cup {k}]
    /\ UNCHANGED <<doc, loaded, changed>>

\* `data.update`, `pop`, `setdefault`, ...: dict's own, they bypass `__setitem__`.
Mutate(s, k, c) ==
    /\ InheritedMutators
    /\ MayEdit(s, k)
    /\ c # items[s][k]
    /\ items'  = [items EXCEPT ![s][k] = c]
    /\ edited' = [edited EXCEPT ![s] =
          IF pending[s] = "replaced"
          THEN IF items'[s] = committed[s] THEN {} ELSE Keys
          ELSE @ \cup {k}]
    /\ UNCHANGED <<doc, loaded, changed, deleted, pending, committed>>

-----------------------------------------------------------------------------
(* The unit of work.                                                       *)

\* The attribute is read, or its row fetched: the stored document is wrapped.
Load(s) ==
    /\ ~loaded[s]
    /\ loaded' = [loaded EXCEPT ![s] = TRUE]
    /\ Wrapped(s, doc)
    /\ UNCHANGED <<doc, pending, committed, edited>>

\* `row.data = d`: the value before is kept if it was loaded and unmodified.
Replace(s, d) ==
    LET known == loaded[s] /\ pending[s] # "flagged"
        old   == IF pending[s] = "clean" THEN items[s] ELSE committed[s]
    IN
    /\ Uses(d)
    /\ Wrapped(s, d)
    /\ loaded'    = [loaded EXCEPT ![s] = TRUE]
    /\ pending'   = [pending EXCEPT ![s] = IF known THEN "replaced" ELSE "flagged"]
    /\ committed' = [committed EXCEPT ![s] = IF known THEN old ELSE NoDocument]
    /\ edited'    = [edited EXCEPT ![s] = IF known /\ d = old THEN {} ELSE Keys]
    /\ UNCHANGED doc

AfterUpdate(s) ==
    IF IsDirty(s) THEN Updated(doc, items[s], changed[s], deleted[s]) ELSE doc

\* An UPDATE that assigns nothing, since all keys it was to set are gone, is refused.
IsAccepted(s) == IsDirty(s) => WrittenKeys(items[s], changed[s], deleted[s]) # {}

\* The attribute leaves `committed_state`; the MutableDict and its marks stay.
Settle(s) ==
    /\ pending'   = [pending   EXCEPT ![s] = "clean"]
    /\ committed' = [committed EXCEPT ![s] = NoDocument]
    /\ edited'    = [edited    EXCEPT ![s] = {}]

\* The attribute is dropped; the next read wraps the document anew.
Expire(s) ==
    /\ loaded' = [loaded EXCEPT ![s] = FALSE]
    /\ Wrapped(s, NoDocument)
    /\ Settle(s)

\* `session.flush()`, or the autoflush before a query.
Flush(s) ==
    /\ FlushesEarly
    /\ pending[s] # "clean"
    /\ IsAccepted(s)
    /\ doc' = AfterUpdate(s)
    /\ Settle(s)
    /\ UNCHANGED <<loaded, tracker>>

\* `session.commit()`: a flush, and the end of the transaction.
Commit(s) ==
    /\ loaded[s]
    /\ IsAccepted(s)
    /\ doc' = AfterUpdate(s)
    /\ IF ExpireOnCommit THEN Expire(s)
                         ELSE Settle(s) /\ UNCHANGED <<loaded, tracker>>

\* The UPDATE is refused or raises.  It may have reached CrateDB all the same, and there is no
\* transaction to take it back; the session rolls back and expires.
FlushFails(s) ==
    /\ IsDirty(s)
    /\ doc' \in {doc, AfterUpdate(s)}
    /\ Expire(s)

\* `session.rollback()`, expire or refresh: `do_rollback` sends nothing.
Rollback(s) ==
    /\ loaded[s]
    /\ Expire(s)
    /\ UNCHANGED doc

SessionNext(s) ==
    \/ Load(s)
    \/ \E k \in Keys :
        \/ \E c \in Values \cup {Null} : SetItem(s, k, c)
        \/ DelItem(s, k)
        \/ \E c \in Contents : Mutate(s, k, c)
    \/ \E d \in Documents : Replace(s, d)
    \/ Flush(s)
    \/ Commit(s)
    \/ FlushFails(s)
    \/ Rollback(s)

Next ==
    /\ \E s \in app.sessions : SessionNext(s)
    /\ UNCHANGED app

Spec == Init /\ [][Next]_vars

-----------------------------------------------------------------------------
(* Properties.                                                             *)

\* A deleted key is stored as NULL: a reader finds the key, with None in it.
Shown(c) == IF c = Absent THEN Null ELSE c

\* Whatever the application did to a key since the last flush, the UPDATE a flush would
\* send now (rewrite_update) stores the session's value.
EditsReachStore ==
    \A s \in Sessions : \A k \in edited[s] :
        Shown(AfterUpdate(s)[k]) = Shown(items[s][k])

\* The UPDATE a flush would send now leaves every key alone that the session did not edit
\* since its last flush.
OnlyEditsReachStore ==
    \A s \in Sessions : \A k \in Keys \ edited[s] :
        AfterUpdate(s)[k] = doc[k]

\* No edit by item assignment or deletion is lost, whatever marks the MutableDict has left
\* over from earlier flushes, unless the edit is made to a document just assigned.
NoEditIsLost == ~EditsReplacement /\ ~InheritedMutators => EditsReachStore

\* No edit of another session is overwritten, however a session edits, if its flushes end
\* in expiry and no key is false to Python.
OthersAreLeftAlone ==
    ExpireOnCommit /\ ~FlushesEarly /\ app.keys \cap FalsyKeys = {} => OnlyEditsReachStore

\* A session alone with the row sees in its unmodified MutableDict what is stored,
\* whatever it edited, flushed, replaced and rolled back before (do_rollback).
ViewIsStored ==
    ~EditsReplacement /\ ~InheritedMutators =>
        \A s \in Sessions :
            app.sessions = {s} /\ loaded[s] /\ pending[s] = "clean"
                => \A k \in Keys : Shown(items[s][k]) = Shown(doc[k])

\* The document, the sessions' views and their edits as PartialUpdate sees them.
ShownDocument(d) == [k \in Keys |-> Shown(d[k])]
Views == [s \in Sessions |-> ShownDocument(items[s])]
DirtyKeys(s) == IF IsDirty(s) THEN WrittenKeys(items[s], changed[s], deleted[s]) ELSE {}

Promise == INSTANCE PartialUpdate WITH
    Contents <- Values \cup {Null},
    doc      <- ShownDocument(doc),
    view     <- Views,
    dirty    <- [s \in Sessions |-> DirtyKeys(s)]

\* The sessions, their marks and rewrite_update together implement the promise, PartialUpdate,
\* in an application that commits each of its flushes: its document is published from the start,
\* and every step edits a view, publishes exactly the keys edited since the last publication with
\* what the view holds, or forgets them.
Disciplined ==
    /\ ExpireOnCommit /\ ~FlushesEarly
    /\ ~EditsReplacement /\ ~InheritedMutators
    /\ app.keys \cap FalsyKeys = {}

ImplementsPartialUpdate ==
    /\ Disciplined => Promise!Init
    /\ [][Disciplined => [Promise!Next]_(Promise!vars)]_vars
=============================================================================
