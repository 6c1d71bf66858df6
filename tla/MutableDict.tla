---------------------------- MODULE MutableDict ----------------------------
(***************************************************************************)
(* The change tracking of nested `MutableDict` objects (type/object.py).   *)
(*                                                                         *)
(* A document is a tree of MutableDict objects on a heap.  The root keeps  *)
(* the marks; every nested object keeps a reference to a root in           *)
(* `to_update`, and in `_overwrite_key` the top-level key to mark there.   *)
(* Both are set when the object is made and never again, so they are right *)
(* only as long as the object stays where it was made.                     *)
(*                                                                         *)
(* What is written when a row is flushed is rewrite_update's answer for    *)
(* the row's root; the documents of several sessions and the stored        *)
(* document are the subject of ObjectColumn.tla.                           *)
(***************************************************************************)
EXTENDS RewriteUpdate, Naturals, FiniteSets

CONSTANTS
    Rows,
    Obj,               \* identities of MutableDict objects
    NoObj,             \* the attribute is not loaded
    NoKey,             \* `_overwrite_key` is None: the object was made as a root
    Applications       \* the applications that are looked at

Habits ==
    {"aliases",    \* it assigns MutableDict objects it already has
     "detaches",   \* it edits objects that are no longer part of a row
     "reassigns",  \* it edits a document it assigned and has not flushed yet
     "flushes",    \* it flushes before it commits
     "inherits"}   \* it calls dict's own mutators

\* The bounds of an application, and its habits: at most `maxLive` objects at a time, and
\* `maxNew` objects made from one plain dictionary.
Application == [maxLive : Nat, maxNew : Nat, habits : SUBSET Habits]

ASSUME IdentitiesAssumption ==
    /\ Obj \cap (Values \cup {Null, Absent, NoObj}) = {}
    /\ NoKey \notin Keys
ASSUME ApplicationsAssumption == Applications \subseteq Application

VARIABLES
    app,       \* the application; it never changes
    live,      \* the objects made so far
    items,     \* items[o]: the dictionary's content
    root,      \* `to_update`
    okey,      \* `_overwrite_key`
    changed,   \* `_changed_keys`
    deleted,   \* `_deleted_keys`
    parents,   \* `_parents`: the rows Mutable.changed() flags
    attr,      \* attr[r]: the row's document
    modified,  \* modified[r]: the attribute takes part in the next UPDATE
    stale      \* history: top-level keys edited, at any depth, since the last flush

heap == <<live, items, root, okey, changed, deleted, parents>>
vars == <<app, heap, attr, modified, stale>>

Aliasing         == "aliases" \in app.habits
DetachedEdits    == "detaches" \in app.habits
EditsReplacement == "reassigns" \in app.habits
FlushesEarly     == "flushes" \in app.habits
InheritedMutators == "inherits" \in app.habits

Node == [Keys -> Contents \cup Obj]

\* Every variable keeps its type: references stay on the heap, marks are sets of keys.
TypeOK ==
    /\ app      \in Applications
    /\ live     \subseteq Obj
    /\ items    \in [Obj -> Node]
    /\ root     \in [Obj -> Obj]
    /\ okey     \in [Obj -> Keys \cup {NoKey}]
    /\ changed  \in [Obj -> SUBSET Keys]
    /\ deleted  \in [Obj -> SUBSET Keys]
    /\ parents  \in [Obj -> SUBSET Rows]
    /\ attr     \in [Rows -> Obj \cup {NoObj}]
    /\ modified \in [Rows -> BOOLEAN]
    /\ stale    \in [Rows -> SUBSET Keys]

Init ==
    /\ app      \in Applications
    /\ live     = {}
    /\ items    = [o \in Obj |-> NoDocument]
    /\ root     = [o \in Obj |-> o]
    /\ okey     = [o \in Obj |-> NoKey]
    /\ changed  = [o \in Obj |-> {}]
    /\ deleted  = [o \in Obj |-> {}]
    /\ parents  = [o \in Obj |-> {}]
    /\ attr     = [r \in Rows |-> NoObj]
    /\ modified = [r \in Rows |-> FALSE]
    /\ stale    = [r \in Rows |-> {}]

-----------------------------------------------------------------------------
(* Reachability, as the least set closed under "is an item of".            *)

Closed(S) == \A o \in S, k \in Keys : items[o][k] \in Obj => items[o][k] \in S
Under(x)  == {o \in Obj : \A S \in SUBSET Obj : x \in S /\ Closed(S) => o \in S}

\* The top-level keys of row r under which object o is found.
KeysAbove(r, o) ==
    IF attr[r] = NoObj THEN {}
    ELSE {j \in Keys : items[attr[r]][j] \in Obj /\ o \in Under(items[attr[r]][j])}

Attached(o) == \E r \in Rows : attr[r] = o \/ KeysAbove(r, o) # {}

\* The keys of row r whose stored value an edit of o[k] makes out of date.
Outdated(r, o, k) == KeysAbove(r, o) \cup (IF attr[r] = o THEN {k} ELSE {})

-----------------------------------------------------------------------------
(* MutableDict.                                                            *)

\* Faulty variant: a nested object records its own key.
OwnKeyOfItem(o, k) == k

\* The key that an edit of o[k] is recorded under.
OwnKey(o, k) == IF okey[o] = NoKey THEN k ELSE okey[o]

\* Faulty variant: each level of a converted dictionary is made with its own key.
ConvertsWithItemKeys(N, n, f, g, top) ==
    /\ n \in N
    /\ N \subseteq Obj \ live
    /\ g[n] = top
    /\ \A p \in N, k \in Keys : f[p][k] \in N => f[p][k] # n /\ g[f[p][k]] = k
    /\ \A m \in N \ {n} : \E p \in N \ {m}, k \in Keys : f[p][k] = m

\* N is a set of new objects that one plain dictionary becomes: its top is n, f gives
\* their items and g their `_overwrite_key`.  `__init__` converts nested dictionaries
\* and leaves MutableDict objects as they are.
Converts(N, n, f, g, top) ==
    /\ n \in N
    /\ N \subseteq Obj \ live
    /\ f \in [N -> [Keys -> Contents \cup N \cup (IF Aliasing THEN live ELSE {})]]
    /\ g \in [N -> Keys \cup {NoKey}]
    /\ g[n] = top
    /\ \A p \in N, k \in Keys : f[p][k] \in N =>
        /\ f[p][k] # n
        /\ g[f[p][k]] = (IF g[p] = NoKey THEN k ELSE g[p])
    /\ \A m \in N \ {n} : \E p \in N \ {m}, k \in Keys : f[p][k] = m

\* Faulty variant: `to_update` is not handed on.
MakeSelfRooted(N, f, g, to) ==
    /\ live' = live \cup N
    /\ root' = [o \in Obj |-> IF o \in N THEN o ELSE root[o]]
    /\ okey' = [o \in Obj |-> IF o \in N THEN g[o] ELSE okey[o]]

\* The new objects are put on the heap, all with the same `to_update`.
Make(N, f, g, to) ==
    /\ live' = live \cup N
    /\ root' = [o \in Obj |-> IF o \in N THEN to ELSE root[o]]
    /\ okey' = [o \in Obj |-> IF o \in N THEN g[o] ELSE okey[o]]

\* `Mutable.changed()` of object o.  flag_modified raises for a row whose attribute is
\* expired, and then the rows that come after it are not flagged.
Flag(o) ==
    LET present == {r \in parents[o] : attr[r] # NoObj} IN
    \E flagged \in (IF present = parents[o] THEN {present} ELSE SUBSET present) :
        modified' = [r \in Rows |-> modified[r] \/ r \in flagged]

\* Faulty variant: the change is recorded and changed() is not called.
OnKeyChangedUnflagged(o, k) ==
    /\ deleted' = [deleted EXCEPT ![o] = @ \ {k}]
    /\ changed' = [changed EXCEPT ![o] = @ \cup {k}]
    /\ UNCHANGED modified

\* Faulty variant: the key stays marked as deleted.
OnKeyChangedKeepingDeletion(o, k) ==
    /\ changed' = [changed EXCEPT ![o] = @ \cup {k}]
    /\ Flag(o)
    /\ UNCHANGED deleted

\* `on_key_changed(k)` of object o.
OnKeyChanged(o, k) ==
    /\ deleted' = [deleted EXCEPT ![o] = @ \ {k}]
    /\ changed' = [changed EXCEPT ![o] = @ \cup {k}]
    /\ Flag(o)

Outdate(o, k) == stale' = [r \in Rows |-> stale[r] \cup Outdated(r, o, k)]

Unmarked(o) == changed[o] \cup deleted[o] = {}

MayEdit(o) ==
    /\ o \in live
    /\ DetachedEdits \/ Attached(o)
    /\ EditsReplacement \/ ~\E r \in Rows :
        /\ attr[r] = o \/ KeysAbove(r, o) # {}
        /\ modified[r]
        /\ Unmarked(attr[r])

\* `o[k] = c`, for a value that is no plain dictionary.
SetItem(o, k, c) ==
    /\ MayEdit(o)
    /\ c \in Values \cup {Null} \cup (IF Aliasing THEN live ELSE {})
    /\ items' = [items EXCEPT ![o][k] = c]
    /\ OnKeyChanged(root[o], OwnKey(o, k))
    /\ Outdate(o, k)
    /\ UNCHANGED <<live, root, okey, parents, attr>>

\* `o[k] = {...}`: the plain dictionary is converted, with o's `to_update`.
SetDict(o, k, N, n, f, g) ==
    /\ MayEdit(o)
    /\ Converts(N, n, f, g, OwnKey(o, k))
    /\ Make(N, f, g, root[o])
    /\ items' = [p \in Obj |-> IF p \in N THEN f[p]
                               ELSE IF p = o THEN [items[o] EXCEPT ![k] = n]
                               ELSE items[p]]
    /\ OnKeyChanged(root[o], OwnKey(o, k))
    /\ Outdate(o, k)
    /\ UNCHANGED <<parents, attr>>

\* `del o[k]`.
DelItem(o, k) ==
    /\ MayEdit(o)
    /\ items[o][k] # Absent
    /\ items' = [items EXCEPT ![o][k] = Absent]
    /\ IF okey[o] = NoKey
       THEN /\ deleted' = [deleted EXCEPT ![o] = @ \cup {k}]
            /\ Flag(o)
            /\ UNCHANGED changed
       ELSE OnKeyChanged(root[o], okey[o])
    /\ Outdate(o, k)
    /\ UNCHANGED <<live, root, okey, parents, attr>>

\* `update`, `setdefault`, `pop`, `popitem`, `clear` and `|=` are dict's own: they change
\* items, here one of them, convert nothing, mark nothing and call nothing.  A plain
\* dictionary stays one, and is a value whose own edits are such changes too.
Mutate(o, k, c) ==
    /\ InheritedMutators
    /\ MayEdit(o)
    /\ c \in Contents \cup (IF Aliasing THEN live ELSE {})
    /\ c # items[o][k]
    /\ items' = [items EXCEPT ![o][k] = c]
    /\ Outdate(o, k)
    /\ UNCHANGED <<live, root, okey, changed, deleted, parents, attr, modified>>

-----------------------------------------------------------------------------
(* The row's attribute.                                                    *)

\* A plain dictionary becomes the row's document: `coerce`, then `_parents`.
Wrap(r, N, n, f, g) ==
    /\ Converts(N, n, f, g, NoKey)
    /\ Make(N, f, g, n)
    /\ items' = [p \in Obj |-> IF p \in N THEN f[p] ELSE items[p]]
    /\ attr'  = [attr EXCEPT ![r] = n]
    /\ UNCHANGED <<changed, deleted>>

\* Faulty variant: the object is made its own parent.
AdoptItself(r, n) == parents' = [parents EXCEPT ![n] = @ \cup {n}]

\* The old document forgets the row, unless it is not there to be asked.
Adopt(r, n) ==
    parents' = [o \in Obj |->
        IF o = n THEN parents[o] \cup {r}
        ELSE IF o = attr[r] THEN parents[o] \ {r}
        ELSE parents[o]]

\* The stored document arrives as plain dictionaries.
Load(r, N, n, f, g) ==
    /\ attr[r] = NoObj
    /\ \A p \in N, k \in Keys : f[p][k] \notin live
    /\ Wrap(r, N, n, f, g)
    /\ Adopt(r, n)
    /\ UNCHANGED <<modified, stale>>

\* `row.data = {...}`.
Replace(r, N, n, f, g) ==
    /\ Wrap(r, N, n, f, g)
    /\ Adopt(r, n)
    /\ modified' = [modified EXCEPT ![r] = TRUE]
    /\ stale'    = [stale EXCEPT ![r] = Keys]

\* `row.data = o` for an object the application has: coerce returns it as it is.
Share(r, o) ==
    /\ Aliasing
    /\ o \in live
    /\ o # attr[r]
    /\ attr'     = [attr EXCEPT ![r] = o]
    /\ Adopt(r, o)
    /\ modified' = [modified EXCEPT ![r] = TRUE]
    /\ stale'    = [stale EXCEPT ![r] = Keys]
    /\ UNCHANGED <<live, items, root, okey, changed, deleted>>

Settle(r) ==
    /\ modified' = [modified EXCEPT ![r] = FALSE]
    /\ stale'    = [stale EXCEPT ![r] = {}]

\* What the UPDATE of row r would write now.
Sent(r) ==
    IF modified[r]
    THEN WrittenKeys(items[attr[r]], changed[attr[r]], deleted[attr[r]])
    ELSE {}

\* The UPDATE is sent; the marks stay as they are.  One that sets nothing, since all keys
\* it was to set are gone, is refused, and the session can only be rolled back.
Flush(r) ==
    /\ FlushesEarly
    /\ modified[r]
    /\ Sent(r) # {}
    /\ Settle(r)
    /\ UNCHANGED <<heap, attr>>

\* Commit, rollback or expire: the attribute is dropped, its objects live on.
Expire(r) ==
    /\ attr[r] # NoObj
    /\ attr' = [attr EXCEPT ![r] = NoObj]
    /\ Settle(r)
    /\ UNCHANGED heap

\* The application lets go of the objects in G and Python reclaims them: nothing that
\* stays refers to them, as an item or in `to_update`.
Collect(G) ==
    /\ G # {}
    /\ \A r \in Rows : attr[r] \notin G
    /\ \A o \in live \ G : root[o] \notin G /\ \A k \in Keys : items[o][k] \notin G
    /\ live'    = live \ G
    /\ items'   = [o \in Obj |-> IF o \in G THEN NoDocument ELSE items[o]]
    /\ root'    = [o \in Obj |-> IF o \in G THEN o ELSE root[o]]
    /\ okey'    = [o \in Obj |-> IF o \in G THEN NoKey ELSE okey[o]]
    /\ changed' = [o \in Obj |-> IF o \in G THEN {} ELSE changed[o]]
    /\ deleted' = [o \in Obj |-> IF o \in G THEN {} ELSE deleted[o]]
    /\ parents' = [o \in Obj |-> IF o \in G THEN {} ELSE parents[o]]
    /\ UNCHANGED <<attr, modified, stale>>

\* The sets of new objects one plain dictionary may become.
NewObjects ==
    {N \in SUBSET (Obj \ live) : /\ Cardinality(N) \in 1 .. app.maxNew
                                 /\ Cardinality(live \cup N) <= app.maxLive}
NewItems(N) == [N -> [Keys -> Contents \cup N \cup (IF Aliasing THEN live ELSE {})]]

Step ==
    \/ \E o \in live, k \in Keys :
        \/ \E c \in Values \cup {Null} \cup live : SetItem(o, k, c)
        \/ DelItem(o, k)
        \/ \E c \in Contents \cup live : Mutate(o, k, c)
    \/ \E N \in NewObjects : \E n \in N, f \in NewItems(N), g \in [N -> Keys \cup {NoKey}] :
        \/ \E o \in live, k \in Keys : SetDict(o, k, N, n, f, g)
        \/ \E r \in Rows : Load(r, N, n, f, g) \/ Replace(r, N, n, f, g)
    \/ \E r \in Rows :
        \/ \E o \in live : Share(r, o)
        \/ Flush(r)
        \/ Expire(r)
    \/ \E G \in SUBSET live : Collect(G)

Next == Step /\ UNCHANGED app

Spec == Init /\ [][Next]_vars

-----------------------------------------------------------------------------
(* Properties.                                                             *)

\* Change tracking reaches every level: the UPDATE a flush would send now covers each
\* top-level key with an edit below it, however deep (__setitem__, on_key_changed).
EditsAreRecorded == \A r \in Rows : stale[r] \subseteq Sent(r)

\* It does so for an application that keeps each object in one document, edits only
\* objects of a document, flushes a document it assigned before it edits it, and calls
\* none of the mutators that MutableDict inherits from dict.
NoNestedEditIsLost ==
    ~Aliasing /\ ~DetachedEdits /\ ~EditsReplacement /\ ~InheritedMutators =>
        EditsAreRecorded

\* A row with an edit below it, however deep, takes part in the next flush, also when the
\* application edits what it assigned, or objects of documents that were replaced or have
\* expired (changed() flags the parents and raises for one that has expired).
EditedRowsAreFlagged ==
    ~Aliasing /\ ~InheritedMutators => \A r \in Rows : stale[r] # {} => modified[r]

\* Change tracking is exact: the UPDATE covers no key without an edit below it, so the
\* siblings of an edited sub-document are never written (_overwrite_key).  It takes an
\* application without the habits that break it, and documents without a key that is
\* false: an edit under such a key alone has the whole document written.
OnlyEditsAreSent ==
    ~Aliasing /\ ~DetachedEdits /\ ~FlushesEarly /\ FalsyKeys = {} =>
        \A r \in Rows : Sent(r) \subseteq stale[r]

\* The root and the key that an object was given when it was made are those it is found
\* under, for every object of a row's document (__init__, _convert_dict).
OwnersAreCurrent ==
    ~Aliasing => \A r \in Rows, o \in Obj : \A j \in KeysAbove(r, o) :
        root[o] = attr[r] /\ okey[o] = j

\* However objects are shared, moved or kept after they were deleted: `to_update` leads
\* to a root in one step, and only roots carry marks.  Unless the application calls a
\* mutator of dict, a key that has a value again is never left marked as deleted, which
\* would have rewrite_update store NULL for it.
MarksAreOnRoots ==
    \A o \in live :
        /\ root[root[o]] = root[o] /\ okey[root[o]] = NoKey
        /\ ~Unmarked(o) => root[o] = o
        /\ ~InheritedMutators => \A k \in deleted[o] : items[o][k] = Absent
=============================================================================
