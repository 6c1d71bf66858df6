----------------------------- MODULE RowUpdates -----------------------------
(***************************************************************************)
(* From the rows a session has modified to the UPDATE statements CrateDB   *)
(* executes, on SQLAlchemy 1.3, 1.4 and 2.                                 *)
(*                                                                         *)
(* SQLAlchemy's unit of work makes one set of parameters of each modified  *)
(* row and executes those of neighbouring rows together when their names   *)
(* are equal.  `crate_before_execute` and `rewrite_update` (compiler.py)   *)
(* change the parameters, `visit_update` (compat/core20.py, core10.py)     *)
(* makes the SET list of their names.  SQLAlchemy 1.3 gives the handler    *)
(* the parameters of all these rows, and one statement, made of those of   *)
(* the first, is executed for them.  A row is a function from its fields,  *)
(* the plain columns and the keys of its OBJECT column, to their contents. *)
(***************************************************************************)
EXTENDS RewriteUpdate, Naturals

CONSTANTS
    Rows,         \* the rows, by primary key
    Columns,      \* the columns apart from the primary key and the OBJECT column
    Stamped,      \* those with an `onupdate` function
    Data,         \* the OBJECT column
    Label,        \* the parameter of the WHERE clause
    Applications  \* the applications that are looked at

Fields == Columns \cup Keys

ASSUME RowsAssumption == Rows \subseteq Nat
ASSUME NamesAssumption ==
    /\ Stamped \subseteq Columns
    /\ Columns \cap Keys = {}
    /\ {Data, Label} \cap Fields = {}
    /\ Data # Label

Habits ==
    {"keeps",       \* its session has `expire_on_commit=False`
     "shares",      \* another client writes the table
     "batches",     \* it modifies several rows before it flushes
     "replaces",    \* it assigns whole documents
     "statements",  \* it updates all rows by `query.update`
     "quotes",      \* the names of its OBJECT column or of its keys need quotes
     "inherits",    \* it calls the mutators of dict
     "legacy"}      \* it runs on SQLAlchemy 1.3

Application == [rows : SUBSET Rows, fields : SUBSET Fields, habits : SUBSET Habits]

ASSUME ApplicationsAssumption == Applications \subseteq Application

VARIABLES
    app,       \* the application; it never changes
    stored,    \* the rows in CrateDB
    loaded,    \* the rows the session has in memory
    held,      \* what it has there
    changed,   \* `_changed_keys` of the rows' MutableDicts
    deleted,   \* `_deleted_keys`
    modified,  \* modified[r]: the attributes of r in `committed_state`
    queue,     \* the rows whose parameters the running flush has still to execute
    outcome,   \* of the last flush
    edited,    \* history: the fields edited since the last flush
    foreign,   \* history: the fields written by others since the session knew them
    astray     \* history: one statement was executed for rows with different parameters,
               \* or a document was changed without a mark

tracker == <<held, changed, deleted>>
vars == <<app, stored, loaded, tracker, modified, queue, outcome, edited, foreign, astray>>

Keeps  == "keeps"  \in app.habits
Legacy == "legacy" \in app.habits
InheritedMutators == "inherits" \in app.habits

Outcomes == {"ok",       \* it is running, or has ended
             "failed",   \* a statement failed
             "refused"}  \* SQLAlchemy or the SQL parser did not accept a statement

Attributes == Columns \cup {Data}
Row == {row \in [Fields -> Contents] : \A c \in Columns : row[c] # Absent}

\* The rows of the application.
Uses(row) ==
    \A f \in Fields \ app.fields : row[f] = IF f \in Keys THEN Absent ELSE Null

NoRow == [f \in Fields |-> IF f \in Keys THEN Absent ELSE Null]
Attribute(f) == IF f \in Keys THEN Data ELSE f

\* Every variable keeps its type: a column is never without a value, marks are keys.
TypeOK ==
    /\ app      \in Applications
    /\ stored   \in [Rows -> Row]
    /\ loaded   \in SUBSET Rows
    /\ held     \in [Rows -> Row]
    /\ changed  \in [Rows -> SUBSET Keys]
    /\ deleted  \in [Rows -> SUBSET Keys]
    /\ modified \in [Rows -> SUBSET Attributes]
    /\ queue    \in SUBSET Rows
    /\ outcome  \in Outcomes
    /\ edited   \in [Rows -> SUBSET Fields]
    /\ foreign  \in [Rows -> SUBSET Fields]
    /\ astray    \in BOOLEAN

Init ==
    /\ app      \in Applications
    /\ stored   \in [Rows -> Row]
    /\ \A r \in Rows : Uses(stored[r]) /\ (r \notin app.rows => stored[r] = NoRow)
    /\ loaded   = {}
    /\ held     = [r \in Rows |-> NoRow]
    /\ changed  = [r \in Rows |-> {}]
    /\ deleted  = [r \in Rows |-> {}]
    /\ modified = [r \in Rows |-> {}]
    /\ queue    = {}
    /\ outcome  = "ok"
    /\ edited   = [r \in Rows |-> {}]
    /\ foreign  = [r \in Rows |-> {}]
    /\ astray    = FALSE

-----------------------------------------------------------------------------
(* Parameters and the statement made of them.  The name k of Keys stands   *)
(* for the parameter `data['k']`.                                          *)

\* The parameters SQLAlchemy makes of a modified row.
ParameterNames(r) == modified[r] \cup {Label}

\* Faulty variant: the document stays among the parameters.
RewrittenNamesWithDocument(names, items, marked, unset) ==
    IF Data \in names /\ IsRewritten(marked, unset)
    THEN names \cup AssignedKeys(items, marked, unset)
    ELSE names

\* The names `rewrite_update` makes of them.
RewrittenNames(names, items, marked, unset) ==
    IF Data \in names /\ IsRewritten(marked, unset)
    THEN (names \ {Data}) \cup AssignedKeys(items, marked, unset)
    ELSE names

\* Faulty variant: the parameters take the place of what the statement has.
ValueNamesReplaced(own, names) == names

\* `clause.values(...)` adds the parameters to those the statement has of its own.
ValueNames(own, names) == own \cup names

\* `_get_crud_params`: columns take a value by their name, or by `onupdate`.  A name that
\* is no column is not complained about, the check for it is disabled.
ColumnTargets(names) == names \cap Attributes
DefaultTargets(names) == (Stamped \cap app.fields) \ names

\* Faulty variant: names in brackets are left to `_get_crud_params`.
SubscriptTargetsIgnored(names) == {}

\* The names with a bracket, added to the SET list as they are.
SubscriptTargets(names) == names \cap Keys

\* The fields a SET list with these targets assigns.
AssignedFields(names) ==
    (IF Data \in ColumnTargets(names) THEN Keys ELSE {})
        \cup (ColumnTargets(names) \ {Data})
        \cup DefaultTargets(names)
        \cup SubscriptTargets(names)

\* The row once the statement has run on it, `onupdate` having returned t.
RowAfter(row, names, values, t) ==
    [f \in Fields |-> IF f \in DefaultTargets(names) THEN t
                      ELSE IF f \in AssignedFields(names) THEN values[f]
                      ELSE row[f]]

\* The document the session holds.
Document(r) == [k \in Keys |-> held[r][k]]

\* The values of the rewritten parameters: a deleted key is assigned NULL.
ParameterValues(r) ==
    [f \in Fields |->
        IF f \in Keys
        THEN WrittenContent(Document(r), changed[r], deleted[r], f)
        ELSE held[r][f]]

SentNames(r) ==
    ValueNames({}, RewrittenNames(ParameterNames(r), Document(r), changed[r], deleted[r]))

\* The parameter that gives field f its value in a SET list of these names.
ParameterOf(f, names) == IF f \in Keys /\ Data \in names THEN Data ELSE f

\* The values for row q in a statement that was made of row r.  `clause.values(...)` has
\* bound r's values to it, so that no parameter is `REQUIRED`: q's values take their place
\* by name, and what q has no parameter for keeps the value of r.
BoundValues(r, q) ==
    [f \in Fields |-> IF ParameterOf(f, SentNames(r)) \in SentNames(q)
                      THEN ParameterValues(q)[f]
                      ELSE ParameterValues(r)[f]]

\* The store when the statement made of row r has been executed for these rows.
Executed(r, rows, t) ==
    [q \in Rows |-> IF q \in rows THEN RowAfter(stored[q], SentNames(r), BoundValues(r, q), t)
                                  ELSE stored[q]]

\* The SET list has a target, and none is a subscript whose names need quotes or escapes:
\* what rewrite_update puts together is written as it is.
IsParsed(names) ==
    /\ ColumnTargets(names) \cup DefaultTargets(names) \cup SubscriptTargets(names) # {}
    /\ "quotes" \in app.habits => SubscriptTargets(names) = {}

-----------------------------------------------------------------------------
(* The application and its session.                                        *)

\* A row is read: one MutableDict without marks, nothing modified.
Load(r) ==
    /\ r \in app.rows \ loaded
    /\ queue = {}
    /\ loaded'  = loaded \cup {r}
    /\ held'    = [held EXCEPT ![r] = stored[r]]
    /\ changed' = [changed EXCEPT ![r] = {}]
    /\ deleted' = [deleted EXCEPT ![r] = {}]
    /\ foreign' = [foreign EXCEPT ![r] = {}]
    /\ UNCHANGED <<stored, modified, queue, outcome, edited, astray>>

\* An attribute is assigned or edited by the application, between two flushes.
Edits(r, fields) ==
    /\ r \in loaded
    /\ queue = {}
    /\ fields \subseteq app.fields
    /\ "batches" \in app.habits \/ \A q \in Rows \ {r} : modified[q] = {}
    /\ edited' = [edited EXCEPT ![r] = @ \cup fields]
    /\ UNCHANGED <<stored, loaded, queue, outcome, foreign>>

\* Bound: a column is assigned once, and another value, between two flushes.
SetColumn(r, c, v) ==
    /\ Edits(r, {c})
    /\ c \notin modified[r]
    /\ v # held[r][c]
    /\ held'     = [held EXCEPT ![r][c] = v]
    /\ modified' = [modified EXCEPT ![r] = @ \cup {c}]
    /\ UNCHANGED <<changed, deleted, astray>>

\* Faulty variant: the mark is the name of the column.
MarkedByColumn(r, k) ==
    /\ changed' = [changed EXCEPT ![r] = @ \cup {Data}]
    /\ deleted' = [deleted EXCEPT ![r] = @ \ {k}]

\* `MutableDict.__setitem__` and `on_key_changed`.
Marked(r, k) ==
    /\ changed' = [changed EXCEPT ![r] = @ \cup {k}]
    /\ deleted' = [deleted EXCEPT ![r] = @ \ {k}]

\* A document that was assigned is flushed before it is edited (see ObjectColumn).
MayEdit(r) == Data \in modified[r] => changed[r] \cup deleted[r] # {}

SetItem(r, k, v) ==
    /\ Edits(r, {k})
    /\ MayEdit(r)
    /\ held'     = [held EXCEPT ![r][k] = v]
    /\ modified' = [modified EXCEPT ![r] = @ \cup {Data}]
    /\ Marked(r, k)
    /\ UNCHANGED astray

\* `MutableDict.__delitem__`.
DelItem(r, k) ==
    /\ Edits(r, {k})
    /\ MayEdit(r)
    /\ held[r][k] # Absent
    /\ held'     = [held EXCEPT ![r][k] = Absent]
    /\ deleted'  = [deleted EXCEPT ![r] = @ \cup {k}]
    /\ modified' = [modified EXCEPT ![r] = @ \cup {Data}]
    /\ UNCHANGED <<changed, astray>>

\* `update`, `pop` and the other mutators that MutableDict inherits from dict.
Mutate(r, k, v) ==
    /\ InheritedMutators
    /\ Edits(r, {k})
    /\ MayEdit(r)
    /\ v # held[r][k]
    /\ held'   = [held EXCEPT ![r][k] = v]
    /\ astray' = TRUE
    /\ UNCHANGED <<changed, deleted, modified>>

\* `row.data = d`, with another document.
ReplaceDocument(r) ==
    /\ "replaces" \in app.habits
    /\ Data \notin modified[r]
    /\ Edits(r, Keys \cap app.fields)
    /\ \E row \in Row :
        /\ \E k \in Keys : row[k] # held[r][k]
        /\ \A c \in Columns : row[c] = held[r][c]
        /\ Uses(row)
        /\ held' = [held EXCEPT ![r] = row]
    /\ changed'  = [changed EXCEPT ![r] = {}]
    /\ deleted'  = [deleted EXCEPT ![r] = {}]
    /\ modified' = [modified EXCEPT ![r] = @ \cup {Data}]
    /\ UNCHANGED astray

-----------------------------------------------------------------------------
(* Flushes.                                                                *)

\* `session.commit()` begins with a flush of what is modified.
BeginFlush ==
    /\ queue = {}
    /\ queue' = {r \in loaded : modified[r] # {}}
    /\ queue' # {}
    /\ outcome' = "ok"
    /\ UNCHANGED <<stored, loaded, tracker, modified, edited, foreign, astray>>

\* What the session has in memory is dropped.
Expire ==
    /\ loaded'   = {}
    /\ held'     = [r \in Rows |-> NoRow]
    /\ changed'  = [r \in Rows |-> {}]
    /\ deleted'  = [r \in Rows |-> {}]
    /\ foreign'  = [r \in Rows |-> {}]
    /\ queue'    = {}

\* Nothing is modified any more.
Settle ==
    /\ modified' = [r \in Rows |-> {}]
    /\ edited'   = [r \in Rows |-> {}]

\* The rows that follow in the order of their keys and have parameters of the same names.
IsNext(r) == r \in queue /\ \A q \in queue : r <= q
Group(r) ==
    {q \in queue : \A p \in queue : p <= q => ParameterNames(p) = ParameterNames(r)}

\* SQLAlchemy 1.3 executes one statement for a group, later versions for a row alone.
IsExecuted(r) ==
    /\ IsNext(r)
    /\ Legacy \/ Group(r) = {r}
    /\ IsParsed(SentNames(r))

\* The session takes over what `onupdate` returned (`compiler.update_prefetch`).
HeldAfter(q, names, t) ==
    [f \in Fields |-> IF f \in DefaultTargets(names) THEN t ELSE held[q][f]]

TakeOver(r, t) ==
    /\ queue'   = queue \ Group(r)
    /\ held'    = [q \in Rows |-> IF q \in Group(r) THEN HeldAfter(q, SentNames(r), t)
                                                    ELSE held[q]]
    /\ foreign' = [q \in Rows |-> IF q \in Group(r)
                                  THEN foreign[q] \ AssignedFields(SentNames(r))
                                  ELSE foreign[q]]
    /\ UNCHANGED <<loaded, changed, deleted>>

Mix(r) == astray' = (astray \/ \E q \in Group(r) : SentNames(q) # SentNames(r))

\* The parameters are rewritten and the statement is executed.
\* Bound: `onupdate` returns the same for all rows of a statement.
ExecuteUpdate(r, t) ==
    /\ IsExecuted(r)
    /\ stored' = Executed(r, Group(r), t)
    /\ Mix(r)
    /\ UNCHANGED outcome
    /\ IF queue = Group(r)
       THEN Settle /\ (IF Keeps THEN TakeOver(r, t) ELSE Expire)
       ELSE TakeOver(r, t) /\ UNCHANGED <<modified, edited>>

\* An exception ends the flush; the session rolls back, which takes nothing back.
Abandon(how) ==
    /\ outcome' = how
    /\ Settle
    /\ Expire

\* Several rows, on SQLAlchemy 1.4 and later: they are handed over as `multiparams`, with
\* empty `params`; the handler takes `params` for the only row and returns no parameters
\* at all, and the parameter of the WHERE clause has no value.
ExecuteMany(r) ==
    /\ IsNext(r)
    /\ ~Legacy
    /\ Group(r) # {r}
    /\ Abandon("refused")
    /\ UNCHANGED <<stored, astray>>

\* CrateDB reads another name than the one that is meant, or no target at all.
IsNotParsed(r) ==
    /\ IsNext(r)
    /\ Legacy \/ Group(r) = {r}
    /\ ~IsParsed(SentNames(r))
    /\ Abandon("refused")
    /\ UNCHANGED <<stored, astray>>

\* The reply is an error or is lost; the statement may have been applied, to some rows of
\* its group (`do_executemany`).
ExecuteFails(r, t) ==
    /\ IsExecuted(r)
    /\ \E rows \in SUBSET Group(r) : stored' = Executed(r, rows, t)
    /\ Mix(r)
    /\ Abandon("failed")

\* `session.rollback()`.
Rollback ==
    /\ queue = {}
    /\ loaded # {}
    /\ Expire
    /\ Settle
    /\ UNCHANGED <<stored, outcome, astray>>

\* `query.update({...})`, after an autoflush: the statement has its values already and its
\* parameters are empty.  The session takes the values over, not what `onupdate` returned.
UpdateAll(own, row, t) ==
    LET names == ValueNames(own, {}) IN
    /\ stored' = [r \in Rows |-> IF r \in app.rows THEN RowAfter(stored[r], names, row, t)
                                                   ELSE stored[r]]
    /\ held' = [r \in Rows |-> IF r \in loaded
                    THEN [f \in Fields |-> IF Attribute(f) \in own THEN row[f] ELSE held[r][f]]
                    ELSE held[r]]
    /\ changed' = [r \in Rows |-> IF Data \in own THEN {} ELSE changed[r]]
    /\ deleted' = [r \in Rows |-> IF Data \in own THEN {} ELSE deleted[r]]
    /\ foreign' = [r \in Rows |-> IF r \in loaded
                    THEN {f \in foreign[r] : Attribute(f) \notin own}
                            \cup ((Stamped \cap app.fields) \ own)
                    ELSE foreign[r]]
    /\ UNCHANGED <<loaded, modified, queue, outcome, edited, astray>>

UpdateStatement ==
    /\ "statements" \in app.habits
    /\ queue = {}
    /\ \A r \in Rows : modified[r] = {}
    /\ \E own \in (SUBSET (Attributes \cap (app.fields \cup {Data}))) \ {{}} :
       \E row \in {w \in Row : Uses(w)}, t \in Values : UpdateAll(own, row, t)

\* Another client writes one field, at any time.
Elsewhere(r, f, v) ==
    /\ "shares" \in app.habits
    /\ r \in app.rows
    /\ f \in app.fields
    /\ f \in Columns => v # Absent
    /\ stored'  = [stored EXCEPT ![r][f] = v]
    /\ foreign' = IF r \in loaded THEN [foreign EXCEPT ![r] = @ \cup {f}] ELSE foreign
    /\ UNCHANGED <<loaded, tracker, modified, queue, outcome, edited, astray>>

Next ==
    /\ \/ \E r \in Rows :
            \/ Load(r)
            \/ \E c \in Columns, v \in Values \cup {Null} : SetColumn(r, c, v)
            \/ \E k \in Keys :
                \/ \E v \in Values \cup {Null} : SetItem(r, k, v)
                \/ DelItem(r, k)
                \/ \E v \in Contents : Mutate(r, k, v)
            \/ ReplaceDocument(r)
            \/ \E t \in Values : ExecuteUpdate(r, t)
            \/ ExecuteMany(r)
            \/ IsNotParsed(r)
            \/ \E t \in Values : ExecuteFails(r, t)
            \/ \E f \in Fields, v \in Contents : Elsewhere(r, f, v)
       \/ BeginFlush
       \/ Rollback
       \/ UpdateStatement
    /\ UNCHANGED app

Spec == Init /\ [][Next]_vars

-----------------------------------------------------------------------------
(* Properties.                                                             *)

\* A deleted key is stored as NULL.
Shown(c) == IF c = Absent THEN Null ELSE c

\* What the session holds unmodified is what is stored, in every field that nobody else
\* has written: rewriting, the SET list and the values of `onupdate` agree.  This and the
\* next three hold until something goes astray: a mutator of dict changes a document, or,
\* on SQLAlchemy 1.3, one statement is executed for rows whose documents have different
\* marks and stores the first row's values in the others.
HeldIsStored ==
    ~astray => \A r \in loaded : modified[r] = {} =>
        \A f \in Fields \ foreign[r] : Shown(held[r][f]) = Shown(stored[r][f])

\* The step is one of a running flush, before anything went astray.
FlushStep == queue # {} /\ queue' # queue /\ ~astray'

\* When the last statement of a flush has run, every field edited in any of its rows is
\* stored, whatever parameters it became, unless another client has written it since.
EditsArrive ==
    [][FlushStep /\ queue' = {} /\ outcome' = "ok" =>
        \A r \in Rows : \A f \in edited[r] :
            r \in queue \/ f \notin foreign[r]
                => Shown(stored'[r][f]) = Shown(held[r][f])]_vars

\* No statement of a flush changes a field that was not edited, `onupdate` columns apart,
\* if flushes end in expiry and no key is false to Python.
OthersSurvive ==
    [][FlushStep /\ ~Keeps /\ app.fields \cap FalsyKeys = {} =>
        \A r \in Rows : \A f \in Fields \ (edited[r] \cup Stamped) :
            stored'[r][f] = stored[r][f]]_vars

\* A row is stored with all of its edits or not at all, also by a flush that fails, unless
\* something went astray: what rewrite_update and visit_update make of it is one statement,
\* and complete.
RowsAreWhole ==
    [][FlushStep =>
        \A r \in Rows :
            \/ stored'[r] = stored[r]
            \/ \A f \in edited[r] : Shown(stored'[r][f]) = Shown(held[r][f])]_vars

\* The rows, those that the session has in memory, and its flush as EditedRows has them.
Shows(row) == [f \in Fields |-> Shown(row[f])]
NotLoaded  == [f \in {Label} |-> Null]
StoredRows == [r \in Rows |-> Shows(stored[r])]
SeenRows   == [r \in Rows |-> IF r \in loaded THEN Shows(held[r]) ELSE NotLoaded]

Promise == INSTANCE EditedRows WITH
    Unknown <- NotLoaded,
    rows    <- StoredRows,
    view    <- SeenRows,
    writing <- queue,
    failed  <- outcome # "ok"

\* rewrite_update, visit_update and the unit of work together implement the promise,
\* EditedRows, under the conditions above (nothing went astray, no marks are kept, no key is
\* false): a session's edits reach CrateDB row by row, by its flushes only, and a flush
\* changes nothing else, next to other clients and failures.
ImplementsEditedRows ==
    /\ Promise!Init
    /\ [][~Keeps /\ app.fields \cap FalsyKeys = {} /\ ~astray'
            => [Promise!Next]_(Promise!vars)]_vars

\* rewrite_update never leaves an UPDATE without a target, which would be refused with all
\* the edits of its flush: whichever keys were set, deleted and set again, through flushes
\* that keep their marks, and flushes that failed, every modified row has a column or a key
\* to assign.  It does when a mutator of dict has removed a key that is marked as changed.
NoneIsRefused ==
    (/\ Legacy \/ "batches" \notin app.habits
     /\ "quotes" \notin app.habits
     /\ ~InheritedMutators)
        => outcome # "refused"

\* A flush is not refused by SQLAlchemy or the SQL parser: parameters of a bulk update are
\* left as they are.
FlushesAreAccepted == outcome # "refused"
=============================================================================
