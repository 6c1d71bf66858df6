# A TLA+ model of sqlalchemy-cratedb

These modules model the parts of the SQLAlchemy dialect for CrateDB (`src/sqlalchemy_cratedb/`)
that keep state or take decisions which depend on the order of events. TLC checks them on small
instances; for the core, TLAPS proves the properties for every value of the constants.
Paths below are relative to `src/sqlalchemy_cratedb/` unless they start with `docs/` or `tests/`.

## 1. The system

The dialect sits between three things it does not own: the application, SQLAlchemy (its unit of
work, its expression compiler, its event system) and a CrateDB cluster behind an HTTP client.
It runs in the threads of the application. CrateDB has no transactions: every statement is
committed on its own, `COMMIT` and `ROLLBACK` do nothing, and a row that was written is visible to
searches only after a refresh.

| Part | Code | State it keeps | Operations | What makes it correct |
|---|---|---|---|---|
| Change tracking of OBJECT columns | `type/object.py` | items, `_changed_keys`, `_deleted_keys`, `to_update`, `_overwrite_key` of each `MutableDict`; SQLAlchemy's `_parents` | `coerce`, `__init__`, `__setitem__`, `__delitem__`, `on_key_changed`, `_convert_dict`, `__eq__` | every edit at every depth is marked under its top-level key, on the root of the row; nothing else is marked |
| Partial updates | `compiler.py` `rewrite_update`, `crate_before_execute` | none; reads the marks | replaces a document parameter by one parameter per marked key | an UPDATE writes the keys that were edited, with their present values, and no others |
| Transactions | `dialect.py` `do_rollback`, `do_execute*` | `context.last_result` | nothing is rolled back | what a session sees after a failure or a rollback is what is stored |
| UPDATE compiler | `compat/core{10,14,20}.py` | none | `visit_update`, `_get_crud_params` | parameters that name no column (`data['a']`) reach the SET clause once, in order |
| DDL and type compilers, type map | `compiler.py`, `dialect.py` | none | table options, column constraints, type names | an option that was given is rendered; a type survives creation and reflection |
| Statement compiler | `compiler.py` | none | casts, subscripts, `ANY`, limits | layout of text |
| Connection | `dialect.py` `connect`, `util.py` | none | servers, credentials, `ssl` and `sslmode` | the mode asked for is the mode used |
| Reflection | `dialect.py` | SQLAlchemy's reflection cache | `get_schema_names`, `get_table_names`, `get_columns`, `get_pk_constraint`, ... | all answers speak of the same schema, and of its present state |
| Date and time types | `dialect.py` | none | bind and result processors | a value read back is the value stored |
| Arrays | `type/array.py` | `MutableList`'s content and parents | list mutators | a list that changed is flushed |
| Vectors, geography, `MATCH` | `type/vector.py`, `type/geo.py`, `predicate.py` | none | conversion and rendering | values round-trip |
| Table options at run time | `support/pandas.py` `table_kwargs` | the process-wide `Table._new` (`_init` before 2.0) | a context manager patches and restores it | tables created inside get the options; outside nothing remains |
| Bulk insert | `support/pandas.py` `insert_bulk` | none | one statement, outside SQLAlchemy's events | |
| Refresh after DML | `support/polyfill.py`, `support/util.py` | event listeners; which tables are refreshed is the cluster's state | `refresh_dirty`, `receive_after_execute`, `refresh_table` | a reader after a commit sees it |
| Uniqueness and key polyfills | `support/polyfill.py` | patched `Column.__init__` | `check_uniqueness`, `now()` as a default | no two rows with the same values |
| Relation names | `support/util.py` | none | `quote_relation_name` | quoting twice is quoting once |
| SQLAlchemy backports, package | `compat/api13.py`, `sa_version.py`, `__init__.py` | none | | |

### How the parts interact

* The application edits a `MutableDict`. The object at the root calls `Mutable.changed()`, which
  calls SQLAlchemy's `flag_modified` for every row in `_parents`.
* A flush asks SQLAlchemy for the attributes that are modified (a document that was assigned is
  compared with the one before, through `MutableDict.__eq__`), builds an UPDATE with the whole
  document as a parameter and executes it. The `before_execute` event reaches
  `crate_before_execute`, and `rewrite_update` reads the marks of the `MutableDict` it is handed.
* A commit expires the attributes (`expire_on_commit`); a rollback, which sends nothing, always
  does. The next read makes a new `MutableDict` of what is stored.
* `refresh_dirty` runs after a flush, `receive_after_execute` after each statement,
  `check_uniqueness` before each inserted row.
* `table_kwargs` changes a class that every thread of the process uses.

### What is hard here

Marks are recorded at one time and used at another, by objects that outlive the flush; ownership
of a nested object is fixed when it is made; several sessions hold copies of one document; a
failed statement may have been applied; and process-wide patches are taken and restored by
several threads. `PROJECT.json` lists each such place with the properties that cover it.

## 2. Modules

```
RewriteUpdate        rewrite_update as operators on one document
   |        \
ObjectColumn  MutableDict      sessions and a row        nested objects on a heap
   |    \         |      \
   |  ObjectColumnProofs  MutableDictProofs
   |  (refines PartialUpdate)
MCObjectColumn, MCMutableDict  instances for TLC
RowUpdates    from modified rows to statements RowUpdatesProofs, MCRowUpdates (extends RewriteUpdate)
              (refines EditedRows)
TableKwargs   the process-wide patch           TableKwargsProofs, MCTableKwargs
              (refines ScopedOptions)
TableRefresh  stored and visible rows, events  TableRefreshProofs, MCTableRefresh
              (refines ConsistentRows)
TypeNaming    types to CrateDB and back
   |
Catalog       create, inspect, reflect, copy   CatalogProofs, MCCatalog
TypedValues   bind and result processors
   |
TypedColumn   a typed column in sessions       TypedColumnProofs, MCTypedColumn
              (refines SharedColumn)
```

### RewriteUpdate

A document is a function from `Keys` to contents. `Absent` is a key that is missing and `Null` a
key with `None`: CrateDB and the session tell them apart, and `rewrite_update` stores `Null` where
the session deleted the key. `FalsyKeys` are the keys for which Python's `any(...)` (line 60) does
not count, the empty string for example. `WrittenKeys` and `WrittenContent` say which keys the
UPDATE writes and what; `Updated` is the stored document afterwards. `RowUpdates` puts it into the
statement of a whole row.

### ObjectColumn

One row's column, several sessions. A session has the attribute's presence (`loaded`), its
`MutableDict` (`items`, `changed`, `deleted`) and SQLAlchemy's record of the modification
(`pending`, `committed`): `flagged` by `Mutable.changed()`, with no previous value, or `replaced`
by assignment, with one to compare.

| Action | Code |
|---|---|
| `Load` | a read of the attribute; `MutableDict.coerce` |
| `SetItem`, `DelItem` | `__setitem__`, `__delitem__` with everything they call |
| `Mutate` | the methods of `dict` that are not overridden: items change, nothing is marked |
| `Replace` | `row.data = {...}` |
| `Flush` | `session.flush()` or autoflush, with `rewrite_update`, marks kept |
| `Commit` | a flush and the end of the transaction, with expiry if `ExpireOnCommit` |
| `FlushFails` | the statement raises, applied or not; rollback and expiry |
| `Rollback` | `session.rollback()`, expire, refresh: nothing is sent (`do_rollback`) |

The history variable `edited` holds the keys edited since the last flush; no action reads it.
What the application and its sessions do is in `app` (see "Applications" below): its habits give
`ExpireOnCommit`, `FlushesEarly`, `EditsReplacement` (it edits a document it assigned and has not
flushed) and `InheritedMutators`, its keys may include falsy ones.

### PartialUpdate

What the documentation promises of such a column, in four variables' worth of nothing but the
document, the sessions' views and the keys they edited: a publication writes the keys that were
edited with the contents of the view. `ObjectColumn!ImplementsPartialUpdate` is the refinement;
the view is the session's items with missing keys read as `Null`, and the edited keys are those
the next UPDATE would write.

### MutableDict

The objects themselves: a heap of identities with items that may be other objects, `to_update`
(`root`), `_overwrite_key` (`okey`), the marks and the `_parents`. A plain dictionary that is
assigned becomes a set of new objects at once (`Converts`), each nested one with the root and the
top-level key of the object it is assigned to. `stale` is the history variable here: the top-level
keys with an edit at any depth below them.

`Share` and assignment of existing objects (`Aliasing`), edits of objects that no row reaches any
more (`DetachedEdits`), edits of replaced documents, early flushes and the mutators of `dict` that mark nothing (`Mutate`) are habits of the
application, so that each property is stated for what the application has to do for it to hold. `Collect` is
Python's reclamation: without it a finite heap would stop the behaviour.

### RowUpdates

One session, several rows of one table, and the path from its modified attributes to the statements
CrateDB executes. A row is a function from fields to contents; the fields are the plain columns and
the keys of the OBJECT column, and among parameter names the key `k` stands for `data['k']`.
`ParameterNames` (SQLAlchemy) become `RewrittenNames` (`rewrite_update`), `ValueNames`
(`clause.values`) and then three sets of targets, as in `compat/core20.py`: `ColumnTargets` and
`DefaultTargets` (`_get_crud_params`) and `SubscriptTargets` (`visit_update`, lines 135 to 139). The
name of the WHERE parameter, `Label`, is among the values like every other and must end in none of them.

| Action | Code |
|---|---|
| `Load`, `SetColumn`, `SetItem`, `DelItem`, `ReplaceDocument` | edits of the application, as in `ObjectColumn`; a column is assigned once between two flushes |
| `BeginFlush` | SQLAlchemy collects the modified rows in the order of their primary keys |
| `ExecuteUpdate` | the next row, on SQLAlchemy 1.3 the next `Group` of rows: event handler, compilation, `do_execute` or `do_executemany`; after the last row the flush, or the commit, is over |
| `ExecuteMany` | neighbouring rows with parameters of the same names are one execution: on SQLAlchemy 1.4 and later `crate_before_execute` drops them |
| `IsNotParsed` | a subscript whose names need quotes or escapes, or a SET list without a target |
| `Mutate` | the methods of `dict` that are not overridden: the document changes, nothing is marked |
| `ExecuteFails` | the statement raises, applied to none, some or all of its rows |
| `UpdateStatement` | `query.update({...})`: values in the statement, no parameters |
| `Elsewhere` | another client writes a field, also between two statements of a flush |

`edited` and `foreign` are history variables. `onupdate` functions return any value; what they
return is stored and, by way of `compiler.update_prefetch`, taken over by the session.

On SQLAlchemy 1.3 (the habit `legacy`) the rows of a group do reach `rewrite_update`, and line 72 binds the values of
the first to the statement that is executed for all of them. A row gets its own value for every parameter it has, and the
first row's for every other (`BoundValues`). The history variable `astray` says that this has happened to rows whose documents have
different marks, or that a mutator of `dict` was called (`Mutate`); the properties hold until then, and fail without that
condition: one row's key `b` is stored in its neighbour that edited only `a`, and what the neighbour edited is not stored.

`EditedRows` is what this promises: rows, what the session sees of them, and a flush that stores them, one `Store`
or several, or fails somewhere in between (`Fail`); every step that touches the store says which rows and fields it
leaves alone. `ImplementsEditedRows` maps the store to `StoredRows`, the session to `SeenRows`, where a deleted key and one with
`None` look the same (`Shown`), and an open flush to `queue`. It holds for sessions that expire their rows with every flush and as long as
no key is falsy and nothing went `astray`: kept marks and falsy keys write fields that nobody edited.

Primary keys do not change, and the statements of the unit of work have no SQL expressions as values.

### TypedValues and TypedColumn

`TypedValues` has the processors as operators: `IsBound` (a bind processor does not raise), `Bound` (what
it returns), `IsRead` and `Read` (the same for result processors), and next to them what CrateDB does with a
parameter (`IsAccepted`, `Converted`). A datetime is a wall clock in microseconds and a zone; a text has one of the
forms `strftime`, `strptime` and `isoformat` know; a vector has items that CrateDB rounds to 32 bits. `to_db` looks into
nothing but arrays of numpy: of other values it compares the length (`Sized`, `Scalars`), and CrateDB rejects what is no list of numbers. `Meaning` and
`StoredMeaning` say what a value stands for without the processors: a day, an instant to the
millisecond, the items. The properties compare these two.

`TypedColumn` puts one column of one row into sessions. `status` is what SQLAlchemy knows of the attribute: `flagged`
by `Mutable.changed()`, or `replaced`, which is written only if the new value differs from the one before.

| Action | Code |
|---|---|
| `Load` | the row is fetched; the result processor may raise |
| `Assign` | `row.column = value`, with `MutableList.coerce` for a list |
| `Edit` | `__setitem__`, `append`, `insert`, `extend`, `pop`, `remove`: the list changes and reports it |
| `Mutate` | `del`, `clear`, `reverse`, `sort`, `+=`: the list changes and says nothing |
| `Commit` | the UPDATE, if the attribute is dirty (`IsDirty`), and expiry or not |
| `CommitFails` | the bind processor raises, CrateDB refuses the parameter, or the reply is lost; `do_rollback` |
| `Rollback`, `Elsewhere` | the session's rollback; another client |

`SharedColumn` is the column without conversions: a value, what each session sees of it, what it knows and whether its next
commit stores what it sees. `ImplementsSharedColumn` maps the stored value and the attributes to what they mean (`View`, `Known`), under
`KeepsValues`: equal values are of one day, their zones are kept, and lists report their changes.

What the checks found about values, apart from the properties: a column that holds the epoch is read as
`None` (`dialect.py`, lines 109 and 145), which is why `ReadsAreTrue` leaves it out; a `DateTime` in a column that was not
declared is stored as a text the result processor cannot parse, since the comment above it ("the date will be
returned in the format it was inserted") is right and none of the two formats is the one that the bind
processor writes (`IsReadable`); a column without time zone keeps the wall clock of a value with one
(`KeepsInstants`). The loss of precision of `value / 1e3` in floating point, some microseconds for dates in the
far future, is not modelled.

### TypeNaming and Catalog

`TypeNaming` is the way of a type through `CrateTypeCompiler` (`SqlName`), CrateDB's catalog (`ShownName`) and `TYPES_MAP`
(`ReflectedType`), as finite functions on names and dimensions.

`Catalog` has the relations of all schemas, an application that calls `create_all`, an `Inspector` with its cache of answers
and other clients. What a declaration becomes is `Specified`; what the compiler refuses is `IsCompiled`; the options of a
table are sorted into its clauses by `SpecifiedOptions`. Schemas are found in three ways: `Resolved` (CrateDB, for a statement
without schema), `ListedSchema` (`get_table_names`, `has_table`) and `ReadSchema` (`get_columns`, `get_pk_constraint`, which ask
for `doc`).

| Action | Code |
|---|---|
| `CreateAll`, `Ask` | `metadata.create_all()` and its `has_table` for each table, without cache |
| `CreateTable`, `CreateIsRefused`, `CreateIsLost` | `CREATE TABLE` for a table that was missing: done, refused by the compiler or by CrateDB, or with a reply that is lost |
| `AddForeignKeys` | `ALTER TABLE ... ADD` for tables that refer to each other: the constraint is empty |
| `NewInspector`, `Inspect` | `sa.inspect(engine)`, `get_table_names`, `get_view_names` |
| `Reflect`, `ReadColumns`, `ReadKey` | `Table(..., autoload_with=inspector)`: the dialect's questions one by one |
| `Copy` | `table.to_metadata(...).create()` of a table that was read |
| `Elsewhere` | another client creates, replaces or drops a table or view |

The history variable `stable` says that the catalog is as the inspector found it, `quiet` that nobody interfered since
`create_all` began. `OneSchema` is the condition that `AnswersAreTrue` needs: an application with `?schema=` in its URL that passes no
schema is told the tables of one schema and the columns of the table of the same name in `doc`
(`dialect.py`, lines 371 and 402). The names of views are those of all schemas: `AnswersAreTrue`
allows a name that another schema has a view of, since the statement of `get_view_names` has no place for the schema that it is given as a parameter
(`dialect.py`, line 382; `tests/dialect_test.py`, lines 124 to 128, expects that statement). Other results of the checks are conditions too: a view hides from `has_table` and fails
`create_all`, tables that refer to each other end in a statement CrateDB rejects (`NothingIsRejected`), a table with a
primary key is read as nullable and cannot be created again (`CopiesAreMade`).

### TableKwargs

`Table._new` (`_init` before SQLAlchemy 2.0) is represented by what it does to a table's options:
`current` is the sequence of the options its functions add, newest last, and the empty sequence is
SQLAlchemy's own function. A context is a record in `open` that goes through `Enter` (line 102
reads the function it will call), `Save` (`unittest.mock.patch` reads the function it will put
back), `Install` (it replaces the function) and `Exit`. `Received` says what options a table gets:
each function overrides what it is given and calls an older one, so the outermost context has the last word.
`ScopedOptions` says the same without functions:
opening a scope overrides what tables get inside of it, closing it brings back what they got outside.
`ImplementsScopedOptions` maps a context to a scope from `Install` to `Exit`; the reads before `Install` are no step of the promise.
Creating a table reads `Table._new` once and changes nothing, so that it is no action.
`Nested` says that the contexts of all threads open and close like parentheses; with one thread
they always do. A context that is left by an exception is left all the same.

### TableRefresh

A store with two states of each table, what is `stored` and what is `visible` to searches, and
sessions that flush. `work` is the unit of work (`session.new`, `dirty`, `deleted`), `unchecked` the
new rows whose `before_insert` check has not run, `todo` the statements that remain and
`refreshing` the tables a handler is about to refresh. `writer` is a history variable: the session
that answers for the content of a row; nobody does after a failure or a write no handler sees.

| Action | Code |
|---|---|
| `BeginFlush`, `Finish` | the start and the return of `session.flush()` |
| `Check` | `check_uniqueness`, before the inserts of the class; it may raise |
| `Write`, `WriteMisses` | one INSERT, UPDATE or DELETE, with `receive_after_execute` if the handler is on the engine |
| `AfterFlush` | `after_flush` with `refresh_dirty`, if the handler is on the session |
| `Refresh` | `refresh_table`; CrateDB makes the table's rows visible |
| `Execute` | a statement outside the unit of work: only the engine's handler sees it |
| `WriteRaw` | text, or `insert_bulk`: no handler sees it |
| `Fail` | a statement raises, applied or not; `do_rollback` takes nothing back |
| `RefreshAnyway` | CrateDB's periodic refresh, which may never come |

`ConsistentRows` is what a careful application may take the whole for: a database whose rows are found as soon as a
flush returns, with unique values. `ImplementsConsistentRows` maps what searches find (`Found`: a class finds a row that is in all of
the tables it joins), the flush under way (`Wanted`) and the rows that are still found after their deletion (`Doomed`); whether
tables are refreshed one by one, by whom and when, is not in it.

A class may be mapped to several tables (joined-table inheritance), and has one `__tablename__`
(`Named`). Each statement is one of one table, so that `HandlerTables` has the case of `polyfill.py`, line 117, only where
`clauseelement.table` is a `Table`; it does nothing for a `Join`, which the unit of work never writes to. `IsNext` is SQLAlchemy's order as far as the handlers can tell: the checks of a class
come before its statements, and a handler runs to its end before the next statement. Otherwise
statements come in any order. `LooksAfter` and `Careful` say of which tables and of which
applications the properties hold; `ValuesAreUnique` is the same statement as `NoDuplicates` without the
condition. `LooksAfter` leaves out the table of a parent class when the handler is on the session:
`refresh_dirty` refreshes a class by its `__tablename__` alone, so that a search of the parent class
does not find a row of the child class after the flush.

### Applications

Whether a property holds depends on the application: whether its sessions expire what they
committed, whether it flushes early, keeps sub-documents, adds rows in batches. `ObjectColumn`,
`MutableDict`, `RowUpdates`, `TableRefresh`, `TypedColumn` and `Catalog` have a variable `app` that Init takes from the constant
`Applications` and that no step changes: a record of the habits and bounds of one application. One
run explores several applications side by side, and a theorem about the specification is about all
of them. A property that needs a condition states it as a condition on `app`
(`NoEditIsLost == ~EditsReplacement /\ ~InheritedMutators => EditsReachStore`), next to the
unconditional statement, which the run marked "violation" refutes where a document promises it.

## 3. Runs

Between them the passing runs take every disjunct of every next-state relation.

| Run | Configuration | Expected | Properties | What it shows |
|---|---|---|---|---|
| `object` | `MCObjectColumn_various.cfg` | pass | `TypeOK`, `NoEditIsLost`, `OthersAreLeftAlone`, `ViewIsStored`, `ImplementsPartialUpdate` | Applications of six kinds: no edit by item assignment or deletion is lost, with early flushes, without expiry on commit and with a key that Python takes for false; edits of other sessions are left alone when each flush ends in expiry; a session alone with its row sees what is stored, however long its MutableDict lives; applications that commit each flush publish exactly the keys they edited, as PartialUpdate promises. |
| `object_resend` | `MCObjectColumn_resend.cfg` | violation | `OnlyEditsReachStore` | The marks survive an early flush, so that the next UPDATE of the transaction writes keys again that another session has changed since. |
| `object_reassign` | `MCObjectColumn_reassign.cfg` | violation | `EditsReachStore` | A document that is assigned and then edited before the flush is stored only in the edited key. |
| `nested` | `MCMutableDict_various.cfg` | pass | `TypeOK`, `NoNestedEditIsLost`, `EditedRowsAreFlagged`, `OnlyEditsAreSent`, `OwnersAreCurrent`, `MarksAreOnRoots` | In documents up to three levels deep every object keeps the root and the top-level key it was made for, every edit is covered by the next UPDATE and no other key is, over repeated flushes, and a row with an edit below it takes part in the next flush; when the application shares, copies, moves and keeps objects at will, marks still sit on roots only, and no key with a value is marked deleted; with the mutators of dict that mark nothing the former still holds. |
| `table_kwargs_nested` | `MCTableKwargs_nested.cfg` | pass | `TypeOK`, `TablesGetOptions`, `ImplementsScopedOptions` | Contexts that nest, in one thread or in two, give their options to the tables created inside them and leave nothing behind: options have dynamic scope, which is what ScopedOptions promises. |
| `table_kwargs_threads` | `MCTableKwargs_threads.cfg` | violation | `TablesGetOptions` | Two threads that enter contexts at the same time: one installs a function that does not know the other's options. |
| `refresh` | `MCTableRefresh_various.cfg` | pass | `TypeOK`, `FlushedIsVisible`, `NoDuplicates`, `UnseenIsHandled`, `ImplementsConsistentRows`, `WritesBecomeVisible` | Applications with either listener, one or several rows, statements outside the unit of work and failures: what a flush or a statement the handlers see has written is visible when it returns, in joined tables too; one flush at a time of at most one new row stores no values twice, and implements ConsistentRows, a database with immediate consistency and unique columns; without failures what is not visible yet is in the hands of a handler, so that every write becomes visible even if CrateDB never refreshes by itself. |
| `refresh_batching` | `MCTableRefresh_batching.cfg` | violation | `ValuesAreUnique` | Two new rows of one flush are both checked before the first is inserted. |
| `row_updates` | `MCRowUpdates_various.cfg` | pass | `TypeOK`, `HeldIsStored`, `NoneIsRefused`, `EditsArrive`, `OthersSurvive`, `RowsAreWhole`, `ImplementsEditedRows` | Applications that modify one or two rows between flushes, replace documents, keep their objects, update all rows by a statement, have an OBJECT column or keys whose names need quotes, call the mutators of dict or run on SQLAlchemy 1.3, where one statement is executed for several rows, while statements fail and another client writes: a flush that ends well has stored every edit, a statement changes nothing that was not edited and stores a row with all of its edits or not at all, rewriting leaves no UPDATE without a target, and what the session holds afterwards, `onupdate` columns included, is what is stored; as long as no mutator of dict was called and no statement was executed, on 1.3, for rows with different parameters. If flushes end in expiry and no key is falsy, all of this is the abstract `EditedRows`. |
| `update_bulk` | `MCRowUpdates_batching.cfg` | violation | `FlushesAreAccepted` | Two rows with the same modified attribute are one execution with two sets of parameters, which the handler drops: SQLAlchemy then refuses the statement. |
| `catalog` | `MCCatalog_various.cfg` | pass | `TypeOK`, `AnswersAreTrue`, `AllAreCreated`, `NothingIsRejected`, `CopiesAreEqual`, `CopiesAreMade` | Applications that create tables with every option and constraint next to other clients, that inspect two schemas, and that read tables with a column of each type and create them again: an inspector tells the truth while nothing changes, views of other schemas apart, create_all leaves behind what was declared even after it failed half-way before, and a copy has columns of the types that were read. |
| `typed_columns` | `MCTypedColumn_various.cfg` | pass | `TypeOK`, `WritesAreTrue`, `NoChangeIsLost`, `IsReadable`, `NumbersAreAccepted`, `ReadsAreTrue`, `ImplementsSharedColumn` | A column of each type with processors of its own, and of the type ObjectArray, in one or two sessions that assign, edit, keep or expire values, fail, and share the row with other clients: what is stored and read back means what was assigned, a session alone loses no change, several of them share the column as SharedColumn promises if its values keep their zones and lists report their changes; which texts cannot be read; and that a vector of numbers which the dialect accepts is accepted by CrateDB, where other values that pass `to_db` are not. |

### Bounds, and why they are enough

* *Two sessions, two keys, one value.* The hazards are between the one session and another, and
  between one key and its neighbour. With contents `v`, `Null` and `Absent` a key has three values, so
  that a stale write, a lost write and a lost deletion each show.
* *One falsy key* (`object`): the decision on line 60 depends on whether a true key is among the
  marked ones, so that two other keys and a falsy one show both outcomes.
* *Six applications* (`object`): two sessions that reassign; two that keep their objects, flush
  early and have a falsy key; two that use every kind of edit on one key; one session alone, with
  and without a falsy key; two with disciplined commits, for the refinement. Inherited mutators with two sessions and two keys multiply the states by ten;
  `OthersAreNotOverwritten` is proved without that restriction.
* *Three objects* in `MutableDict`: a root, a child and a grandchild, or two roots and a child of
  one. Depth two is where a key of its own differs from the top-level key, and where `to_update`
  could be a non-root. Applications with more habits have two objects (`maxLive`), because sharing alone
  multiplies the states; the proofs have no such bound.
* `maxNew` bounds how many objects one plain dictionary becomes; it names no bound of the code.
* *Two rows, two sessions, two tables* in `TableRefresh`: one row written next to one that waits for its
  refresh, and a class in the tables of two. Three rows in one application: a new row between two others.
* *Eleven applications* (`row_updates`): two rows with a column and a key next to another client, so that
  rows with equal and with different parameter names meet; one row with a column, an `onupdate` column
  and a key that is kept after commits; falsy keys; replaced documents; a quoted name; the mutators of `dict`; statements
  that update all rows, in sessions that keep their objects and in one that does not; SQLAlchemy 1.3 with an `onupdate` column and with two keys, which is what it takes to mix
  rows. `onupdate` returns one value for all rows of a statement. Two rows are enough for the grouping of neighbours: a third would join or not.
* *One column of one row* (`typed_columns`): processors see one value at a time. Two microseconds are a
  millisecond and two milliseconds a day, and clocks go from -3 to 5, so that truncation, the days
  before, of and after the epoch, and zones on both sides of UTC occur in a dozen values; the theorems have
  milliseconds and days of any length. Each type meets the values it is for and those it is
  not for. Lists have at most two items (`MaxLength`), one number is no 32 bit float.
* *Two tables, two columns, two schemas* (`catalog`): `doc` and another, which the URL or the application
  may name. Every type is created and read back; every combination of constraints on three
  types is declared; other clients change the catalog at most twice (`MaxChanges`): once between
  question and statement, once between two questions of an inspector.
* There is no bound on the length of a behaviour: every state space is finite and explored to the end.
* The identities of `MutableDict` objects are interchangeable and used as a symmetry set, in runs
  that check invariants only.

### Fairness and liveness

`TableRefresh!FairSpec` asks for one thing: a session whose flush has begun takes its next step
(`WF_vars(FlushStep(s))`). Checks, statements and handlers are sequential code of one thread, called
one after the other, so that weak fairness of their disjunction says no more than that the thread
runs. Nothing is assumed of the application, of `Fail`, or of CrateDB's periodic refresh. The
property is checked without failing statements and raw writes: after a failure nothing in
the code makes the rest visible.

The other specifications state no fairness. Nothing in that code must happen on its own: a flush
happens when the application asks for it, and the code neither waits nor retries. What an
edit needs *at* the next flush is stated as an invariant, which is stronger than its eventual
arrival. Deadlock is checked in every run.

## 4. Proofs

The seven modules named `...Proofs` prove, for any sets of sessions, keys, values, rows, objects,
threads, tables, columns and values:

| Theorem | Module | What it establishes |
|---|---|---|
| `TypeCorrect` | `ObjectColumnProofs` | Every variable of ObjectColumn keeps its type, whatever the applications do. |
| `EditsAreNotLost` | `ObjectColumnProofs` | No edit by item assignment or deletion is lost, under any expiry and flush policy and any set of falsy keys, unless it is made to a document just assigned. |
| `OthersAreNotOverwritten` | `ObjectColumnProofs` | If no key is falsy and each flush ends the transaction with expiry, no session overwrites a key it did not edit, however it edits. |
| `ViewIsTheStore` | `ObjectColumnProofs` | A session alone with its row, when nothing is pending, holds what is stored, after any flushes, rollbacks and failures and with any falsy keys, unless it edits a document just assigned or uses the methods of dict that mark nothing. |
| `PromiseIsKept` | `ObjectColumnProofs` | ObjectColumn refines PartialUpdate, for every application that commits each of its flushes and flushes a document it assigned before it edits it. |
| `TypeCorrect` | `MutableDictProofs` | Every variable of MutableDict keeps its type, aliasing included. |
| `RootsCarryTheMarks` | `MutableDictProofs` | Marks sit on roots only, whatever the application does; and no key with a value is marked deleted, unless the application calls a mutator that MutableDict inherits from dict (del d["k"]; d.update(k=1) does leave one). |
| `OwnersStayCurrent` | `MutableDictProofs` | Without aliasing every object found under a key of a row has the row's root and that key, at any depth. |
| `NestedEditsAreNotLost` | `MutableDictProofs` | Without aliasing, detached edits, edits of unflushed replacements and inherited mutators, every edit at every depth is covered by the next UPDATE. |
| `EditedRowsStayFlagged` | `MutableDictProofs` | Without aliasing and inherited mutators a row with an edit below it, at any depth, is modified, so that the next flush updates it; edits of replaced, expired and unflushed documents included. |
| `NothingElseIsSent` | `MutableDictProofs` | Without aliasing, detached edits, early flushes and falsy keys, the next UPDATE covers no top-level key without an edit at or below it. |
| `TypeCorrect` | `TableKwargsProofs` | What is in the place of Table._new is always a function, in whatever order threads enter and leave. |
| `OptionsAreReceived` | `TableKwargsProofs` | If contexts nest, tables created inside of them have the options they set. |
| `PromiseIsKept` | `TableKwargsProofs` | If contexts nest, they implement ScopedOptions: what a table gets is overridden inside of a context, and is what it was before when the context is left, for any options, settings, threads and depth. |
| `TypeCorrect` | `TableRefreshProofs` | Tables, units of work and the tables to refresh keep their types, through failures that lose a reply. |
| `FlushedStaysVisible` | `TableRefreshProofs` | Where the handlers see every write, a flush or statement that has returned is visible, for any number of sessions, rows and tables and whatever fails. |
| `UniqueForTheCareful` | `TableRefreshProofs` | An application that flushes one new row at a time, from one session at a time, and whose writes the handlers see, stores no values of a checked class twice. |
| `UnseenStaysHandled` | `TableRefreshProofs` | With the handler on the engine, no failures and no raw statements, a table with a write that searches do not find yet is always about to be refreshed: what remains for the write to become visible is that threads run. |
| `PromiseIsKept` | `TableRefreshProofs` | For a careful application the handlers, the uniqueness check and CrateDB implement ConsistentRows: searches see a database in which one flush after the other takes effect as a whole or is refused for a reason they find. |
| `TypeCorrect` | `RowUpdatesProofs` | No statement leaves a column without a value; marks are keys and modified attributes are columns. |
| `WhatIsHeldIsStored` | `RowUpdatesProofs` | What a session holds unmodified is stored, in every field that nobody else has written, after any flushes, failures and statements, as long as no statement was executed for rows with different parameters and no mutator of dict was called (`~astray`). |
| `FlushesStoreEdits` | `RowUpdatesProofs` | A flush that ends well has stored every edit of every row that no other client has overwritten since, whatever parameters and SET list they became, under the same condition `~astray`. |
| `OthersAreSpared` | `RowUpdatesProofs` | If flushes end in expiry and no key is falsy, no statement of a flush changes a field that was not edited, onupdate columns apart, under the same condition `~astray`. |
| `RowsStayWhole` | `RowUpdatesProofs` | No statement of a flush, whether the flush ends well or fails, stores a row with some of its edits only, under the same condition `~astray`. |
| `FlushesStayAccepted` | `RowUpdatesProofs` | rewrite_update leaves no UPDATE without a target: whatever was set, deleted, set again, kept or failed before, a row that is modified has a column or a marked key to assign, unless a mutator of dict removed the key. With the conditions that leave out what else the model knows to be refused (dropped rows, names with quotes) no flush is refused. |
| `PromiseIsKept` | `RowUpdatesProofs` | If flushes end in expiry, no key is falsy, no mutator of dict is called and no statement is executed for rows with different parameters, rewrite_update, visit_update and the unit of work implement EditedRows: edits reach CrateDB by flushes only, a row with all of its edits and nothing else, next to failures, other clients and statements for all rows. |
| `TypeCorrect` | `CatalogProofs` | The catalog and every cached answer keep their types, whoever changes the catalog. |
| `AnswersStayTrue` | `CatalogProofs` | While nothing changes, all an inspector has ever answered is true of the tables and views that the application means: every one of them and no other, except names of views of other schemas; for any tables, schemas and applications that name one schema (by passing it, or with none in the URL). |
| `CreateAllCreates` | `CatalogProofs` | A create_all that ends well and undisturbed leaves every table in place, with the key, constraints and options of its declaration. |
| `CreateAllIsAccepted` | `CatalogProofs` | Undisturbed and without views and cycles of foreign keys, no statement of create_all is rejected, whatever earlier ones that failed left behind. |
| `CopiesStayEqual` | `CatalogProofs` | A table read and created again has columns of the types that it was read with. |
| `CopiesAreAlwaysMade` | `CatalogProofs` | Every table that was read, without primary key and with types the type map knows, can be created again. |
| `TypesComeBack` | `CatalogProofs` | CrateDB shows the type of a reflected column under the name it was reflected from. |
| `TypeCorrect` | `TypedColumnProofs` | Columns and attributes keep their types: processors give values of the type, and a list stays a list. |
| `WritesStayTrue` | `TypedColumnProofs` | What is stored means what was assigned, for all days, instants, lists and vectors, whatever replies were lost, if values with a zone are kept away from columns without one (KeepsInstants). |
| `ReadsStayTrue` | `TypedColumnProofs` | What is read means what was written last, the epoch apart, which is read as None, and with KeepsInstants, for any lengths of a day and a millisecond. |
| `ChangesAreNoticed` | `TypedColumnProofs` | A session that is alone with its row, edits lists by the overridden methods and keeps instants of one zone only (Alone) holds what is stored, or has a change that SQLAlchemy will write, unless the column holds the epoch. |
| `PromiseIsKept` | `TypedColumnProofs` | Processors, MutableList and the comparison of values together implement SharedColumn: sessions see, change and store meanings, and no conversion shows but that the epoch is hidden, for any number of sessions, failures and other clients, if values keep their instants and days and lists report their changes (KeepsValues). |
| `OwnAreReadable` | `TypedColumnProofs` | What the dialect wrote it can read, a DateTime in a column that was not declared apart; what other clients wrote if the column was declared and no Time. |
| `AcceptedIsTaken` | `TypedColumnProofs` | A date, a time, or a list or array of numbers for a vector of declared dimensions, that the bind processor accepts is accepted by CrateDB, through any loads, edits and failures; strings, mappings and lists of other things pass to_db by their length alone and are not covered. |

The assumptions are the named `ASSUME`s of the modules (sentinels differ from values, applications
are records of habits, falsy keys are keys). The conditions on the habits of the application are
part of the properties, and of the five refinements, each named `PromiseIsKept`. They are the conditions without which the runs marked "violation" fail:
every such run has a theorem as its counterpart, the same statement under conditions that rule the failure out (`object_resend` has `OthersAreNotOverwritten`, `object_reassign` `EditsAreNotLost`,
`table_kwargs_threads` `OptionsAreReceived`, `refresh_batching` `UniqueForTheCareful`, `update_bulk` `FlushesStayAccepted`).
A theorem says that its conditions are enough, within what the model has; it does not say that nothing outside of them is refused or lost.
One of them has no run: without
the condition on detached edits `EditsAreRecorded` does not hold, since `child = data["k"]; del data["k"];
child["x"] = 1` takes the deletion mark of `k` away (`type/object.py`, line 51). Since
`app` never changes (`AppStays`), an invariant under a condition is proved as
`condition => invariant`.

* **`EditsAreNotLost`** rests on `Recorded`: when a session has marks, what it edited since the
  last flush is among them, and when it has none, the whole document is written. It has to speak of
  marks that are older than the last flush too: they are what makes `any(...)` true, and the new
  edits must then be marked as well. A marked key that is no item must be marked deleted, or
  `rewrite_update` would skip it.
* **`OthersAreNotOverwritten`** rests on `Exact`: marks are edits. It needs expiry at the end of
  every flush, because marks are never cleared, and no falsy keys, because such an edit writes the
  whole document.
* **`ViewIsTheStore`** rests on `Mirrors`: what is neither marked nor assigned agrees with the store, and when nothing is
  pending all of them do. The marked keys are what a flush writes, which closes the argument for one session.
* **`PromiseIsKept`** of `ObjectColumnProofs` uses the first two: under them the keys an UPDATE writes are the keys that were edited, and each step
  of a session is a step of `PartialUpdate` or changes none of its variables.
* **`RootsCarryTheMarks`** rests on `Rooted`: `to_update` of every object is an object without
  `_overwrite_key` whose `to_update` is itself. It holds whatever the application shares or keeps, and
  is the reason that one call of `on_key_changed` is enough. That a key with a value is not marked deleted needs
  every assignment to pass `__setitem__`: after `del d["k"]; d.update(k=1)` it is, and NULL is stored.
* **`EditedRowsStayFlagged`** needs less than the theorems about marks: an edited object that belongs to a row
  has that row, and no other, among the parents of its root (`EditFlags`), and one that belongs to none makes no row out of date.
* **`OwnersStayCurrent`** cannot be proved object by object: it speaks of what can be reached.
  Its invariant is local: an item of a root has that root and its own key, an item of a nested object the root
  and key of that object; reachability, defined as the least closed set, then follows by
  exhibiting the closed set of objects that have the row's root and the key.
* **`NestedEditsAreNotLost`** adds to it that a row's root has the row among its parents and that
  every outdated key is recorded.
* **`NothingElseIsSent`** rests on `RowExact`: the marks of a row's root are keys with an edit below them, and a row
  that is modified without marks was assigned as a whole. It needs what keeps old or foreign marks away: flushes at the
  end of a transaction only, no aliasing, no edits of detached objects, and no falsy keys.
* **`WhatIsHeldIsStored`** and **`FlushesStoreEdits`** rest on `SentInv`: what differs between the session
  and the store was edited and, while a flush runs, belongs to a row still in the queue
  (`DiffersIfEdited`), and what was edited is modified and marked (`Covered`). `ColumnSent` and `KeySent`
  say of one field what `rewrite_update` and `visit_update` together make of it. `Covered` asks for marks of
  all edited keys as soon as there is one mark: that one makes the rewriting happen.
  Both have the condition `~astray`: under it every change of a document is marked, and a statement for several rows does to each what a statement of
  its own would (`Alike`, `ExecutedAlike`), so that one argument serves all versions of SQLAlchemy.
* **`OthersAreSpared`** adds the converse, `Exact`: what is modified and marked was edited.
* **`RowsStayWhole`** follows from the same invariant, step by step: a statement that takes part in a flush is
  executed with every edit of its row, and one that fails was applied to a whole row or not at all.
* **`FlushesStayAccepted`** rests on `MarkedIsHeld`: a key that is marked as changed is among the items or marked as
  deleted, through every sequence of edits and kept marks, so that a row in the queue has something to assign (`ModifiedIsSent`):
  a modified column, the document as a whole, or a key. Without that the SET list would be empty, which happens when an inherited mutator
  of `dict` removes a marked key. `OneModified` adds that without batches at most one row is modified at any time, through flushes
  that keep their objects, statements for all rows and failures, so that no execution has several rows. Batches and names with quotes are excluded by the condition:
  the model has flushes refused for them, and the code may refuse what the model does not have.
* **`PromiseIsKept`** of `RowUpdatesProofs` has one lemma per step of `EditedRows`. That a statement is a `Store` of
  the rows it reaches takes the two facts behind the theorems above (`StatementStores`: what was edited is stored,
  `StatementSpares`: nothing else is), and `Exact` for the flush that begins with the rows that were edited. Two small invariants
  close the gap: the queue consists of rows that are loaded and modified (`OneModified`), and what is modified was
  edited (`ModifiedIsEdited`). That an update of all rows is an `Assign` rests on `UpdateAllFields`, which says
  what that statement does to each field in the store and in the session.
* **`FlushedStaysVisible`** rests on `Answered`: a write that a session answers for is visible, or
  its table is about to be refreshed, or the session's handler will find it by way of the row when the
  flush is over. It speaks of the tables that `LooksAfter` names.
* **`UniqueForTheCareful`** rests on `UniqueInv`: one session flushes at a time (`OneFlush`), what is
  stored and not found by a search is a new row of its unit of work whose refresh is still to come
  (`StoredIsFound`), and once the check of a new row has passed no other row has its values
  (`CheckedIsFree`). The last is what bridges the time between check and INSERT. It speaks of what is visible too: an
  old row that was updated away from a value may still be found with it.
* **`PromiseIsKept`** of `TableRefreshProofs` rests on it: each write of a flush is a `Store`, each refresh a `Show`, which
  keeps what searches find unique (`ShowUnique`), and `Return` takes what `FlushedIsVisible` says of the flush that ends. The mapping
  needs `Answered`, `UniqueInv` and, for a DELETE or UPDATE that finds no row (`WriteMisses`), `UnseenIsHandled`: what nobody is
  about to refresh is visible, so that searches do not find the row either.
* **`UnseenStaysHandled`** is the safety half of `WritesBecomeVisible`: at no time is a write unseen without being in the hands
  of a handler. It is proved by one case per action that changes a table; what remains for the liveness
  property is that a thread which is about to refresh does so, which is fairness.
* **`PromiseIsKept`** of `TableKwargsProofs` rests on `Stacked`: the contexts in place are a prefix of those that are open,
  and the chain of functions is their options (`StackedView`). One function more is one override more
  (`OneMoreOverrides`; of several functions the oldest that sets an option decides, `OldestDecides`), so that `Install` is `Open`; `Exit`
  is `Close`, because what is put back is the chain of the contexts that remain.

* **`WritesStayTrue`** and **`ReadsStayTrue`** rest on two lemmas about the processors: what is written means
  the same in CrateDB (`WrittenMeans`), and what is read means the same in Python (`ReadMeans`). They need
  arithmetic of days, milliseconds and microseconds with an integer division that rounds down, so that
  they hold before the epoch as well. `HeldKeepInstants` carries the condition on zones from the
  values of the application to what a session holds and may write later.
* **`ChangesAreNoticed`** rests on `HeldAlone`: of a session alone with its row, what was committed
  means what is stored for as long as an assigned value is compared with it. That equal values have equal
  meanings (`EqualIsShown`) is where datetimes with zones have to be left out.
* **`PromiseIsKept`** of `TypedColumnProofs` puts `WrittenMeans`, `ReadMeans` and `EqualIsShown` together, one lemma per
  action. A session's view is the meaning of what it holds, so that a conversion that loses nothing of the
  meaning is no step; `EditUnnoticed`, an edit that does not report itself, would be a `Change` that is not pending.
* **`OwnAreReadable`** rests on `OwnAreRead`: every text that a session stored has a form that the result processor
  tries.
* **`AcceptedIsTaken`** needs that an attribute whose application assigns numbers holds numbers (`NumbersAreHeld`), also
  after it was read back; `to_db` then compares the dimensions of all of them.
* **`AnswersStayTrue`** is inductive: where one schema is meant, the three ways in which the dialect and CrateDB
  find it agree (`AnswersOfOneSchema`), old answers stay true while nothing changes, and `stable` becomes false with every
  change. **`CreateAllCreates`** rests on `Creating`, which says of the tables what is true of those still to ask for,
  missing and made while nobody interferes; **`CreateAllIsAccepted`** adds `Missing`: what was found missing is missing when its
  turn comes.
* **`CopiesStayEqual`** rests on `TypesComeBack`, a case distinction over the type map, and on what a reflected
  table remembers of the names it was read by (`ReadAsShown`).

TLC checked each of these on the instances above before it was proved. One property of
the passing runs is only model-checked: `WritesBecomeVisible`. It is liveness (its safety half is proved, see
`UnseenStaysHandled`), and liveness, `ENABLED`, what a recursive
definition computes, and induction over data are outside the prover's reach; no module declares a
recursive operator.

## 5. What the checks found

* **compiler.py:60** (run `object_resend`, `OnlyEditsReachStore`). rewrite_update reads _changed_keys and _deleted_keys, which nothing ever clears (type/object.py:23-24), and the MutableDict survives a flush that is not followed by expiry. After data["a"] = 1; session.flush(); data["b"] = 2; session.commit() the second UPDATE assigns data['a'] again and undoes what another session wrote to it in between. src/docs/overview.rst:426 says of such a commit: "the UPDATE statement sent to CrateDB will only include the data necessary to update the changed sub-columns".
* **compiler.py:59** (run `object_reassign`, `EditsReachStore`). A document assigned as a whole has no marks and would be written as a whole; one item assignment before the flush gives it a mark, and rewrite_update then sends that key only: the rest of the assigned document never reaches CrateDB. src/docs/working-with-types.rst:126 says "The SQLAlchemy CrateDB dialect supports change tracking deep down the nested levels of a ObjectType type field".
* **support/pandas.py:109** (run `table_kwargs_threads`, `TablesGetOptions`). Table._new belongs to the process and is read on line 102 and replaced on line 109. A thread that reads it before another thread replaces it, and replaces it afterwards, discards the other's function: tables that are created inside the other's with statement do not have its options. src/docs/support.md:76 says "Using a context manager incantation like outlined below will render a `PARTITIONED BY ("time")` SQL clause".
* **support/polyfill.py:62** (run `refresh_batching`, `ValuesAreUnique`). SQLAlchemy calls before_insert for all new rows of a mapped class before it inserts the first, so that two rows with the same values in one flush are both searched for in vain and both inserted, with refresh_after_dml in place. src/docs/support.md:201 says "When the uniqueness constraint is violated, the adapter will raise a corresponding exception." Two sessions that flush at the same time do the same, the search and the INSERT being two statements without a lock.
* **compiler.py:82** (run `update_bulk`, `FlushesAreAccepted`). On SQLAlchemy 1.4 and later an execution with several sets of parameters reaches the handler as multiparams, with params = {} and not None; line 85 replaces multiparams by ([{}],), the rows are lost, and the statement is executed without parameters, so that the one of its WHERE clause is missing and SQLAlchemy raises StatementError. A session that sets the same attribute of two rows with neighbouring primary keys cannot flush. src/tests/compiler_test.py:78-80 says "The "before_execute" hook in the compiler doesn't get access to the parameters in case of a bulk update. It should not try to optimize any parameters."

## 6. What is not modelled, and the plan

Layout of SQL text, logging, deprecation warnings and the HTTP client are left out. In order, still to come:

1. `Connect`: the decision between `ssl` and `sslmode`, servers and credentials.
2. `patch_autoincrement_timestamp`, next to the uniqueness check in `TableRefresh`: keys from a clock of
   one millisecond, of which two INSERTs may get the same.
3. Reflection with `get_schema_names` and before CrateDB 3, `ALTER TABLE` and defaults in `Catalog`.

Not planned: `quote_relation_name`, which nothing in the dialect calls; rendering of casts, `ANY`, `KNN_MATCH` and `MATCH`,
geographic conversions (no state, no decision); the backports in `compat/api13.py`, and of `core10.py` and
`core14.py` what repeats `core20.py` for another version.
