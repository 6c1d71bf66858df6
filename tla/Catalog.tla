------------------------------ MODULE Catalog ------------------------------
(***************************************************************************)
(* Tables that are created from their declarations and read back from the  *)
(* catalog (compiler.py, CrateDDLCompiler; dialect.py, the methods of      *)
(* reflection), while other clients create and drop tables.                *)
(*                                                                         *)
(* `MetaData.create_all` first asks for each table whether it is there and *)
(* then executes one statement after the other.  SQLAlchemy's Inspector    *)
(* keeps every answer of the dialect for as long as it lives; reading a    *)
(* table takes several of them.                                            *)
(***************************************************************************)
EXTENDS TypeNaming, FiniteSets

CONSTANTS
    Names,         \* names of tables and views
    Columns,       \* names of columns
    Schemas,
    Doc,           \* CrateDB's default schema
    NoSchema,      \* no schema is given
    NoRelation,    \* there is no such table
    NotAsked,      \* the inspector has no answer yet
    Applications,  \* the applications that are looked at
    MaxChanges     \* bound: how often other clients change the catalog

SpecialOptions   == {"partitioned_by"}
ClusteredOptions == {"clustered_by", "number_of_shards"}
CrateOptions     == SpecialOptions \cup ClusteredOptions \cup {"refresh_interval"}
Options          == CrateOptions \cup {"postgresql_with"}

\* The declaration of a column and of a table.
Declaration ==
    [type : Types, nullable : BOOLEAN, index : BOOLEAN, columnstore : BOOLEAN,
     computed : {"no", "persisted", "virtual"}]
Table == [columns : [Columns -> Declaration], key : SUBSET Columns, options : SUBSET Options]

\* The same in CrateDB.
Column == [type : ColumnTypes, nullable : BOOLEAN, index : BOOLEAN, columnstore : BOOLEAN,
           generated : BOOLEAN]
Relation ==
    [kind : {"table", "view"}, columns : [Columns -> Column], key : SUBSET Columns,
     options : SUBSET CrateOptions]

Application ==
    [url       : Schemas \cup {NoSchema},   \* `?schema=` of the URL
     schema    : Schemas \cup {NoSchema},   \* the schema it passes to SQLAlchemy
     tables    : SUBSET Names,              \* the tables of its MetaData
     cyclic    : BOOLEAN,                   \* which refer to each other by foreign keys
     table     : Table,                     \* their declaration
     inspects  : BOOLEAN,
     others    : SUBSET Relation,           \* what other clients create
     places    : SUBSET (Schemas \X Names)] \* and where

ASSUME NamesAssumption ==
    /\ Doc \in Schemas
    /\ NoSchema \notin Schemas
    /\ NoRelation \notin Relation
    /\ MaxChanges \in Nat
ASSUME ApplicationsAssumption == Applications \subseteq Application

VARIABLES
    app,        \* the application; it never changes
    catalog,    \* catalog[s][n]: the relation n of schema s
    cache,      \* the inspector's `info_cache`
    step,       \* what the application is doing
    left,       \* create_all: the tables it has still to ask for
    missing,    \* those it found missing and has not created yet
    made,       \* those it has created
    subject,    \* reflection: the table that is read
    reflected,  \* the last table that was read
    outcome,    \* of the last operation
    changes,    \* how often other clients have changed the catalog
    stable,     \* history: nothing has changed since the inspector was made
    quiet       \* history: nobody else has changed anything since create_all began

creation == <<left, missing, made>>
reading  == <<cache, subject, reflected>>
history  == <<changes, stable, quiet>>
vars == <<app, catalog, creation, reading, step, outcome, history>>

-----------------------------------------------------------------------------
(* Names and schemas.                                                      *)

\* CrateDB: a name without schema is one of the connection's default schema.
Resolved(schema) ==
    IF schema # NoSchema THEN schema
    ELSE IF app.url # NoSchema THEN app.url
    ELSE Doc

\* Faulty variant: the URL is not looked at.
ListedSchemaOfDialect(schema) == IF schema # NoSchema THEN schema ELSE Doc

\* `get_table_names` looks at the schema of the URL (`_get_effective_schema_name`).
ListedSchema(schema) ==
    IF schema # NoSchema THEN schema
    ELSE IF app.url # NoSchema THEN app.url
    ELSE Doc

\* `get_columns` and `get_pk_constraint` do not.
ReadSchema(schema) == IF schema # NoSchema THEN schema ELSE Doc

\* Answers of the dialect, from the catalog as it is.
Related(s, n)  == catalog[s][n] # NoRelation
IsView(s, n)   == Related(s, n) /\ catalog[s][n].kind = "view"
TableNames(schema) ==
    {n \in Names : Related(ListedSchema(schema), n)
                        /\ catalog[ListedSchema(schema)][n].kind = "table"}

\* The statement of `get_view_names` does not ask for the schema.
ViewNames == {n \in Names : \E s \in Schemas : IsView(s, n)}

HasTable(n) == n \in TableNames(app.schema)

\* Faulty variant: every table is looked for in all schemas.
ColumnsOfAnySchema(n) ==
    LET there == {s \in Schemas : Related(s, n)} IN
    IF there = {} THEN NoRelation
    ELSE catalog[CHOOSE s \in there : TRUE][n].columns

ColumnsOf(n) ==
    LET s == ReadSchema(app.schema) IN
    IF Related(s, n) THEN catalog[s][n].columns ELSE NoRelation

KeyOf(n) ==
    LET s == ReadSchema(app.schema) IN
    IF Related(s, n) THEN catalog[s][n].key ELSE {}

-----------------------------------------------------------------------------
(* The DDL compiler.                                                       *)

\* `get_column_specification` and `visit_computed_column` raise for what CrateDB does not
\* support.
IsCompiled(column, inKey) ==
    /\ IsNamed(column.type)
    /\ ~(column.nullable /\ inKey)
    /\ ~column.index => column.type \notin {Scalar("Geopoint"), Scalar("Geoshape"),
                                            Scalar("ObjectType")}
    /\ ~column.columnstore => column.type \in {Scalar(name) : name \in Strings}
    /\ column.computed # "virtual"

IsCompiledTable(table) ==
    \A c \in Columns : IsCompiled(table.columns[c], c \in table.key)

\* Faulty variant: a generated column has no other constraints.
SpecifiedColumnOrGenerated(column) ==
    [type        |-> ColumnType(column.type),
     nullable    |-> column.nullable \/ column.computed = "persisted",
     index       |-> column.index,
     columnstore |-> column.columnstore,
     generated   |-> column.computed = "persisted"]

SpecifiedColumn(column) ==
    [type        |-> ColumnType(column.type),
     nullable    |-> column.nullable,
     index       |-> column.index,
     columnstore |-> column.columnstore,
     generated   |-> column.computed = "persisted"]

\* Faulty variant: with a WITH clause the others are forgotten.
SpecifiedOptionsOfWith(options) ==
    LET with == CrateOptions \ (SpecialOptions \cup ClusteredOptions) IN
    IF options \cap with # {} THEN options \cap with ELSE options \cap CrateOptions

\* Faulty variant: the options of other dialects are not left out.
SpecifiedOptionsOfAll(options) == options

\* `post_create_table`: the options of this dialect, in three clauses.
SpecifiedOptions(options) ==
    LET with == CrateOptions \ (SpecialOptions \cup ClusteredOptions) IN
    (options \cap SpecialOptions) \cup (options \cap ClusteredOptions) \cup (options \cap with)

\* The table that CREATE TABLE makes; foreign keys, unique constraints and indexes are
\* left out with a warning.
Specified(table) ==
    [kind    |-> "table",
     columns |-> [c \in Columns |-> SpecifiedColumn(table.columns[c])],
     key     |-> table.key,
     options |-> SpecifiedOptions(table.options)]

-----------------------------------------------------------------------------
Reflected == [columns : [Columns -> Types], shown : [Columns -> ColumnTypes],
              key : SUBSET Columns]
Steps == {"idle", "asking", "creating", "altering", "columns", "key"}
Outcomes ==
    {"none", "created", "read", "copied", "uncompilable", "rejected", "lost", "no such table"}

\* What an inspector keeps.
Answers ==
    [tables  : (SUBSET Names) \cup {NotAsked},
     views   : (SUBSET Names) \cup {NotAsked},
     columns : [Names -> [Columns -> Column] \cup {NoRelation, NotAsked}],
     keys    : [Names -> (SUBSET Columns) \cup {NotAsked}]]
Unasked == [tables |-> NotAsked, views |-> NotAsked,
            columns |-> [n \in Names |-> NotAsked], keys |-> [n \in Names |-> NotAsked]]

\* Every variable keeps its type, the answers in the cache included.
TypeOK ==
    /\ app \in Applications
    /\ catalog \in [Schemas -> [Names -> Relation \cup {NoRelation}]]
    /\ cache \in Answers
    /\ step = "key" => cache.columns[subject] \in [Columns -> Column] \cup {NoRelation}
    /\ step \in Steps
    /\ left \subseteq Names /\ missing \subseteq Names /\ made \subseteq Names
    /\ subject \in Names
    /\ reflected \in Reflected \cup {NoRelation}
    /\ outcome \in Outcomes
    /\ changes \in 0..MaxChanges
    /\ stable \in BOOLEAN /\ quiet \in BOOLEAN

Init ==
    /\ app \in Applications
    /\ catalog \in [Schemas -> [Names -> app.others \cup {NoRelation}]]
    /\ \A s \in Schemas, n \in Names :
        <<s, n>> \notin app.places => catalog[s][n] = NoRelation
    /\ cache = Unasked
    /\ step = "idle"
    /\ left = {} /\ missing = {} /\ made = {}
    /\ subject \in Names
    /\ reflected = NoRelation
    /\ outcome = "none"
    /\ changes = 0
    /\ stable = TRUE /\ quiet = TRUE

-----------------------------------------------------------------------------
(* create_all.                                                             *)

\* It ends, or an error is raised.
Stop(how) ==
    /\ step' = "idle"
    /\ outcome' = how

CreateAll ==
    /\ step = "idle"
    /\ app.tables # {}
    /\ step' = "asking"
    /\ left' = app.tables
    /\ missing' = {} /\ made' = {}
    /\ outcome' = "none"
    /\ quiet' = TRUE
    /\ UNCHANGED <<catalog, reading, changes, stable>>

\* `has_table`, without the inspector's cache.
Ask(n) ==
    /\ step = "asking"
    /\ n \in left
    /\ left' = left \ {n}
    /\ missing' = IF HasTable(n) THEN missing ELSE missing \cup {n}
    /\ IF left' # {} THEN UNCHANGED <<step, outcome>>
       ELSE IF missing' # {} THEN step' = "creating" /\ UNCHANGED outcome
       ELSE Stop("created")
    /\ UNCHANGED <<catalog, reading, made, history>>

\* The foreign keys of a cycle have statements of their own, after the tables.
InCycle == app.cyclic /\ made \cup missing = app.tables

\* CREATE TABLE is executed, and the next statement is due.
Created(n) ==
    /\ catalog' = [catalog EXCEPT ![Resolved(app.schema)][n] = Specified(app.table)]
    /\ stable' = FALSE
    /\ missing' = missing \ {n}
    /\ made' = made \cup {n}

CreateTable(n) ==
    /\ step = "creating"
    /\ n \in missing
    /\ IsCompiledTable(app.table)
    /\ ~Related(Resolved(app.schema), n)
    /\ Created(n)
    /\ IF missing' # {} THEN UNCHANGED <<step, outcome>>
       ELSE IF InCycle THEN step' = "altering" /\ UNCHANGED outcome
       ELSE Stop("created")
    /\ UNCHANGED <<reading, left, changes, quiet>>

CreateIsRefused(n) ==
    /\ step = "creating"
    /\ n \in missing
    /\ \/ ~IsCompiledTable(app.table) /\ Stop("uncompilable")
       \/ /\ IsCompiledTable(app.table)
          /\ Related(Resolved(app.schema), n)
          /\ Stop("rejected")
    /\ UNCHANGED <<catalog, creation, reading, history>>

\* The reply is lost, whether or not the table was created; tables created before stay.
CreateIsLost(n) ==
    /\ step = "creating"
    /\ n \in missing
    /\ IsCompiledTable(app.table)
    /\ \/ ~Related(Resolved(app.schema), n) /\ Created(n)
       \/ UNCHANGED <<catalog, stable, missing, made>>
    /\ Stop("lost")
    /\ UNCHANGED <<reading, left, changes, quiet>>

\* ALTER TABLE ... ADD, with the constraint left out: the statement is not accepted.
AddForeignKeys ==
    /\ step = "altering"
    /\ Stop("rejected")
    /\ UNCHANGED <<catalog, creation, reading, history>>

-----------------------------------------------------------------------------
(* Inspection.                                                             *)

NewInspector ==
    /\ step = "idle"
    /\ app.inspects
    /\ cache # Unasked
    /\ cache' = Unasked
    /\ stable' = TRUE
    /\ UNCHANGED <<catalog, creation, subject, reflected, step, outcome, changes, quiet>>

\* `@reflection.cache`: what was answered before is answered again.
Cached(answer, now) == IF answer = NotAsked THEN now ELSE answer

AskedColumns(n) ==
    [cache EXCEPT !.columns[n] = Cached(@, ColumnsOf(n))]
AskedKey(n) ==
    [cache EXCEPT !.keys[n] = Cached(@, KeyOf(n))]
AskedTables ==
    [cache EXCEPT !.tables = Cached(@, TableNames(app.schema))]
AskedViews ==
    [cache EXCEPT !.views = Cached(@, ViewNames)]

\* `inspector.get_table_names()`, `inspector.get_view_names()`.
Inspect ==
    /\ step = "idle"
    /\ app.inspects
    /\ cache' \in {AskedTables, AskedViews} \ {cache}
    /\ UNCHANGED <<catalog, creation, subject, reflected, step, outcome, history>>

\* `Table(n, metadata, autoload_with=inspector)`.
Reflect(n) ==
    /\ step = "idle"
    /\ app.inspects
    /\ step' = "columns"
    /\ subject' = n
    /\ reflected' = NoRelation
    /\ outcome' = "none"
    /\ UNCHANGED <<catalog, creation, cache, history>>

ReadColumns ==
    /\ step = "columns"
    /\ cache' = AskedColumns(subject)
    /\ step' = "key"
    /\ UNCHANGED <<catalog, creation, subject, reflected, outcome, history>>

\* Without columns SQLAlchemy asks whether there is such a table; if there is, the table
\* has no columns.
ReadKey ==
    /\ step = "key"
    /\ LET columns == cache.columns[subject]
           withKey == AskedKey(subject)
       IN  IF columns # NoRelation
           THEN /\ cache' = withKey
                /\ reflected' = [columns |-> [c \in Columns |-> ReflectedType(columns[c].type)],
                                 shown   |-> [c \in Columns |-> columns[c].type],
                                 key     |-> withKey.keys[subject]]
                /\ Stop("read")
           ELSE /\ cache' = [withKey EXCEPT !.tables = Cached(@, TableNames(app.schema))]
                /\ UNCHANGED reflected
                /\ Stop(IF subject \in cache'.tables THEN "read" ELSE "no such table")
    /\ UNCHANGED <<catalog, creation, subject, history>>

\* The declaration of a table that was read: every column is nullable.
Redeclared(table) ==
    [columns |-> [c \in Columns |->
                    [type |-> table.columns[c], nullable |-> TRUE, index |-> TRUE,
                     columnstore |-> TRUE, computed |-> "no"]],
     key     |-> table.key,
     options |-> {}]

\* `table.to_metadata(metadata, name=n).create(engine)`.
Copy(n) ==
    /\ step = "idle"
    /\ reflected # NoRelation
    /\ n # subject
    /\ ~Related(Resolved(app.schema), n)
    /\ reflected' = NoRelation
    /\ IF IsCompiledTable(Redeclared(reflected))
       THEN /\ catalog' = [catalog EXCEPT ![Resolved(app.schema)][n] =
                                Specified(Redeclared(reflected))]
            /\ stable' = FALSE
            /\ outcome' = "copied"
       ELSE /\ UNCHANGED <<catalog, stable>>
            /\ outcome' = "uncompilable"
    /\ UNCHANGED <<creation, cache, subject, step, changes, quiet>>

\* Another client creates, drops or replaces a table or view.
Elsewhere(s, n, relation) ==
    /\ <<s, n>> \in app.places
    /\ changes < MaxChanges
    /\ catalog[s][n] # relation
    /\ catalog' = [catalog EXCEPT ![s][n] = relation]
    /\ changes' = changes + 1
    /\ stable' = FALSE
    /\ quiet' = FALSE
    /\ UNCHANGED <<creation, reading, step, outcome>>

Next ==
    /\ \/ CreateAll
       \/ \E n \in Names :
            \/ Ask(n)
            \/ CreateTable(n)
            \/ CreateIsRefused(n)
            \/ CreateIsLost(n)
            \/ Reflect(n)
            \/ Copy(n)
       \/ AddForeignKeys
       \/ NewInspector
       \/ Inspect
       \/ ReadColumns
       \/ ReadKey
       \/ \E s \in Schemas, n \in Names : \E relation \in app.others \cup {NoRelation} :
            Elsewhere(s, n, relation)
    /\ UNCHANGED app

Spec == Init /\ [][Next]_vars

-----------------------------------------------------------------------------
(* Properties.                                                             *)

\* All questions are about one schema: the application passes it, or the URL has none.
OneSchema == app.schema # NoSchema \/ app.url = NoSchema

\* What CrateDB has under the name n, for a statement of this application.
Meant(n) == catalog[Resolved(app.schema)][n]

\* No schema but the one the application's statements are about has a view of the name n.
IsNoViewElsewhere(n) == \A s \in Schemas \ {Resolved(app.schema)} : ~IsView(s, n)

\* While nothing changes, the answers of an inspector, whenever they were given, are true of
\* the tables and views that the application's statements are about, if it passes the schema
\* or the URL has none: all of them and no others are answered.  Views are the exception:
\* `get_view_names` does not ask for the schema, and answers those of other schemas as well.
AnswersAreTrue ==
    stable /\ OneSchema => \A n \in Names :
        /\ cache.tables # NotAsked =>
            (n \in cache.tables <=> Meant(n) # NoRelation /\ Meant(n).kind = "table")
        /\ cache.views # NotAsked /\ IsView(Resolved(app.schema), n) => n \in cache.views
        /\ cache.views # NotAsked /\ n \in cache.views /\ IsNoViewElsewhere(n) =>
            IsView(Resolved(app.schema), n)
        /\ cache.columns[n] # NotAsked =>
            cache.columns[n] = IF Meant(n) = NoRelation THEN NoRelation ELSE Meant(n).columns
        /\ cache.keys[n] # NotAsked =>
            cache.keys[n] = IF Meant(n) = NoRelation THEN {} ELSE Meant(n).key

\* A create_all that ends well has left every table of the application in place, and those it
\* created have the key, the column constraints and the options of their declaration, unless
\* somebody else interfered.
AllAreCreated ==
    outcome = "created" /\ quiet =>
        \A n \in app.tables :
            /\ Meant(n) # NoRelation
            /\ n \in made =>
                /\ Meant(n).key = app.table.key
                /\ Meant(n).options = app.table.options \cap CrateOptions
                /\ \A c \in Columns :
                    LET column == Meant(n).columns[c]
                        declared == app.table.columns[c]
                    IN  /\ column.nullable = declared.nullable
                        /\ column.index = declared.index
                        /\ column.columnstore = declared.columnstore
                        /\ column.generated = (declared.computed # "no")

\* No statement of create_all is rejected if nobody interferes, whatever an earlier create_all
\* that failed half-way has left behind, views and cycles of foreign keys apart.
NothingIsRejected ==
    quiet /\ ~app.cyclic /\ (\A r \in app.others : r.kind = "table") => outcome # "rejected"

\* A table that is read and created again has columns of the same types in CrateDB.
CopiesAreEqual ==
    [][\A s \in Schemas, n \in Names :
        catalog'[s][n] # catalog[s][n] /\ reflected # NoRelation /\ reflected' = NoRelation =>
            \A c \in Columns : catalog'[s][n].columns[c].type = reflected.shown[c]]_vars

\* Every table that was read can be created again, unless it has a primary key, which is read as
\* nullable, or a column of a type that TYPES_MAP leaves out or does not know all of.
CopiesAreMade ==
    [][reflected # NoRelation /\ reflected' = NoRelation /\ step' = "idle"
        /\ reflected.key = {}
        /\ (\A c \in Columns :
                /\ reflected.shown[c].name \notin {"geo_point", "geo_shape", "float_vector"}
                /\ reflected.shown[c] # ArrayOf("timestamp without time zone"))
        => outcome' = "copied"]_vars
=============================================================================
