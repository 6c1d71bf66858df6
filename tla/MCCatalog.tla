----------------------------- MODULE MCCatalog -----------------------------
(* Instances of Catalog for TLC.                                           *)
EXTENDS Catalog

CONSTANTS t, u, id, x, doc, other

TwoNames   == {t, u}
TwoColumns == {id, x}
TwoSchemas == {doc, other}

Plain(type) == [type |-> type, nullable |-> TRUE, index |-> TRUE, columnstore |-> TRUE,
                computed |-> "no"]
Key         == [Plain(Scalar("String")) EXCEPT !.nullable = FALSE]

Tab(column, key, options) ==
    [columns |-> [c \in {id, x} |-> IF c = id THEN Key ELSE column],
     key |-> key, options |-> options]

\* A table and a view of other clients.
Stored(type, nullable) == [type |-> ColumnType(Scalar(type)), nullable |-> nullable,
                           index |-> TRUE, columnstore |-> TRUE, generated |-> FALSE]
OtherTable ==
    [kind |-> "table", key |-> {x}, options |-> {},
     columns |-> [c \in {id, x} |-> Stored("BIGINT", c # x)]]
OtherView ==
    [kind |-> "view", key |-> {}, options |-> {},
     columns |-> [c \in {id, x} |-> Stored("String", TRUE)]]

Every == {doc, other} \X {t, u}

App(url, schema, tables, table, inspects, others, places) ==
    [url |-> url, schema |-> schema, tables |-> tables, cyclic |-> FALSE, table |-> table,
     inspects |-> inspects, others |-> others, places |-> places]

Wanted == Tab(Plain(Scalar("INTEGER")), {id}, {})

\* Applications that create two tables next to other clients, in the schema of the URL or
\* another; that create tables with each option and constraint; that read and copy tables
\* with a column of each type; that inspect both schemas.
Creating ==
    {App(url, schema, {t, u}, Wanted, FALSE, {OtherTable}, {<<other, t>>, <<doc, t>>, <<other, u>>})
        : url \in {NoSchema, other}, schema \in {NoSchema, other}}
    \cup {[App(NoSchema, NoSchema, {t, u}, Wanted, FALSE, {OtherView}, {<<doc, t>>})
            EXCEPT !.cyclic = TRUE]}

Declaring ==
    {App(NoSchema, other, {t}, Tab(column, {id}, options), FALSE, {}, {})
        : options \in {{}, {"clustered_by", "refresh_interval"}, Options},
          column \in [type : {Scalar("String"), Scalar("INTEGER"), Scalar("ObjectType")},
                      nullable : BOOLEAN, index : BOOLEAN, columnstore : BOOLEAN,
                      computed : {"no", "persisted", "virtual"}]}

Copying ==
    {App(NoSchema, NoSchema, {t}, Tab(Plain(type), {}, {}), TRUE, {}, {}) : type \in Types}
    \cup {App(NoSchema, NoSchema, {t}, Wanted, TRUE, {}, {})}

Inspecting ==
    {App(url, schema, {}, Wanted, TRUE, {OtherTable, OtherView}, {<<doc, t>>, <<other, t>>})
        : url \in {NoSchema, other}, schema \in {NoSchema, other}}

Various == Creating \cup Declaring \cup Copying \cup Inspecting
=============================================================================
