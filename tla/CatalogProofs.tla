--------------------------- MODULE CatalogProofs ---------------------------
(* Proofs about Catalog, for any names, columns, schemas and applications. *)
EXTENDS Catalog, TLAPS

\* A type that has a name in SQL is shown by CrateDB under one of its names.
LEMMA ShownNameType ==
    ASSUME NEW name \in TypeNames, SqlName(name) # NoSqlName
    PROVE  ShownName(SqlName(name)) \in ShownNames
<1> DEFINE SqlNames ==
        {"STRING", "VARCHAR", "DOUBLE", "DOUBLE PRECISION", "LONG", "INT", "SHORT", "FLOAT",
         "REAL", "TIMESTAMP WITHOUT TIME ZONE", "TIMESTAMP WITH TIME ZONE", "TIMESTAMP",
         "BOOLEAN", "OBJECT", "FLOAT_VECTOR(n)", "GEO_POINT", "GEO_SHAPE"}
<1>1. SqlName(name) \in SqlNames
  <2>1. InheritedName(name) \in SqlNames \cup {NoSqlName}
    BY DEF InheritedName
  <2> QED
    BY <2>1 DEF SqlName
<1>2. ASSUME NEW sql \in SqlNames
      PROVE  ShownName(sql) \in ShownNames
  BY DEF ShownName, ShownNames
<1> QED
  BY <1>1, <1>2

LEMMA ColumnTypeType ==
    ASSUME NEW type \in Types, IsNamed(type)
    PROVE  ColumnType(type) \in ColumnTypes
<1>1. ShownName(SqlName(type.name)) \in ShownNames
  BY ShownNameType DEF Types, IsNamed
<1> QED
  BY <1>1 DEF ColumnTypes, ColumnType, Types, IsNamed

\* TYPES_MAP knows only types of SQLAlchemy.
LEMMA MappedNameType ==
    ASSUME NEW shown \in ShownNames
    PROVE  MappedName(shown) \in TypeNames
BY DEF ShownNames, MappedName, TypeNames, Strings, Timestamps

LEMMA ReflectedTypeType ==
    ASSUME NEW shown \in ColumnTypes
    PROVE  ReflectedType(shown) \in Types
<1>1. MappedName(shown.name) \in TypeNames
  BY MappedNameType DEF ColumnTypes
<1>2. "UserDefinedType" \in TypeNames
  BY DEF TypeNames
<1> QED
  BY <1>1, <1>2 DEF ReflectedType, Scalar, ArrayOf, Types

\* A name that TYPES_MAP knows, and the name of the type it stands for in CrateDB.
LEMMA NameRoundTrip ==
    ASSUME NEW shown \in ShownNames, SqlName(MappedName(shown)) # NoSqlName
    PROVE  ShownName(SqlName(MappedName(shown))) = shown
<1>1. /\ MappedName("text") = "VARCHAR"
      /\ MappedName("double precision") = "DOUBLE_PRECISION"
      /\ MappedName("bigint") = "BIGINT"
      /\ MappedName("integer") = "INTEGER"
      /\ MappedName("smallint") = "SMALLINT"
      /\ MappedName("real") = "REAL"
      /\ MappedName("timestamp without time zone") = "TIMESTAMP"
      /\ MappedName("timestamp with time zone") = "TIMESTAMP(timezone)"
      /\ MappedName("boolean") = "BOOLEAN"
      /\ MappedName("object") = "ObjectType"
      /\ MappedName("float_vector") = "FloatVector"
      /\ MappedName("geo_point") = "UserDefinedType"
      /\ MappedName("geo_shape") = "UserDefinedType"
  BY DEF MappedName
<1>2. /\ SqlName("VARCHAR") = "VARCHAR"
      /\ SqlName("DOUBLE_PRECISION") = "DOUBLE PRECISION"
      /\ SqlName("BIGINT") = "LONG"
      /\ SqlName("INTEGER") = "INT"
      /\ SqlName("SMALLINT") = "SHORT"
      /\ SqlName("REAL") = "REAL"
      /\ SqlName("TIMESTAMP") = "TIMESTAMP WITHOUT TIME ZONE"
      /\ SqlName("TIMESTAMP(timezone)") = "TIMESTAMP WITH TIME ZONE"
      /\ SqlName("BOOLEAN") = "BOOLEAN"
      /\ SqlName("ObjectType") = "OBJECT"
      /\ SqlName("FloatVector") = NoSqlName
      /\ SqlName("UserDefinedType") = NoSqlName
  BY DEF SqlName, InheritedName, Strings, Timestamps
<1>3. /\ ShownName("VARCHAR") = "text"
      /\ ShownName("DOUBLE PRECISION") = "double precision"
      /\ ShownName("LONG") = "bigint"
      /\ ShownName("INT") = "integer"
      /\ ShownName("SHORT") = "smallint"
      /\ ShownName("REAL") = "real"
      /\ ShownName("TIMESTAMP WITHOUT TIME ZONE") = "timestamp without time zone"
      /\ ShownName("TIMESTAMP WITH TIME ZONE") = "timestamp with time zone"
      /\ ShownName("BOOLEAN") = "boolean"
      /\ ShownName("OBJECT") = "object"
  BY DEF ShownName
<1> QED
  BY <1>1, <1>2, <1>3 DEF ShownNames

\* A column's type that is read from the catalog and named again is the same type in CrateDB,
\* when it has a name.
THEOREM TypesComeBack ==
    ASSUME NEW shown \in ColumnTypes, IsNamed(ReflectedType(shown))
    PROVE  ColumnType(ReflectedType(shown)) = shown
<1>1. SqlName("UserDefinedType") = NoSqlName
  BY DEF SqlName, InheritedName, NoSqlName, Strings, Timestamps
<1>2. /\ ReflectedType(shown).name = MappedName(shown.name)
      /\ ReflectedType(shown).dimensions = shown.dimensions
  BY <1>1 DEF ReflectedType, Scalar, ArrayOf, IsNamed, ColumnTypes
<1>3. ShownName(SqlName(MappedName(shown.name))) = shown.name
  BY <1>2, NameRoundTrip DEF IsNamed, ColumnTypes
<1> QED
  BY <1>2, <1>3 DEF ColumnType, ColumnTypes

-----------------------------------------------------------------------------
(* Types.                                                                  *)

\* CREATE TABLE makes a relation.
LEMMA SpecifiedType ==
    ASSUME NEW table \in Table, IsCompiledTable(table)
    PROVE  Specified(table) \in Relation
<1>1. ASSUME NEW c \in Columns
      PROVE  SpecifiedColumn(table.columns[c]) \in Column
  <2>1. table.columns[c] \in Declaration
    BY DEF Table
  <2>2. IsNamed(table.columns[c].type)
    BY DEF IsCompiledTable, IsCompiled
  <2>3. ColumnType(table.columns[c].type) \in ColumnTypes
    BY <2>1, <2>2, ColumnTypeType DEF Declaration
  <2> QED
    BY <2>1, <2>3 DEF SpecifiedColumn, Column, Declaration
<1>2. SpecifiedOptions(table.options) \subseteq CrateOptions
  BY DEF SpecifiedOptions, CrateOptions
<1> QED
  BY <1>1, <1>2 DEF Specified, Relation, Table

\* What is read of a table is a declaration.
LEMMA RedeclaredType ==
    ASSUME NEW table \in Reflected
    PROVE  Redeclared(table) \in Table
BY DEF Reflected, Redeclared, Table, Declaration

\* The answers of the dialect have the types of answers, and so has the cache that keeps them.
LEMMA AnswerType ==
    ASSUME TypeOK
    PROVE  /\ TableNames(app.schema) \subseteq Names
           /\ ViewNames \subseteq Names
           /\ \A n \in Names : ColumnsOf(n) \in [Columns -> Column] \cup {NoRelation}
           /\ \A n \in Names : KeyOf(n) \subseteq Columns
<1>1. app \in Application
  BY ApplicationsAssumption DEF TypeOK
<1>2. ReadSchema(app.schema) \in Schemas
  BY <1>1, NamesAssumption DEF ReadSchema, Application
<1>3. ASSUME NEW n \in Names
      PROVE  catalog[ReadSchema(app.schema)][n] \in Relation \cup {NoRelation}
  BY <1>2 DEF TypeOK
<1>4. \A n \in Names : ColumnsOf(n) \in [Columns -> Column] \cup {NoRelation}
  BY <1>3 DEF ColumnsOf, Related, Relation
<1>5. \A n \in Names : KeyOf(n) \subseteq Columns
  BY <1>3 DEF KeyOf, Related, Relation
<1> QED
  BY <1>4, <1>5 DEF TableNames, ViewNames

LEMMA UnaskedType == Unasked \in Answers
<1>1. /\ Unasked.columns \in [Names -> [Columns -> Column] \cup {NoRelation, NotAsked}]
      /\ Unasked.keys \in [Names -> (SUBSET Columns) \cup {NotAsked}]
      /\ Unasked.tables \in (SUBSET Names) \cup {NotAsked}
      /\ Unasked.views \in (SUBSET Names) \cup {NotAsked}
  BY DEF Unasked
<1>2. Unasked = [tables |-> Unasked.tables, views |-> Unasked.views,
                 columns |-> Unasked.columns, keys |-> Unasked.keys]
  BY DEF Unasked
<1> QED
  BY <1>1, <1>2 DEF Answers

\* The inspector's new answers.
LEMMA AskedType ==
    ASSUME TypeOK, NEW n \in Names
    PROVE  /\ AskedColumns(n) \in Answers
           /\ AskedKey(n) \in Answers
           /\ AskedTables \in Answers
           /\ AskedViews \in Answers
           /\ AskedColumns(n).columns[n] \in [Columns -> Column] \cup {NoRelation}
<1>1. cache \in Answers
  BY DEF TypeOK
<1>2. AskedColumns(n) \in Answers
  BY <1>1, AnswerType DEF AskedColumns, Cached, Answers
<1>3. AskedKey(n) \in Answers
  BY <1>1, AnswerType DEF AskedKey, Cached, Answers
<1>4. AskedTables \in Answers
  BY <1>1, AnswerType DEF AskedTables, Cached, Answers
<1>5. AskedViews \in Answers
  BY <1>1, AnswerType DEF AskedViews, Cached, Answers
<1>6. AskedColumns(n).columns[n] \in [Columns -> Column] \cup {NoRelation}
  BY <1>1, AnswerType DEF AskedColumns, Cached, Answers
<1> QED
  BY <1>2, <1>3, <1>4, <1>5, <1>6

\* An executed CREATE TABLE keeps the types.
LEMMA CreatedType ==
    ASSUME TypeOK, NEW n \in Names, IsCompiledTable(app.table), Created(n)
    PROVE  /\ catalog' \in [Schemas -> [Names -> Relation \cup {NoRelation}]]
           /\ stable' \in BOOLEAN
           /\ missing' \subseteq Names
           /\ made' \subseteq Names
<1>1. app.table \in Table
  BY ApplicationsAssumption DEF TypeOK, Application
<1>2. Specified(app.table) \in Relation
  BY <1>1, SpecifiedType
<1> QED
  BY <1>2 DEF TypeOK, Created

\* The second half of reading a table keeps the types.
LEMMA ReadKeyType ==
    ASSUME TypeOK, ReadKey
    PROVE  cache' \in Answers /\ reflected' \in Reflected \cup {NoRelation}
<1> DEFINE columns == cache.columns[subject]
           withKey == AskedKey(subject)
<1>1. withKey \in Answers
  BY AskedType DEF TypeOK
<1>2. CASE columns # NoRelation
  <2>1. columns \in [Columns -> Column]
    BY <1>2 DEF TypeOK, ReadKey
  <2>2. withKey.keys[subject] \in SUBSET Columns
    <3>1. /\ cache.keys[subject] \in (SUBSET Columns) \cup {NotAsked}
          /\ withKey.keys[subject] = Cached(cache.keys[subject], KeyOf(subject))
      BY DEF AskedKey, Answers, TypeOK
    <3>2. KeyOf(subject) \in SUBSET Columns
      BY AnswerType DEF TypeOK
    <3> QED
      BY <3>1, <3>2 DEF Cached
  <2>3. \A c \in Columns : columns[c].type \in ColumnTypes
    BY <2>1 DEF Column
  <2>4. \A c \in Columns : ReflectedType(columns[c].type) \in Types
    BY <2>3, ReflectedTypeType
  <2>5. /\ cache' = withKey
        /\ reflected' = [columns |-> [c \in Columns |-> ReflectedType(columns[c].type)],
                         shown   |-> [c \in Columns |-> columns[c].type],
                         key     |-> withKey.keys[subject]]
    BY <1>2 DEF ReadKey
  <2>6. reflected' \in Reflected
    BY <2>2, <2>3, <2>4, <2>5 DEF Reflected
  <2> QED
    BY <1>1, <2>5, <2>6
<1>3. CASE columns = NoRelation
  <2>1. cache' = [withKey EXCEPT !.tables = Cached(@, TableNames(app.schema))]
    BY <1>3 DEF ReadKey
  <2>2. cache' \in Answers
    BY <1>1, <2>1, AnswerType DEF Cached, Answers
  <2> QED
    BY <1>3, <2>2 DEF ReadKey, TypeOK
<1> QED
  BY <1>2, <1>3

\* Every step keeps the types.
LEMMA TypeStep ==
    ASSUME TypeOK, [Next]_vars
    PROVE  TypeOK'
<1>a. app' = app
  BY DEF Next, vars
<1> USE <1>a
<1>b. app \in Application
  BY ApplicationsAssumption DEF TypeOK
<1>1. CASE UNCHANGED vars
  BY <1>1 DEF TypeOK, vars, creation, reading, history, Answers
<1>2. CASE CreateAll
  BY <1>2, <1>b DEF TypeOK, CreateAll, Steps, Outcomes, reading, Application
<1>3. ASSUME NEW n \in Names, Ask(n)
      PROVE  TypeOK'
  BY <1>3 DEF TypeOK, Ask, Stop, Steps, Outcomes, reading, history
<1>4. ASSUME NEW n \in Names, CreateTable(n)
      PROVE  TypeOK'
  BY <1>4, CreatedType DEF TypeOK, CreateTable, Stop, Steps, Outcomes, reading
<1>5. ASSUME NEW n \in Names, CreateIsRefused(n)
      PROVE  TypeOK'
  BY <1>5 DEF TypeOK, CreateIsRefused, Stop, Steps, Outcomes, reading, history, creation
<1>6. ASSUME NEW n \in Names, CreateIsLost(n)
      PROVE  TypeOK'
  <2>1. CASE Created(n)
    BY <1>6, <2>1, CreatedType DEF TypeOK, CreateIsLost, Stop, Steps, Outcomes, reading
  <2>2. CASE UNCHANGED <<catalog, stable, missing, made>>
    BY <1>6, <2>2 DEF TypeOK, CreateIsLost, Stop, Steps, Outcomes, reading
  <2> QED
    BY <1>6, <2>1, <2>2 DEF CreateIsLost
<1>7. CASE AddForeignKeys
  BY <1>7 DEF TypeOK, AddForeignKeys, Stop, Steps, Outcomes, reading, history, creation
<1>8. CASE NewInspector
  BY <1>8, UnaskedType DEF TypeOK, NewInspector, creation
<1>9. CASE Inspect
  BY <1>9, AskedType DEF TypeOK, Inspect, creation, history
<1>10. ASSUME NEW n \in Names, Reflect(n)
       PROVE  TypeOK'
  BY <1>10 DEF TypeOK, Reflect, Steps, Outcomes, creation, history
<1>11. CASE ReadColumns
  BY <1>11, AskedType DEF TypeOK, ReadColumns, Steps, creation, history
<1>12. CASE ReadKey
  BY <1>12, ReadKeyType DEF TypeOK, ReadKey, Stop, Steps, Outcomes, creation, history
<1>13. ASSUME NEW n \in Names, Copy(n)
       PROVE  TypeOK'
  <2>1. reflected \in Reflected
    BY <1>13 DEF TypeOK, Copy
  <2>2. Redeclared(reflected) \in Table
    BY <2>1, RedeclaredType
  <2>3. CASE IsCompiledTable(Redeclared(reflected))
    <3>1. Specified(Redeclared(reflected)) \in Relation
      BY <2>2, <2>3, SpecifiedType
    <3>2. catalog' \in [Schemas -> [Names -> Relation \cup {NoRelation}]]
      BY <1>13, <2>3, <3>1 DEF TypeOK, Copy
    <3> QED
      BY <1>13, <2>3, <3>2 DEF TypeOK, Copy, Outcomes, creation
  <2>4. CASE ~IsCompiledTable(Redeclared(reflected))
    BY <1>13, <2>4 DEF TypeOK, Copy, Outcomes, creation
  <2> QED
    BY <2>3, <2>4
<1>14. ASSUME NEW s \in Schemas, NEW n \in Names, NEW relation \in app.others \cup {NoRelation},
              Elsewhere(s, n, relation)
       PROVE  TypeOK'
  <2>1. relation \in Relation \cup {NoRelation}
    BY <1>b DEF Application
  <2>2. catalog' \in [Schemas -> [Names -> Relation \cup {NoRelation}]]
    BY <1>14, <2>1 DEF TypeOK, Elsewhere
  <2>3. changes' \in 0..MaxChanges
    BY <1>14, NamesAssumption DEF TypeOK, Elsewhere
  <2> QED
    BY <1>14, <2>2, <2>3 DEF TypeOK, Elsewhere, creation, reading
<1> QED
  BY <1>1, <1>2, <1>3, <1>4, <1>5, <1>6, <1>7, <1>8, <1>9, <1>10, <1>11, <1>12, <1>13, <1>14
  DEF Next

\* The types are right from the start.
LEMMA TypeInit ==
    ASSUME Init
    PROVE  TypeOK
<1>1. app.others \subseteq Relation
  BY ApplicationsAssumption DEF Init, Application
<1>2. catalog \in [Schemas -> [Names -> Relation \cup {NoRelation}]]
  BY <1>1 DEF Init
<1> QED
  BY <1>2, UnaskedType, NamesAssumption DEF Init, TypeOK, Steps, Outcomes

\* The type invariant: variables keep their types, whatever the application declares, reads and
\* copies and whatever other clients do.
THEOREM TypeCorrect == Spec => []TypeOK
BY TypeInit, TypeStep, PTL DEF Spec

-----------------------------------------------------------------------------
(* create_all.                                                             *)

\* The schema of the statements is a schema.
LEMMA ResolvedSchema ==
    ASSUME TypeOK
    PROVE  Resolved(app.schema) \in Schemas
BY ApplicationsAssumption, NamesAssumption DEF TypeOK, Application, Resolved

\* What a CREATE TABLE leaves under each name.
LEMMA CreatedTable ==
    ASSUME TypeOK, NEW n \in Names, Created(n), app' = app
    PROVE  \A m \in Names : Meant(m)' = IF m = n THEN Specified(app.table) ELSE Meant(m)
BY ResolvedSchema DEF TypeOK, Created, Meant, Resolved

\* What CREATE TABLE makes is there.
LEMMA SpecifiedIsThere ==
    ASSUME NEW table \in Table, IsCompiledTable(table)
    PROVE  Specified(table) # NoRelation
BY SpecifiedType, NamesAssumption

\* What create_all relies on: the tables that it created are as declared, those it has neither to
\* ask for nor to create are there, and when it has ended well all are.
Creating ==
    /\ step = "creating" => left = {}
    /\ quiet /\ made # {} => IsCompiledTable(app.table)
    /\ quiet => \A n \in made : Meant(n) = Specified(app.table)
    /\ quiet /\ step \in {"asking", "creating"} =>
        \A n \in app.tables : n \in left \/ n \in missing \/ Meant(n) # NoRelation
    /\ quiet /\ outcome = "created" => \A n \in app.tables : Meant(n) # NoRelation

\* A step of create_all or of another that leaves the tables and the plan alone.
LEMMA CreatingElse ==
    ASSUME TypeOK, Creating, app' = app,
           UNCHANGED <<catalog, left, missing, made, quiet>>,
           step' \notin {"asking", "creating"} \/ step' = step,
           outcome' # "created" \/ outcome' = outcome
    PROVE  Creating'
BY DEF Creating, Meant, Resolved

LEMMA CreatingStep ==
    ASSUME TypeOK, Creating, [Next]_vars
    PROVE  Creating'
<1>a. app' = app
  BY DEF Next, vars
<1> USE <1>a
<1>b. app \in Application /\ app.table \in Table /\ app.tables \subseteq Names
  BY ApplicationsAssumption DEF TypeOK, Application
<1>c. made \subseteq Names /\ missing \subseteq Names
  BY DEF TypeOK
<1>1. CASE UNCHANGED vars
  BY <1>1, CreatingElse DEF vars, creation, history
<1>2. CASE CreateAll
  BY <1>2 DEF Creating, CreateAll
<1>3. ASSUME NEW n \in Names, Ask(n)
      PROVE  Creating'
  <2>1. \A m \in Names : Meant(m)' = Meant(m)
    BY <1>3 DEF Ask, Meant, Resolved
  <2>2. HasTable(n) => Meant(n) # NoRelation
    BY DEF HasTable, TableNames, ListedSchema, Related, Meant, Resolved
  <2>3. /\ left' = left \ {n}
        /\ missing' = IF HasTable(n) THEN missing ELSE missing \cup {n}
        /\ UNCHANGED <<made, quiet>>
        /\ step = "asking"
    BY <1>3 DEF Ask, history
  <2>4. quiet' => \A m \in app.tables : m \in left' \/ m \in missing' \/ Meant(m)' # NoRelation
    BY <1>b, <2>1, <2>2, <2>3 DEF Creating
  <2>5. /\ step' = "creating" => left' = {}
        /\ outcome' = "created" /\ outcome # "created" => left' = {} /\ missing' = {}
    BY <1>3, <2>3 DEF Ask, Stop
  <2> QED
    BY <1>b, <1>c, <2>1, <2>3, <2>4, <2>5 DEF Creating
<1>4. ASSUME NEW n \in Names, Created(n), IsCompiledTable(app.table), UNCHANGED <<left, quiet>>,
             step = "creating",
             \/ step' = "creating" /\ outcome' = outcome
             \/ step' = "idle" /\ outcome' = "created" /\ missing' = {}
             \/ step' = "altering" /\ outcome' = outcome
             \/ step' = "idle" /\ outcome' = "lost"
      PROVE  Creating'
  <2>1. \A m \in Names : Meant(m)' = IF m = n THEN Specified(app.table) ELSE Meant(m)
    BY <1>4, CreatedTable
  <2>2. Specified(app.table) # NoRelation
    BY <1>b, <1>4, SpecifiedIsThere
  <2>3. missing' = missing \ {n} /\ made' = made \cup {n}
    BY <1>4 DEF Created
  <2>4. quiet' => \A m \in made' : Meant(m)' = Specified(app.table)
    BY <1>c, <1>4, <2>1, <2>3 DEF Creating
  <2>5. quiet' => \A m \in app.tables : m \in left' \/ m \in missing' \/ Meant(m)' # NoRelation
    BY <1>b, <1>4, <2>1, <2>2, <2>3 DEF Creating
  <2>6. left = {}
    BY <1>4 DEF Creating
  <2>7. quiet' /\ outcome' = "created" => \A m \in app.tables : Meant(m)' # NoRelation
    <3>1. CASE outcome' = outcome
      BY <1>b, <1>4, <2>1, <2>2, <3>1 DEF Creating
    <3>2. CASE missing' = {}
      BY <1>4, <2>5, <2>6, <3>2
    <3>3. CASE outcome' = "lost"
      BY <3>3
    <3> QED
      BY <1>4, <3>1, <3>2, <3>3
  <2> QED
    BY <1>4, <2>4, <2>5, <2>6, <2>7 DEF Creating
<1>5. ASSUME NEW n \in Names, CreateTable(n)
      PROVE  Creating'
  BY <1>4, <1>5 DEF CreateTable, Stop
<1>6. ASSUME NEW n \in Names, CreateIsRefused(n)
      PROVE  Creating'
  BY <1>6, CreatingElse DEF CreateIsRefused, Stop, creation, history
<1>7. ASSUME NEW n \in Names, CreateIsLost(n)
      PROVE  Creating'
  <2>1. CASE Created(n)
    BY <1>4, <1>7, <2>1 DEF CreateIsLost, Stop
  <2>2. CASE UNCHANGED <<catalog, stable, missing, made>>
    BY <1>7, <2>2, CreatingElse DEF CreateIsLost, Stop
  <2> QED
    BY <1>7, <2>1, <2>2 DEF CreateIsLost
<1>8. CASE AddForeignKeys
  BY <1>8, CreatingElse DEF AddForeignKeys, Stop, creation, history
<1>9. CASE NewInspector \/ Inspect \/ ReadColumns
  BY <1>9, CreatingElse DEF NewInspector, Inspect, ReadColumns, creation, history
<1>10. ASSUME NEW n \in Names, Reflect(n)
       PROVE  Creating'
  BY <1>10, CreatingElse DEF Reflect, creation, history
<1>11. CASE ReadKey
  <2>1. outcome' \in {"read", "no such table"} /\ step' = "idle"
    BY <1>11 DEF ReadKey, Stop
  <2> QED
    BY <1>11, <2>1, CreatingElse DEF ReadKey, creation, history
<1>12. ASSUME NEW n \in Names, Copy(n)
       PROVE  Creating'
  <2>1. \A m \in Names : Meant(m)' = Meant(m) \/ (Meant(m) = NoRelation /\ Meant(m)' # NoRelation)
    <3>1. CASE IsCompiledTable(Redeclared(reflected))
      <4>1. reflected \in Reflected
        BY <1>12 DEF TypeOK, Copy
      <4>2. Specified(Redeclared(reflected)) # NoRelation
        BY <3>1, <4>1, RedeclaredType, SpecifiedIsThere
      <4>3. \A m \in Names :
              Meant(m)' = IF m = n THEN Specified(Redeclared(reflected)) ELSE Meant(m)
        BY <1>12, <3>1, ResolvedSchema DEF Copy, Meant, Resolved, TypeOK
      <4>4. Meant(n) = NoRelation
        BY <1>12 DEF Copy, Related, Meant
      <4> QED
        BY <4>2, <4>3, <4>4
    <3>2. CASE ~IsCompiledTable(Redeclared(reflected))
      BY <1>12, <3>2 DEF Copy, Meant, Resolved
    <3> QED
      BY <3>1, <3>2
  <2>2. quiet => \A m \in made : Meant(m) # NoRelation
    BY <1>b, SpecifiedIsThere DEF Creating
  <2>3. /\ step = "idle" /\ step' = step
        /\ UNCHANGED <<left, missing, made, quiet>>
        /\ outcome' # "created"
    BY <1>12 DEF Copy, creation
  <2> QED
    BY <1>b, <1>c, <2>1, <2>2, <2>3 DEF Creating
<1>13. ASSUME NEW s \in Schemas, NEW n \in Names, NEW relation \in app.others \cup {NoRelation},
              Elsewhere(s, n, relation)
       PROVE  Creating'
  BY <1>13 DEF Elsewhere, Creating, creation
<1> QED
  BY <1>1, <1>2, <1>3, <1>5, <1>6, <1>7, <1>8, <1>9, <1>10, <1>11, <1>12, <1>13 DEF Next

LEMMA CreatingInit ==
    ASSUME Init
    PROVE  Creating
BY DEF Init, Creating

\* What create_all relies on gives what it promises: the options and the constraints of the
\* statement are those of the declaration.
LEMMA CreatingGives ==
    ASSUME TypeOK, Creating
    PROVE  AllAreCreated
<1> SUFFICES ASSUME outcome = "created", quiet, NEW n \in app.tables
             PROVE  /\ Meant(n) # NoRelation
                    /\ n \in made =>
                        /\ Meant(n).key = app.table.key
                        /\ Meant(n).options = app.table.options \cap CrateOptions
                        /\ \A c \in Columns :
                            LET column == Meant(n).columns[c]
                                declared == app.table.columns[c]
                            IN  /\ column.nullable = declared.nullable
                                /\ column.index = declared.index
                                /\ column.columnstore = declared.columnstore
                                /\ column.generated = (declared.computed # "no")
  BY DEF AllAreCreated
<1>1. Meant(n) # NoRelation
  BY DEF Creating
<1>2. ASSUME n \in made
      PROVE  Meant(n) = Specified(app.table) /\ IsCompiledTable(app.table)
  BY <1>2 DEF Creating
<1>3. app.table \in Table
  BY ApplicationsAssumption DEF TypeOK, Application
<1>4. SpecifiedOptions(app.table.options) = app.table.options \cap CrateOptions
  BY DEF SpecifiedOptions, CrateOptions
<1>5. ASSUME IsCompiledTable(app.table), NEW c \in Columns
      PROVE  app.table.columns[c].computed \in {"no", "persisted"}
  BY <1>3, <1>5 DEF IsCompiledTable, IsCompiled, Table, Declaration
<1> QED
  BY <1>1, <1>2, <1>4, <1>5 DEF Specified, SpecifiedColumn

\* A create_all that ends well, with nobody interfering, has left every table of the application
\* in place, those it created as they are declared, however many failed before it.
THEOREM CreateAllCreates == Spec => []AllAreCreated
<1>1. TypeOK /\ Creating /\ [Next]_vars => TypeOK' /\ Creating'
  BY TypeStep, CreatingStep
<1> QED
  BY <1>1, TypeInit, CreatingInit, CreatingGives, PTL DEF Spec

-----------------------------------------------------------------------------
(* Statements that are rejected.                                           *)

OnlyTables == \A r \in app.others : r.kind = "table"

\* While nobody interferes, what create_all found missing is missing.
Missing ==
    /\ OnlyTables => \A s \in Schemas, n \in Names :
        catalog[s][n] # NoRelation => catalog[s][n].kind = "table"
    /\ OnlyTables /\ quiet /\ step \in {"asking", "creating"} =>
        \A n \in missing : Meant(n) = NoRelation
    /\ step = "altering" => app.cyclic

LEMMA MissingInit ==
    ASSUME Init
    PROVE  Missing
<1>1. app.others \subseteq Relation
  BY ApplicationsAssumption DEF Init, Application
<1> QED
  BY <1>1 DEF Init, Missing, OnlyTables

LEMMA MissingStep ==
    ASSUME TypeOK, Missing, [Next]_vars
    PROVE  Missing'
<1>a. app' = app
  BY DEF Next, vars
<1> USE <1>a
<1>b. missing \subseteq Names
  BY DEF TypeOK
<1>1. ASSUME UNCHANGED <<catalog, missing, quiet>>, step' \in {step, "idle"}
      PROVE  Missing'
  BY <1>1 DEF Missing, OnlyTables, Meant, Resolved
<1>2. CASE UNCHANGED vars
  BY <1>1, <1>2 DEF vars, creation, history
<1>3. CASE CreateAll
  BY <1>3 DEF CreateAll, Missing, OnlyTables
<1>4. ASSUME NEW n \in Names, Ask(n)
      PROVE  Missing'
  <2>1. /\ UNCHANGED <<catalog, quiet>>
        /\ step = "asking" /\ step' \in {"asking", "creating", "idle"}
        /\ missing' = IF HasTable(n) THEN missing ELSE missing \cup {n}
    BY <1>4 DEF Ask, Stop, history
  <2>2. OnlyTables /\ ~HasTable(n) => Meant(n) = NoRelation
    BY ResolvedSchema
    DEF Missing, HasTable, TableNames, ListedSchema, Related, Meant, Resolved
  <2> QED
    BY <2>1, <2>2 DEF Missing, OnlyTables, Meant, Resolved
<1>5. ASSUME NEW n \in Names, Created(n), quiet' = quiet, step = "creating",
             \/ step' \in {"creating", "idle"}
             \/ step' = "altering" /\ app.cyclic
      PROVE  Missing'
  <2>1. missing' = missing \ {n}
    BY <1>5 DEF Created
  <2>2. \A m \in Names : Meant(m)' = IF m = n THEN Specified(app.table) ELSE Meant(m)
    BY <1>5, CreatedTable
  <2>3. \A s \in Schemas, m \in Names :
            catalog'[s][m] = catalog[s][m] \/ catalog'[s][m] = Specified(app.table)
    BY <1>5 DEF Created, TypeOK
  <2>4. Specified(app.table).kind = "table"
    BY DEF Specified
  <2> QED
    BY <1>b, <1>5, <2>1, <2>2, <2>3, <2>4 DEF Missing, OnlyTables
<1>6. ASSUME NEW n \in Names, CreateTable(n)
      PROVE  Missing'
  BY <1>5, <1>6 DEF CreateTable, Stop, InCycle
<1>7. ASSUME NEW n \in Names, CreateIsRefused(n)
      PROVE  Missing'
  BY <1>1, <1>7 DEF CreateIsRefused, Stop, creation, history
<1>8. ASSUME NEW n \in Names, CreateIsLost(n)
      PROVE  Missing'
  <2>1. CASE Created(n)
    BY <1>5, <1>8, <2>1 DEF CreateIsLost, Stop
  <2>2. CASE UNCHANGED <<catalog, stable, missing, made>>
    BY <1>1, <1>8, <2>2 DEF CreateIsLost, Stop
  <2> QED
    BY <1>8, <2>1, <2>2 DEF CreateIsLost
<1>9. CASE AddForeignKeys
  BY <1>1, <1>9 DEF AddForeignKeys, Stop, creation, history
<1>10. CASE NewInspector \/ Inspect
  BY <1>1, <1>10 DEF NewInspector, Inspect, creation, history
<1>11. CASE ReadColumns
  BY <1>11 DEF ReadColumns, creation, history, Missing, OnlyTables
<1>12. ASSUME NEW n \in Names, Reflect(n)
       PROVE  Missing'
  BY <1>12 DEF Reflect, creation, history, Missing, OnlyTables
<1>13. CASE ReadKey
  <2>1. step' = "idle"
    BY <1>13 DEF ReadKey, Stop
  <2> QED
    BY <1>1, <1>13, <2>1 DEF ReadKey, creation, history
<1>14. ASSUME NEW n \in Names, Copy(n)
       PROVE  Missing'
  <2>1. step' = "idle"
    BY <1>14 DEF Copy
  <2>2. \A s \in Schemas, m \in Names :
            \/ catalog'[s][m] = catalog[s][m]
            \/ catalog'[s][m] = Specified(Redeclared(reflected))
    BY <1>14 DEF Copy, TypeOK
  <2>3. Specified(Redeclared(reflected)).kind = "table"
    BY DEF Specified
  <2> QED
    BY <2>1, <2>2, <2>3 DEF Missing, OnlyTables
<1>15. ASSUME NEW s \in Schemas, NEW n \in Names, NEW relation \in app.others \cup {NoRelation},
              Elsewhere(s, n, relation)
       PROVE  Missing'
  <2>1. \A z \in Schemas, m \in Names :
            catalog'[z][m] = catalog[z][m] \/ catalog'[z][m] = relation
    BY <1>15 DEF Elsewhere, TypeOK
  <2>2. quiet' = FALSE /\ step' = step
    BY <1>15 DEF Elsewhere
  <2> QED
    BY <2>1, <2>2 DEF Missing, OnlyTables
<1> QED
  BY <1>2, <1>3, <1>4, <1>6, <1>7, <1>8, <1>9, <1>10, <1>11, <1>12, <1>13, <1>14, <1>15 DEF Next

\* Only a refused CREATE TABLE and the foreign keys of a cycle end in a rejection.
LEMMA RejectionStep ==
    ASSUME TypeOK, Missing, NothingIsRejected, [Next]_vars
    PROVE  NothingIsRejected'
<1>a. app' = app
  BY DEF Next, vars
<1> USE <1>a
<1> SUFFICES ASSUME quiet', ~app.cyclic, OnlyTables
             PROVE  outcome' # "rejected"
  BY DEF NothingIsRejected, OnlyTables
<1>1. ASSUME quiet' = quiet, outcome' \in {outcome, "none", "created", "read", "copied", "lost",
                                           "uncompilable", "no such table"}
      PROVE  outcome' # "rejected"
  BY <1>1 DEF NothingIsRejected, OnlyTables
<1>2. CASE UNCHANGED vars
  BY <1>1, <1>2 DEF vars, history
<1>3. CASE CreateAll
  BY <1>3 DEF CreateAll
<1>4. ASSUME NEW n \in Names, Ask(n) \/ CreateTable(n) \/ CreateIsLost(n) \/ Reflect(n)
      PROVE  outcome' # "rejected"
  BY <1>1, <1>4 DEF Ask, CreateTable, CreateIsLost, Reflect, Stop, history
<1>5. ASSUME NEW n \in Names, CreateIsRefused(n)
      PROVE  outcome' # "rejected"
  <2>1. quiet' = quiet /\ n \in missing /\ step = "creating"
    BY <1>5 DEF CreateIsRefused, history
  <2>2. Meant(n) = NoRelation
    BY <2>1 DEF Missing
  <2>3. ~Related(Resolved(app.schema), n)
    BY <2>2 DEF Related, Meant
  <2> QED
    BY <1>5, <2>3 DEF CreateIsRefused, Stop
<1>6. CASE AddForeignKeys
  BY <1>6 DEF AddForeignKeys, Missing
<1>7. CASE NewInspector \/ Inspect \/ ReadColumns
  BY <1>1, <1>7 DEF NewInspector, Inspect, ReadColumns, history
<1>8. CASE ReadKey
  <2>1. outcome' \in {"read", "no such table"} /\ quiet' = quiet
    BY <1>8 DEF ReadKey, Stop, history
  <2> QED
    BY <1>1, <2>1
<1>9. ASSUME NEW n \in Names, Copy(n)
      PROVE  outcome' # "rejected"
  BY <1>9 DEF Copy
<1>10. ASSUME NEW s \in Schemas, NEW n \in Names, NEW relation \in app.others \cup {NoRelation},
              Elsewhere(s, n, relation)
       PROVE  FALSE
  BY <1>10 DEF Elsewhere
<1> QED
  BY <1>2, <1>3, <1>4, <1>5, <1>6, <1>7, <1>8, <1>9, <1>10 DEF Next

\* No statement of create_all is rejected while nobody interferes, whatever an earlier create_all
\* that failed half-way has left behind.
THEOREM CreateAllIsAccepted == Spec => []NothingIsRejected
<1>1. Init => TypeOK /\ Missing /\ NothingIsRejected
  <2>1. Init => NothingIsRejected
    BY DEF Init, NothingIsRejected
  <2> QED
    BY <2>1, TypeInit, MissingInit
<1>2. TypeOK /\ Missing /\ NothingIsRejected /\ [Next]_vars
        => TypeOK' /\ Missing' /\ NothingIsRejected'
  BY TypeStep, MissingStep, RejectionStep
<1> QED
  BY <1>1, <1>2, PTL DEF Spec

-----------------------------------------------------------------------------
(* Answers and copies.                                                     *)

\* Under one schema the dialect answers about the tables that the statements are about.
LEMMA AnswersOfOneSchema ==
    ASSUME TypeOK, OneSchema, NEW n \in Names
    PROVE  /\ n \in TableNames(app.schema) <=> Meant(n) # NoRelation /\ Meant(n).kind = "table"
           /\ IsView(Resolved(app.schema), n) => n \in ViewNames
           /\ n \in ViewNames /\ IsNoViewElsewhere(n) => IsView(Resolved(app.schema), n)
           /\ ColumnsOf(n) = IF Meant(n) = NoRelation THEN NoRelation ELSE Meant(n).columns
           /\ KeyOf(n) = IF Meant(n) = NoRelation THEN {} ELSE Meant(n).key
<1>1. ReadSchema(app.schema) = Resolved(app.schema)
  BY DEF OneSchema, ReadSchema, Resolved
<1>2. ListedSchema(app.schema) = Resolved(app.schema)
  BY DEF ListedSchema, Resolved
<1>3. Resolved(app.schema) \in Schemas
  BY ResolvedSchema
<1> QED
  BY <1>1, <1>2, <1>3
     DEF TableNames, ViewNames, IsView, IsNoViewElsewhere, ColumnsOf, KeyOf, Related, Meant

\* New answers are true, and the old ones stay.
LEMMA TrueAnswers ==
    ASSUME TypeOK, AnswersAreTrue, app' = app, UNCHANGED <<catalog, stable>>,
           NEW n \in Names,
           \/ cache' = cache
           \/ cache' = AskedColumns(n)
           \/ cache' = AskedKey(n)
           \/ cache' = AskedTables
           \/ cache' = AskedViews
           \/ cache' = [AskedKey(n) EXCEPT !.tables = Cached(@, TableNames(app.schema))]
    PROVE  AnswersAreTrue'
<1> SUFFICES ASSUME stable, OneSchema, NEW m \in Names
             PROVE  /\ cache'.tables # NotAsked =>
                        (m \in cache'.tables <=> Meant(m) # NoRelation /\ Meant(m).kind = "table")
                    /\ cache'.views # NotAsked /\ IsView(Resolved(app.schema), m) =>
                        m \in cache'.views
                    /\ cache'.views # NotAsked /\ m \in cache'.views /\ IsNoViewElsewhere(m) =>
                        IsView(Resolved(app.schema), m)
                    /\ cache'.columns[m] # NotAsked => cache'.columns[m] =
                        IF Meant(m) = NoRelation THEN NoRelation ELSE Meant(m).columns
                    /\ cache'.keys[m] # NotAsked =>
                        cache'.keys[m] = IF Meant(m) = NoRelation THEN {} ELSE Meant(m).key
  BY DEF AnswersAreTrue, OneSchema, Meant, Resolved, IsView, IsNoViewElsewhere, Related
<1>1. /\ cache'.tables \in {cache.tables, TableNames(app.schema)}
      /\ cache'.views \in {cache.views, ViewNames}
      /\ cache'.columns[m] \in {cache.columns[m], ColumnsOf(m)}
      /\ cache'.keys[m] \in {cache.keys[m], KeyOf(m)}
  <2>0. cache \in Answers
    BY DEF TypeOK
  <2>1. CASE cache' = cache
    BY <2>1
  <2>2. CASE cache' = AskedColumns(n)
    BY <2>0, <2>2 DEF Answers, AskedColumns, Cached
  <2>3. CASE cache' = AskedKey(n)
    BY <2>0, <2>3 DEF Answers, AskedKey, Cached
  <2>4. CASE cache' = AskedTables
    BY <2>0, <2>4 DEF Answers, AskedTables, Cached
  <2>5. CASE cache' = AskedViews
    BY <2>0, <2>5 DEF Answers, AskedViews, Cached
  <2>6. CASE cache' = [AskedKey(n) EXCEPT !.tables = Cached(@, TableNames(app.schema))]
    BY <2>0, <2>6 DEF Answers, AskedKey, Cached
  <2> QED
    BY <2>1, <2>2, <2>3, <2>4, <2>5, <2>6
<1>2. /\ cache.tables # NotAsked =>
            (m \in cache.tables <=> Meant(m) # NoRelation /\ Meant(m).kind = "table")
      /\ cache.views # NotAsked /\ IsView(Resolved(app.schema), m) => m \in cache.views
      /\ cache.views # NotAsked /\ m \in cache.views /\ IsNoViewElsewhere(m) =>
            IsView(Resolved(app.schema), m)
      /\ cache.columns[m] # NotAsked =>
            cache.columns[m] = IF Meant(m) = NoRelation THEN NoRelation ELSE Meant(m).columns
      /\ cache.keys[m] # NotAsked =>
            cache.keys[m] = IF Meant(m) = NoRelation THEN {} ELSE Meant(m).key
  BY DEF AnswersAreTrue
<1> QED
  BY <1>1, <1>2, AnswersOfOneSchema

LEMMA AnswersStep ==
    ASSUME TypeOK, AnswersAreTrue, [Next]_vars
    PROVE  AnswersAreTrue'
<1>a. app' = app
  BY DEF Next, vars
<1> USE <1>a
<1>b. subject \in Names
  BY DEF TypeOK
<1>1. ASSUME UNCHANGED <<catalog, cache, stable>>
      PROVE  AnswersAreTrue'
  BY <1>1, <1>b, TrueAnswers
<1>2. ASSUME stable' = FALSE
      PROVE  AnswersAreTrue'
  BY <1>2 DEF AnswersAreTrue
<1>3. CASE UNCHANGED vars
  BY <1>1, <1>3 DEF vars, reading, history
<1>4. CASE CreateAll
  BY <1>1, <1>4 DEF CreateAll, reading
<1>5. ASSUME NEW n \in Names, Ask(n) \/ CreateIsRefused(n) \/ Reflect(n)
      PROVE  AnswersAreTrue'
  BY <1>1, <1>5 DEF Ask, CreateIsRefused, Reflect, reading, history
<1>6. ASSUME NEW n \in Names, CreateTable(n) \/ CreateIsLost(n)
      PROVE  AnswersAreTrue'
  BY <1>1, <1>2, <1>6 DEF CreateTable, CreateIsLost, Created, reading
<1>7. CASE AddForeignKeys
  BY <1>1, <1>7 DEF AddForeignKeys, reading, history
<1>8. CASE NewInspector
  BY <1>8 DEF NewInspector, AnswersAreTrue, Unasked
<1>9. CASE Inspect
  BY <1>9, <1>b, TrueAnswers DEF Inspect, history
<1>10. CASE ReadColumns
  BY <1>10, <1>b, TrueAnswers DEF ReadColumns, history
<1>11. CASE ReadKey
  <2>1. \/ cache' = AskedKey(subject)
        \/ cache' = [AskedKey(subject) EXCEPT !.tables = Cached(@, TableNames(app.schema))]
    BY <1>11 DEF ReadKey
  <2> QED
    BY <1>11, <1>b, <2>1, TrueAnswers DEF ReadKey, history
<1>12. ASSUME NEW n \in Names, Copy(n)
       PROVE  AnswersAreTrue'
  BY <1>1, <1>2, <1>12 DEF Copy
<1>13. ASSUME NEW s \in Schemas, NEW n \in Names, NEW relation \in app.others \cup {NoRelation},
              Elsewhere(s, n, relation)
       PROVE  AnswersAreTrue'
  BY <1>2, <1>13 DEF Elsewhere
<1> QED
  BY <1>3, <1>4, <1>5, <1>6, <1>7, <1>8, <1>9, <1>10, <1>11, <1>12, <1>13 DEF Next

\* While nothing changes an inspector's answers, whenever they were given, are true of the tables
\* and views that the application's statements are about, if it passes the schema or the URL has
\* none: every one of them is answered and no other, except that `get_view_names` also answers the
\* names of views of other schemas.
THEOREM AnswersStayTrue == Spec => []AnswersAreTrue
<1>1. Init => AnswersAreTrue
  BY DEF Init, AnswersAreTrue, Unasked
<1>2. TypeOK /\ AnswersAreTrue /\ [Next]_vars => TypeOK' /\ AnswersAreTrue'
  BY TypeStep, AnswersStep
<1> QED
  BY <1>1, <1>2, TypeInit, PTL DEF Spec

\* What was read of a table has the types that CrateDB showed; nothing is kept of it while the next
\* is read.
ReadAsShown ==
    /\ step \in {"columns", "key"} => reflected = NoRelation
    /\ reflected # NoRelation =>
        \A c \in Columns : reflected.columns[c] = ReflectedType(reflected.shown[c])

LEMMA ReadAsShownStep ==
    ASSUME TypeOK, ReadAsShown, [Next]_vars
    PROVE  ReadAsShown'
<1>1. ASSUME reflected' \in {reflected, NoRelation},
             \/ step' \notin {"columns", "key"}
             \/ reflected' = NoRelation
             \/ step \in {"columns", "key"}
      PROVE  ReadAsShown'
  BY <1>1 DEF ReadAsShown
<1>2. CASE ReadKey
  <2>1. CASE cache.columns[subject] # NoRelation
    BY <1>2, <2>1 DEF ReadKey, ReadAsShown, Stop
  <2>2. CASE cache.columns[subject] = NoRelation
    BY <1>1, <1>2, <2>2 DEF ReadKey, Stop
  <2> QED
    BY <2>1, <2>2
<1>3. CASE UNCHANGED vars
  BY <1>1, <1>3 DEF vars, reading
<1>4. CASE CreateAll \/ AddForeignKeys \/ NewInspector \/ Inspect \/ ReadColumns
  BY <1>1, <1>4 DEF CreateAll, AddForeignKeys, NewInspector, Inspect, ReadColumns, Stop, reading
<1>5. ASSUME NEW n \in Names, Ask(n) \/ CreateTable(n) \/ CreateIsRefused(n) \/ CreateIsLost(n)
      PROVE  ReadAsShown'
  BY <1>1, <1>5 DEF Ask, CreateTable, CreateIsRefused, CreateIsLost, Stop, reading
<1>6. ASSUME NEW n \in Names, Reflect(n) \/ Copy(n)
      PROVE  ReadAsShown'
  BY <1>1, <1>6 DEF Reflect, Copy
<1>7. ASSUME NEW s \in Schemas, NEW n \in Names, NEW relation \in app.others \cup {NoRelation},
             Elsewhere(s, n, relation)
      PROVE  ReadAsShown'
  BY <1>1, <1>7 DEF Elsewhere, reading
<1> QED
  BY <1>2, <1>3, <1>4, <1>5, <1>6, <1>7 DEF Next

\* A table that is read and created again has columns of the types that CrateDB showed.
THEOREM CopiesStayEqual == Spec => CopiesAreEqual
<1>1. ASSUME TypeOK, ReadAsShown, Next, app' = app,
             NEW s \in Schemas, NEW n \in Names,
             catalog'[s][n] # catalog[s][n], reflected # NoRelation, reflected' = NoRelation,
             NEW c \in Columns
      PROVE  catalog'[s][n].columns[c].type = reflected.shown[c]
  <2>1. \E m \in Names : Copy(m)
    BY <1>1 DEF Next, reading, creation, CreateAll, Ask, CreateTable, CreateIsRefused,
      CreateIsLost, AddForeignKeys, NewInspector, Inspect, Reflect, ReadColumns, ReadKey, Elsewhere
  <2>2. /\ IsCompiledTable(Redeclared(reflected))
        /\ catalog'[s][n] = Specified(Redeclared(reflected))
    BY <1>1, <2>1 DEF Copy, TypeOK
  <2>3. catalog'[s][n].columns[c].type = ColumnType(reflected.columns[c])
    BY <2>2 DEF Specified, SpecifiedColumn, Redeclared
  <2>4. IsNamed(reflected.columns[c])
    BY <2>2 DEF IsCompiledTable, IsCompiled, Redeclared
  <2>5. reflected.columns[c] = ReflectedType(reflected.shown[c])
    BY <1>1 DEF ReadAsShown
  <2>6. reflected.shown[c] \in ColumnTypes
    BY <1>1 DEF TypeOK, Reflected
  <2> QED
    BY <2>3, <2>4, <2>5, <2>6, TypesComeBack
<1>2. TypeOK /\ ReadAsShown /\ [Next]_vars
        => [\A s \in Schemas, n \in Names :
              catalog'[s][n] # catalog[s][n] /\ reflected # NoRelation /\ reflected' = NoRelation =>
                \A c \in Columns : catalog'[s][n].columns[c].type = reflected.shown[c]]_vars
  BY <1>1 DEF Next, vars
<1>3. Init => ReadAsShown
  BY DEF Init, ReadAsShown
<1>4. TypeOK /\ ReadAsShown /\ [Next]_vars => TypeOK' /\ ReadAsShown'
  BY TypeStep, ReadAsShownStep
<1> QED
  BY <1>2, <1>3, <1>4, TypeInit, PTL DEF Spec, CopiesAreEqual

\* The names that are read as types with a name in SQL.
ReadNames ==
    {"text", "double precision", "bigint", "integer", "smallint", "real",
     "timestamp without time zone", "timestamp with time zone", "boolean", "object"}

LEMMA ReadNamesAreNamed ==
    ASSUME NEW name \in ReadNames
    PROVE  SqlName(MappedName(name)) # NoSqlName
<1>1. MappedName(name) \in
        {"VARCHAR", "DOUBLE_PRECISION", "BIGINT", "INTEGER", "SMALLINT", "REAL", "TIMESTAMP",
         "TIMESTAMP(timezone)", "BOOLEAN", "ObjectType"}
  BY DEF ReadNames, MappedName
<1>2. /\ SqlName("VARCHAR") = "VARCHAR" /\ SqlName("REAL") = "REAL"
      /\ SqlName("DOUBLE_PRECISION") = "DOUBLE PRECISION" /\ SqlName("BIGINT") = "LONG"
      /\ SqlName("INTEGER") = "INT" /\ SqlName("SMALLINT") = "SHORT"
      /\ SqlName("TIMESTAMP") = "TIMESTAMP WITHOUT TIME ZONE"
      /\ SqlName("TIMESTAMP(timezone)") = "TIMESTAMP WITH TIME ZONE"
      /\ SqlName("BOOLEAN") = "BOOLEAN" /\ SqlName("ObjectType") = "OBJECT"
  BY DEF SqlName, InheritedName, Strings, Timestamps
<1> QED
  BY <1>1, <1>2 DEF NoSqlName

\* Of these the arrays are known too, but for one.
LEMMA ReadTypesAreNamed ==
    ASSUME NEW shown \in ColumnTypes, shown.name \in ReadNames,
           shown.dimensions = 0 \/ shown.name \in MappedArrays
    PROVE  IsNamed(ReflectedType(shown))
<1>1. ReflectedType(shown) \in {Scalar(MappedName(shown.name)), ArrayOf(MappedName(shown.name))}
  BY DEF ReflectedType
<1> QED
  BY <1>1, ReadNamesAreNamed DEF IsNamed, Scalar, ArrayOf

\* A table that is read, and has no primary key and no type that TYPES_MAP leaves out, can be
\* created again.
THEOREM CopiesAreAlwaysMade == Spec => CopiesAreMade
<1> DEFINE Plain ==
        /\ reflected.key = {}
        /\ \A c \in Columns :
            /\ reflected.shown[c].name \notin {"geo_point", "geo_shape", "float_vector"}
            /\ reflected.shown[c] # ArrayOf("timestamp without time zone")
<1>1. ASSUME TypeOK, ReadAsShown, Next, reflected # NoRelation, reflected' = NoRelation,
             step' = "idle", Plain
      PROVE  outcome' = "copied"
  <2>1. \E m \in Names : Copy(m)
    BY <1>1 DEF Next, reading, CreateAll, Ask, CreateTable, CreateIsRefused, CreateIsLost,
      AddForeignKeys, NewInspector, Inspect, Reflect, ReadColumns, ReadKey, Elsewhere, ReadAsShown
  <2>2. ASSUME NEW c \in Columns
        PROVE  IsNamed(reflected.columns[c])
    <3>1. reflected.columns[c] = ReflectedType(reflected.shown[c])
      BY <1>1 DEF ReadAsShown
    <3>2. reflected.shown[c] \in ColumnTypes
      BY <1>1 DEF TypeOK, Reflected
    <3>3. reflected.shown[c].name \in ReadNames
      BY <1>1, <3>2 DEF ColumnTypes, ShownNames, ReadNames
    <3>4. reflected.shown[c].dimensions = 0 \/ reflected.shown[c].name \in MappedArrays
      <4>1. CASE reflected.shown[c].dimensions = 0
        BY <4>1
      <4>2. CASE reflected.shown[c].dimensions = 1
        <5>1. reflected.shown[c].name # "timestamp without time zone"
          BY <1>1, <3>2, <4>2 DEF ArrayOf, ColumnTypes
        <5> QED
          BY <3>3, <5>1 DEF ReadNames, MappedArrays
      <4> QED
        BY <3>2, <4>1, <4>2 DEF ColumnTypes
    <3> QED
      BY <3>1, <3>2, <3>3, <3>4, ReadTypesAreNamed
  <2>3. IsCompiledTable(Redeclared(reflected))
    BY <1>1, <2>2 DEF IsCompiledTable, IsCompiled, Redeclared
  <2> QED
    BY <2>1, <2>3 DEF Copy
<1>2. TypeOK /\ ReadAsShown /\ [Next]_vars
        => [reflected # NoRelation /\ reflected' = NoRelation /\ step' = "idle" /\ Plain
              => outcome' = "copied"]_vars
  BY <1>1
<1>3. Init => ReadAsShown
  BY DEF Init, ReadAsShown
<1>4. TypeOK /\ ReadAsShown /\ [Next]_vars => TypeOK' /\ ReadAsShown'
  BY TypeStep, ReadAsShownStep
<1>5. [][reflected # NoRelation /\ reflected' = NoRelation /\ step' = "idle" /\ Plain
              => outcome' = "copied"]_vars => CopiesAreMade
  BY PTL DEF CopiesAreMade
<1> QED
  BY <1>2, <1>3, <1>4, <1>5, TypeInit, PTL DEF Spec
=============================================================================
