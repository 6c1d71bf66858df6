------------------------------ MODULE TypeNaming -----------------------------
(***************************************************************************)
(* The types of columns on their way to CrateDB and back, on SQLAlchemy 2: *)
(* the type compiler of compiler.py names an SQLAlchemy type in SQL,       *)
(* CrateDB shows it under a name of its own in information_schema, and     *)
(* TYPES_MAP of dialect.py looks that name up.                             *)
(*                                                                         *)
(* A type is a name and the number of dimensions of an array of it.        *)
(***************************************************************************)
EXTENDS Naturals

Strings    == {"String", "Unicode", "TEXT", "VARCHAR"}
Timestamps == {"DateTime", "TIMESTAMP", "DateTime(timezone)", "TIMESTAMP(timezone)"}
TypeNames  ==
    Strings \cup Timestamps \cup
    {"Date", "TIME", "BOOLEAN", "SMALLINT", "INTEGER", "BIGINT", "NUMERIC", "DECIMAL",
     "FLOAT", "FLOAT(53)", "REAL", "DOUBLE", "DOUBLE_PRECISION",
     "ObjectType", "JSON", "FloatVector", "FloatVector(n)",
     "Geopoint", "Geoshape", "UserDefinedType"}

Types == [name : TypeNames, dimensions : 0..2]

Scalar(name)  == [name |-> name, dimensions |-> 0]
ArrayOf(name) == [name |-> name, dimensions |-> 1]

\* Not every type has a name in SQL.
NoSqlName == "-"

\* SQLAlchemy's GenericTypeCompiler, and the names types have of themselves.
InheritedName(name) ==
    CASE name \in {"BOOLEAN", "REAL", "VARCHAR", "DOUBLE"} -> name
      [] name = "DOUBLE_PRECISION" -> "DOUBLE PRECISION"
      [] name = "Geopoint"         -> "GEO_POINT"
      [] name = "Geoshape"         -> "GEO_SHAPE"
      [] OTHER                     -> NoSqlName

\* Faulty variant: timestamps lose their time zone.
SqlNameWithoutZones(name) ==
    CASE name \in {"String", "Unicode", "TEXT", "TIME"}                -> "STRING"
      [] name \in {"DECIMAL", "FLOAT(53)"}                             -> "DOUBLE"
      [] name \in {"BIGINT", "NUMERIC"}                                -> "LONG"
      [] name = "INTEGER"                                              -> "INT"
      [] name = "SMALLINT"                                             -> "SHORT"
      [] name \in Timestamps                                           -> "TIMESTAMP WITHOUT TIME ZONE"
      [] name = "Date"                                                 -> "TIMESTAMP"
      [] name \in {"ObjectType", "JSON"}                               -> "OBJECT"
      [] name = "FLOAT"                                                -> "FLOAT"
      [] name = "FloatVector(n)"                                       -> "FLOAT_VECTOR(n)"
      [] OTHER                                                         -> InheritedName(name)

\* The visit methods of CrateTypeCompiler.  A FloatVector without dimensions has no name.
SqlName(name) ==
    CASE name \in {"String", "Unicode", "TEXT", "TIME"}                -> "STRING"
      [] name \in {"DECIMAL", "FLOAT(53)"}                             -> "DOUBLE"
      [] name \in {"BIGINT", "NUMERIC"}                                -> "LONG"
      [] name = "INTEGER"                                              -> "INT"
      [] name = "SMALLINT"                                             -> "SHORT"
      [] name \in {"DateTime", "TIMESTAMP"}                            -> "TIMESTAMP WITHOUT TIME ZONE"
      [] name \in {"DateTime(timezone)", "TIMESTAMP(timezone)"}        -> "TIMESTAMP WITH TIME ZONE"
      [] name = "Date"                                                 -> "TIMESTAMP"
      [] name \in {"ObjectType", "JSON"}                               -> "OBJECT"
      [] name = "FLOAT"                                                -> "FLOAT"
      [] name = "FloatVector(n)"                                       -> "FLOAT_VECTOR(n)"
      [] OTHER                                                         -> InheritedName(name)

\* `visit_ARRAY` raises for more than one dimension, and for items without a name.
IsNamed(type) == type.dimensions <= 1 /\ SqlName(type.name) # NoSqlName

\* CrateDB: the name in information_schema of a type with this name in SQL.
ShownName(sql) ==
    CASE sql \in {"STRING", "VARCHAR"}            -> "text"
      [] sql \in {"DOUBLE", "DOUBLE PRECISION"}   -> "double precision"
      [] sql = "LONG"                             -> "bigint"
      [] sql = "INT"                              -> "integer"
      [] sql = "SHORT"                            -> "smallint"
      [] sql \in {"FLOAT", "REAL"}                -> "real"
      [] sql = "TIMESTAMP WITHOUT TIME ZONE"      -> "timestamp without time zone"
      [] sql \in {"TIMESTAMP WITH TIME ZONE", "TIMESTAMP"} -> "timestamp with time zone"
      [] sql = "BOOLEAN"                          -> "boolean"
      [] sql = "OBJECT"                           -> "object"
      [] sql = "FLOAT_VECTOR(n)"                  -> "float_vector"
      [] sql = "GEO_POINT"                        -> "geo_point"
      [] sql = "GEO_SHAPE"                        -> "geo_shape"

ShownNames ==
    {"text", "double precision", "bigint", "integer", "smallint", "real",
     "timestamp without time zone", "timestamp with time zone", "boolean", "object",
     "float_vector", "geo_point", "geo_shape"}

\* What CrateDB makes of a type that is named.
ColumnTypes == [name : ShownNames, dimensions : 0..1]
ColumnType(type) == [name |-> ShownName(SqlName(type.name)), dimensions |-> type.dimensions]

\* TYPES_MAP, the names without "_array".
MappedName(shown) ==
    CASE shown = "text"                        -> "VARCHAR"
      [] shown = "double precision"            -> "DOUBLE_PRECISION"
      [] shown = "bigint"                      -> "BIGINT"
      [] shown = "integer"                     -> "INTEGER"
      [] shown = "smallint"                    -> "SMALLINT"
      [] shown = "real"                        -> "REAL"
      [] shown = "timestamp without time zone" -> "TIMESTAMP"
      [] shown = "timestamp with time zone"    -> "TIMESTAMP(timezone)"
      [] shown = "boolean"                     -> "BOOLEAN"
      [] shown = "object"                      -> "ObjectType"
      [] shown = "float_vector"                -> "FloatVector"
      [] OTHER                                 -> "UserDefinedType"

\* Faulty variant: the names that the block for SQLAlchemy 2 adds are missing.
MappedArraysBefore2 ==
    {"text", "bigint", "integer", "smallint", "real", "timestamp with time zone", "boolean",
     "object"}

\* TYPES_MAP, the names with "_array".  ObjectArray is ARRAY(OBJECT) in SQL; the array of
\* timestamps without time zone is there as "timestamp_array" only.
MappedArrays ==
    {"text", "double precision", "bigint", "integer", "smallint", "real",
     "timestamp with time zone", "boolean", "object"}

\* `CrateDialect._resolve_type`.
ReflectedType(shown) ==
    IF shown.dimensions = 0 THEN Scalar(MappedName(shown.name))
    ELSE IF shown.name \in MappedArrays THEN ArrayOf(MappedName(shown.name))
    ELSE Scalar("UserDefinedType")
=============================================================================
