---------------------------- MODULE TypedValues -----------------------------
(***************************************************************************)
(* The values of typed columns on their way to CrateDB and back: the bind  *)
(* and result processors of Date, DateTime and Time (dialect.py), of       *)
(* FloatVector (type/vector.py) and of ObjectArray (type/array.py), which  *)
(* has none.                                                               *)
(*                                                                         *)
(* Time is counted in microseconds since the epoch; a wall clock and a     *)
(* zone, its distance from UTC, make an instant.                           *)
(***************************************************************************)
EXTENDS Integers, Sequences

CONSTANTS
    Micros,      \* microseconds of a millisecond
    Day,         \* milliseconds of a day
    NoZone,      \* of a naive datetime
    Items,       \* of lists and vectors
    Single,      \* Single[i]: the 32 bit float next to i
    Dimensions   \* of a FLOAT_VECTOR column

ASSUME UnitsAssumption == Micros \in Nat \ {0} /\ Day \in Nat \ {0}
ASSUME ItemsAssumption ==
    /\ Single \in [Items -> Items]
    /\ \A i \in Items : Single[Single[i]] = Single[i]
    /\ Dimensions \in Nat \ {0}
    /\ NoZone \notin Int

Zones == Int \cup {NoZone}

\* None, and NULL.
Null == [kind |-> "null"]

\* Values of Python; an array of numpy is one of numbers or not, and has one dimension or not.
\* Others have a length, as strings, mappings and lists of anything but numbers have.
Dates     == [kind : {"date"}, day : Int]
DateTimes == [kind : {"datetime"}, clock : Int, zone : Zones]
Times     == [kind : {"time"}, clock : Int]
Lists     == [kind : {"list"}, items : Seq(Items)]
Scalars   == [kind : {"scalar"}, item : Items]
Arrays    == [kind : {"ndarray"}, items : Seq(Items), numeric : BOOLEAN, flat : BOOLEAN]
Sized     == [kind : {"sized"}, length : Nat]

\* Texts: "%Y-%m-%d", "%Y-%m-%dT%H:%M:%S.%f%z", the same with a Z, and isoformat of a time.
TimeTexts == [kind : {"text"}, form : {"time"}, clock : Int, zone : {NoZone}]
Texts ==
    [kind : {"text"}, form : {"day"}, clock : Int, zone : {NoZone}]
    \cup [kind : {"text"}, form : {"offset"}, clock : Int, zone : Zones]
    \cup [kind : {"text"}, form : {"Z"}, clock : Int, zone : {0}]

\* What CrateDB has besides texts and lists.
Timestamps == [kind : {"timestamp"}, millis : Int]
Vectors    == [kind : {"vector"}, items : Seq(Items)]

PythonValues ==
    {Null} \cup Dates \cup DateTimes \cup Times \cup Lists \cup Scalars \cup Arrays \cup Sized
           \cup Texts \cup TimeTexts

\* What a vector column is for, and what it may be given.
NumberValues == {Null} \cup Lists \cup Arrays
VectorValues == NumberValues \cup Scalars \cup Sized

InstantTypes == {"DateTime", "DateTime(timezone)"}
DateTypes    == {"Date"} \cup InstantTypes
VectorTypes  == {"FloatVector", "FloatVector(n)"}
ColumnTypes  == {"Time", "ObjectArray"} \cup DateTypes \cup VectorTypes

\* What an attribute holds: lists of objects are coerced.
HeldValues(type) ==
    CASE type = "ObjectArray" -> {Null} \cup Lists
      [] type \in VectorTypes -> VectorValues
      [] OTHER                -> PythonValues

\* What a column has in CrateDB.  A dynamic one was not declared: the first INSERT decided on
\* its type.
StoredValues(type, dynamic) ==
    {Null} \cup
    CASE type \in DateTypes   -> IF dynamic THEN Texts ELSE Timestamps
      [] type \in VectorTypes -> IF dynamic THEN Lists ELSE Vectors
      [] type = "ObjectArray" -> Lists
      [] type = "Time"        -> Texts \cup TimeTexts

-----------------------------------------------------------------------------
Millis(clock)   == clock \div Micros
DayOf(millis)   == millis \div Day
Midnight(day)   == day * Day * Micros
Utc(clock, zone) == IF zone = NoZone THEN clock ELSE clock - zone

\* A date and a datetime have both; a datetime is a date.
ClockOf(value) == IF value.kind = "date" THEN Midnight(value.day) ELSE value.clock
ZoneOf(value)  == IF value.kind = "date" THEN NoZone ELSE value.zone

Text(form, clock, zone) == [kind |-> "text", form |-> form, clock |-> clock, zone |-> zone]
Timestamp(millis)       == [kind |-> "timestamp", millis |-> millis]
Singles(items)          == [i \in DOMAIN items |-> Single[items[i]]]

-----------------------------------------------------------------------------
(* Python to SQL.                                                          *)

\* `len(value)`, which a scalar has not.
HasLength(value) == value.kind \in {"list", "ndarray", "sized"}
Length(value)    == IF value.kind = "sized" THEN value.length ELSE Len(value.items)

\* Faulty variant: the dimensions are not compared.
FitsAnywhere(type, value) == TRUE

\* `to_db` knows the dimensions of a declared column; a reflected one has none.
Fits(type, value) ==
    type = "FloatVector(n)" => HasLength(value) /\ Length(value) = Dimensions

\* `to_db` does not raise: of the items it looks at those of an array only.
IsVector(type, value) ==
    \/ value = Null
    \/ /\ value.kind = "ndarray" => value.flat /\ value.numeric
       /\ Fits(type, value)

\* The bind processor does not raise.
IsBound(type, value) ==
    CASE type = "Date" -> value.kind \in {"null", "date", "datetime"}
      [] type = "Time" -> value.kind \in {"null", "time"}
      [] type \in InstantTypes \cup {"ObjectArray"} -> TRUE
      [] type \in VectorTypes -> IsVector(type, value)

DateText(value) == Text("day", Midnight(DayOf(Millis(ClockOf(value)))), NoZone)

\* Faulty variant: strftime without %z.
DateTimeTextWithoutZone(value) == Text("offset", ClockOf(value), NoZone)

DateTimeText(value) == Text("offset", ClockOf(value), ZoneOf(value))

TimeText(value) == Text("time", value.clock, NoZone)

\* `to_db` makes a list of an array and passes on everything else.
VectorList(value) ==
    IF value.kind = "ndarray" THEN [kind |-> "list", items |-> value.items] ELSE value

\* What it returns.
Bound(type, value) ==
    IF value = Null THEN Null
    ELSE CASE type = "Date" -> DateText(value)
           [] type \in InstantTypes ->
                IF value.kind \in {"date", "datetime"} THEN DateTimeText(value) ELSE value
           [] type = "Time" -> TimeText(value)
           [] type \in VectorTypes -> VectorList(value)
           [] type = "ObjectArray" -> value

\* CrateDB takes the parameter: a timestamp is given as a text, a vector as a list of numbers.
IsAccepted(type, dynamic, parameter) ==
    \/ parameter = Null
    \/ type \in DateTypes /\ parameter.kind = "text" /\ parameter.form # "time"
    \/ type = "Time" /\ parameter.kind = "text"
    \/ type = "ObjectArray" /\ parameter.kind = "list"
    \/ /\ type \in VectorTypes /\ parameter.kind = "list"
       /\ dynamic \/ Len(parameter.items) = Dimensions

\* A column without time zone keeps the wall clock, a dynamic one the text.
Converted(type, dynamic, parameter) ==
    IF parameter = Null \/ dynamic THEN parameter
    ELSE CASE type = "DateTime" -> Timestamp(Millis(parameter.clock))
           [] type \in {"Date", "DateTime(timezone)"} ->
                Timestamp(Millis(Utc(parameter.clock, parameter.zone)))
           [] type \in VectorTypes -> [kind |-> "vector", items |-> Singles(parameter.items)]
           [] type \in {"Time", "ObjectArray"} -> parameter

IsWritten(type, dynamic, value) ==
    IsBound(type, value) /\ IsAccepted(type, dynamic, Bound(type, value))
Written(type, dynamic, value) == Converted(type, dynamic, Bound(type, value))

-----------------------------------------------------------------------------
(* SQL to Python.                                                          *)

\* Faulty variant: there is no second attempt to parse a text.
IsReadAtOnce(type, stored) ==
    stored.kind = "text" =>
        IF type = "Time" THEN stored.form = "time" ELSE stored.form = "Z"

\* The result processor does not raise: a text has one of the two forms it tries.
IsRead(type, stored) ==
    stored.kind = "text" =>
        IF type = "Time" THEN stored.form = "time" ELSE stored.form \in {"day", "Z"}

\* The epoch is zero, which is false.
Epoch == Timestamp(0)

\* Faulty variant: `fromtimestamp`, where the clock is ahead of UTC.
ClockReadHere(stored) ==
    IF stored.kind = "timestamp" THEN (stored.millis + 1) * Micros ELSE stored.clock

ClockRead(stored) ==
    IF stored.kind = "timestamp" THEN stored.millis * Micros ELSE stored.clock

DateRead(stored)     == [kind |-> "date", day |-> DayOf(Millis(ClockRead(stored)))]
DateTimeRead(stored) == [kind |-> "datetime", clock |-> ClockRead(stored), zone |-> NoZone]
TimeRead(stored)     == [kind |-> "time", clock |-> stored.clock]

\* `from_db`: numpy's array, of 32 bit floats as the column.
VectorRead(stored) ==
    [kind |-> "ndarray", items |-> stored.items, numeric |-> TRUE, flat |-> TRUE]

\* What the result processor returns.
Read(type, stored) ==
    IF stored = Null \/ (type \in DateTypes /\ stored = Epoch) THEN Null
    ELSE CASE type = "Date" -> DateRead(stored)
           [] type \in InstantTypes -> DateTimeRead(stored)
           [] type = "Time" -> TimeRead(stored)
           [] type \in VectorTypes -> VectorRead(stored)
           [] type = "ObjectArray" -> stored

-----------------------------------------------------------------------------
(* What values mean, whatever the processors make of them: a day, an       *)
(* instant to the millisecond, or the items.                               *)

Meaning(type, value) ==
    IF value = Null THEN Null
    ELSE CASE type = "Date" -> [day |-> DayOf(Millis(ClockOf(value)))]
           [] type \in InstantTypes -> [millis |-> Millis(Utc(ClockOf(value), ZoneOf(value)))]
           [] type = "Time" -> [clock |-> value.clock]
           [] type \in VectorTypes ->
                IF value \in NumberValues THEN [items |-> Singles(value.items)] ELSE value
           [] type = "ObjectArray" -> value

\* The wall clock of a text is the one of a day.
StoredDay(stored) ==
    DayOf(IF stored.kind = "timestamp" THEN stored.millis ELSE Millis(stored.clock))
StoredMillis(stored) ==
    IF stored.kind = "timestamp" THEN stored.millis ELSE Millis(Utc(stored.clock, stored.zone))

StoredMeaning(type, stored) ==
    IF stored = Null THEN Null
    ELSE CASE type = "Date" -> [day |-> StoredDay(stored)]
           [] type \in InstantTypes -> [millis |-> StoredMillis(stored)]
           [] type = "Time" -> [clock |-> stored.clock]
           [] type \in VectorTypes -> [items |-> Singles(stored.items)]
           [] type = "ObjectArray" -> stored

\* A column without time zone does not keep the instant of a value with one.
KeepsInstant(type, dynamic, value) ==
    type # "DateTime" \/ dynamic \/ value.kind \notin {"datetime", "text"} \/ value.zone \in {NoZone, 0}

\* Python's `==`, as SQLAlchemy asks for it: two datetimes with zones are equal if their
\* instants are, and an array of numpy is never equal.
IsEqual(value, other) ==
    /\ value.kind # "ndarray" /\ other.kind # "ndarray"
    /\ \/ value = other
       \/ /\ value.kind = "datetime" /\ other.kind = "datetime"
          /\ value.zone # NoZone /\ other.zone # NoZone
          /\ Utc(value.clock, value.zone) = Utc(other.clock, other.zone)
=============================================================================
