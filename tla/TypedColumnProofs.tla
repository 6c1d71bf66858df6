------------------------- MODULE TypedColumnProofs --------------------------
(* Proofs about TypedColumn, for any units of time, items and applications. *)
EXTENDS TypedColumn, TLAPS

-----------------------------------------------------------------------------
(* Time.                                                                   *)

LEMMA Multiples ==
    ASSUME NEW n \in Int, NEW d \in Nat \ {0}
    PROVE  n * d \in Int /\ (n * d) \div d = n
<1> DEFINE q == (n * d) \div d
           r == (n * d) % d
<1>1. n * d \in Int
  OBVIOUS
<1> QED
  BY <1>1, SMTT(30)

LEMMA Quotients ==
    ASSUME NEW n \in Int, NEW d \in Nat \ {0}
    PROVE  n \div d \in Int
BY SMT

LEMMA TimeTypes ==
    ASSUME NEW n \in Int
    PROVE  Millis(n) \in Int /\ DayOf(n) \in Int /\ Midnight(n) \in Int /\ n * Micros \in Int
<1>1. Millis(n) \in Int
  BY Quotients, UnitsAssumption DEF Millis
<1>2. DayOf(n) \in Int
  BY Quotients, UnitsAssumption DEF DayOf
<1>3. n * Day \in Int /\ n * Micros \in Int
  BY Multiples, UnitsAssumption
<1>4. Midnight(n) \in Int
  BY <1>3, Multiples, UnitsAssumption DEF Midnight
<1> QED
  BY <1>1, <1>2, <1>3, <1>4

\* The day of its midnight is the day.
LEMMA DayOfMidnight ==
    ASSUME NEW n \in Int
    PROVE  DayOf(Millis(Midnight(n))) = n
<1>1. n * Day \in Int /\ (n * Day) \div Day = n
  BY Multiples, UnitsAssumption
<1>2. ((n * Day) * Micros) \div Micros = n * Day
  BY <1>1, Multiples, UnitsAssumption
<1> QED
  BY <1>1, <1>2 DEF DayOf, Millis, Midnight

LEMMA MillisOfMicros ==
    ASSUME NEW n \in Int
    PROVE  Millis(n * Micros) = n
BY Multiples, UnitsAssumption DEF Millis

-----------------------------------------------------------------------------
(* The processors.                                                         *)

LEMMA SinglesType ==
    ASSUME NEW items \in Seq(Items)
    PROVE  /\ Singles(items) \in Seq(Items)
           /\ Singles(Singles(items)) = Singles(items)
BY ItemsAssumption DEF Singles

\* What a date or a datetime has.
LEMMA ClockTypes ==
    ASSUME NEW value \in Dates \cup DateTimes \cup Texts
    PROVE  ClockOf(value) \in Int /\ ZoneOf(value) \in Zones
<1>1. CASE value \in Dates
  BY <1>1, TimeTypes DEF Dates, ClockOf, ZoneOf, Zones
<1>2. CASE value \in DateTimes
  BY <1>2 DEF DateTimes, ClockOf, ZoneOf, Zones
<1>3. CASE value \in Texts
  BY <1>3 DEF Texts, ClockOf, ZoneOf, Zones
<1> QED
  BY <1>1, <1>2, <1>3

LEMMA DateTextType ==
    ASSUME NEW value \in Dates \cup DateTimes
    PROVE  /\ DateText(value) \in Texts
           /\ DateText(value).form = "day"
           /\ DateText(value).kind = "text"
           /\ DateText(value).zone = NoZone
           /\ DateText(value).clock = Midnight(DayOf(Millis(ClockOf(value))))
<1>1. Midnight(DayOf(Millis(ClockOf(value)))) \in Int
  BY ClockTypes, TimeTypes
<1> QED
  BY <1>1 DEF DateText, Text, Texts

LEMMA UtcType ==
    ASSUME NEW clock \in Int, NEW zone \in Zones
    PROVE  Utc(clock, zone) \in Int
BY DEF Utc, Zones

\* The values that a processor for dates and times takes.
LEMMA KindOfValue ==
    ASSUME NEW value \in PythonValues
    PROVE  /\ value.kind = "null" => value = Null
           /\ value.kind = "date" => value \in Dates
           /\ value.kind = "datetime" => value \in DateTimes
           /\ value.kind = "time" => value \in Times
           /\ value.kind = "list" => value \in Lists
           /\ value.kind = "ndarray" => value \in Arrays
           /\ value.kind = "text" => value \in Texts \cup TimeTexts
BY DEF PythonValues, Null, Dates, DateTimes, Times, Lists, Scalars, Arrays, Sized, Texts, TimeTexts

LEMMA HeldType ==
    ASSUME NEW type
    PROVE  /\ type = "ObjectArray" => HeldValues(type) = {Null} \cup Lists
           /\ type \in VectorTypes => HeldValues(type) = VectorValues
           /\ type \notin {"ObjectArray"} \cup VectorTypes => HeldValues(type) = PythonValues
           /\ HeldValues(type) \subseteq PythonValues
           /\ Null \in HeldValues(type)
<1>1. /\ {Null} \cup Lists \subseteq PythonValues /\ Null \in PythonValues
      /\ VectorValues \subseteq PythonValues /\ Null \in VectorValues
  BY DEF PythonValues, VectorValues, NumberValues
<1>2. "ObjectArray" \notin VectorTypes
  BY DEF VectorTypes
<1>3. CASE type = "ObjectArray"
  BY <1>1, <1>2, <1>3 DEF HeldValues
<1>4. CASE type \in VectorTypes
  BY <1>1, <1>2, <1>4 DEF HeldValues
<1>5. CASE type \notin {"ObjectArray"} \cup VectorTypes
  BY <1>1, <1>5 DEF HeldValues
<1> QED
  BY <1>3, <1>4, <1>5

LEMMA NullIsNone ==
    /\ Null.kind = "null"
    /\ \A value : value.kind # "null" => value # Null
BY DEF Null

\* A date is stored as its midnight.
LEMMA DateWritten ==
    ASSUME NEW value \in Dates \cup DateTimes, NEW dynamic \in BOOLEAN
    PROVE  /\ Written("Date", dynamic, value) \in StoredValues("Date", dynamic)
           /\ StoredMeaning("Date", Written("Date", dynamic, value)) = Meaning("Date", value)
           /\ dynamic => Written("Date", dynamic, value).kind = "text"
                            /\ Written("Date", dynamic, value).form = "day"
<1> DEFINE text == DateText(value)
           day  == DayOf(Millis(ClockOf(value)))
<1>1. value # Null /\ value.kind # "null"
  BY NullIsNone DEF Dates, DateTimes, Null
<1>2. day \in Int /\ DayOf(Millis(Midnight(day))) = day /\ Millis(Midnight(day)) \in Int
  BY ClockTypes, TimeTypes, DayOfMidnight
<1>3. Bound("Date", value) = text
  BY <1>1 DEF Bound, InstantTypes, VectorTypes
<1>4. text \in Texts /\ text.form = "day" /\ text.kind = "text" /\ text.zone = NoZone
        /\ text.clock = Midnight(day) /\ text # Null
  BY DateTextType, NullIsNone
<1>5. Meaning("Date", value) = [day |-> day]
  BY <1>1 DEF Meaning, InstantTypes, VectorTypes
<1>6. CASE dynamic
  <2>1. Written("Date", dynamic, value) = text
    BY <1>3, <1>6 DEF Written, Converted
  <2>2. StoredMeaning("Date", text) = [day |-> day]
    BY <1>2, <1>4 DEF StoredMeaning, StoredDay, InstantTypes, VectorTypes
  <2> QED
    BY <2>1, <2>2, <1>4, <1>5, <1>6 DEF StoredValues, DateTypes, InstantTypes, VectorTypes
<1>7. CASE ~dynamic
  <2>1. Written("Date", dynamic, value) = Timestamp(Millis(Midnight(day)))
    BY <1>3, <1>4, <1>7 DEF Written, Converted, Utc, InstantTypes, VectorTypes
  <2>2. Timestamp(Millis(Midnight(day))) \in Timestamps
    BY <1>2 DEF Timestamp, Timestamps
  <2>3. StoredMeaning("Date", Timestamp(Millis(Midnight(day)))) = [day |-> day]
    BY <1>2, NullIsNone DEF StoredMeaning, StoredDay, Timestamp, InstantTypes, VectorTypes
  <2> QED
    BY <2>1, <2>2, <2>3, <1>5, <1>7 DEF StoredValues, DateTypes, InstantTypes, VectorTypes
<1> QED
  BY <1>6, <1>7

\* A datetime is stored as its instant, or as its wall clock in a column without time zone.
LEMMA DateTimeWritten ==
    ASSUME NEW value \in Dates \cup DateTimes \cup Texts, NEW dynamic \in BOOLEAN,
           NEW type \in InstantTypes
    PROVE  /\ Written(type, dynamic, value) \in StoredValues(type, dynamic)
           /\ KeepsInstant(type, dynamic, value) =>
                StoredMeaning(type, Written(type, dynamic, value)) = Meaning(type, value)
<1> DEFINE clock == ClockOf(value)
           zone  == ZoneOf(value)
           text  == Bound(type, value)
<1>1. value # Null /\ value.kind \in {"date", "datetime", "text"}
  BY NullIsNone DEF Dates, DateTimes, Texts, Null
<1>2. clock \in Int /\ zone \in Zones /\ Utc(clock, zone) \in Int
  BY ClockTypes, UtcType
<1>3. text \in Texts /\ text.kind = "text" /\ text.clock = clock /\ text.zone = zone
  <2>1. CASE value \in Texts
    <3>1. text = value
      BY <2>1, <1>1 DEF Bound, Texts, InstantTypes, VectorTypes
    <3> QED
      BY <2>1, <3>1 DEF Texts, ClockOf, ZoneOf
  <2>2. CASE value \in Dates \cup DateTimes
    <3>1. value.kind \in {"date", "datetime"}
      BY <2>2 DEF Dates, DateTimes
    <3>2. text = DateTimeText(value)
      BY <3>1, <1>1 DEF Bound, InstantTypes, VectorTypes
    <3> QED
      BY <3>2, <1>2 DEF DateTimeText, Text, Texts
  <2> QED
    BY <2>1, <2>2
<1>4. text # Null /\ type \in DateTypes /\ type # "Date" /\ type # "Time"
        /\ type # "ObjectArray" /\ type \notin VectorTypes
        /\ (type # "DateTime" => type = "DateTime(timezone)")
  BY <1>3, NullIsNone DEF DateTypes, InstantTypes, VectorTypes
<1>5. Meaning(type, value) = [millis |-> Millis(Utc(clock, zone))]
  BY <1>1, <1>4 DEF Meaning, VectorTypes
<1>6. CASE dynamic
  <2>1. Written(type, dynamic, value) = text
    BY <1>6 DEF Written, Converted
  <2>2. StoredMeaning(type, text) = [millis |-> Millis(Utc(clock, zone))]
    BY <1>3, <1>4 DEF StoredMeaning, StoredMillis
  <2> QED
    BY <2>1, <2>2, <1>3, <1>4, <1>5, <1>6 DEF StoredValues
<1>7. CASE ~dynamic
  <2> DEFINE millis == IF type = "DateTime" THEN Millis(clock) ELSE Millis(Utc(clock, zone))
  <2>1. millis \in Int
    BY <1>2, TimeTypes
  <2>2. Written(type, dynamic, value) = Timestamp(millis)
    BY <1>3, <1>4, <1>7 DEF Written, Converted
  <2>3. Timestamp(millis) \in Timestamps
    BY <2>1 DEF Timestamp, Timestamps
  <2>4. StoredMeaning(type, Timestamp(millis)) = [millis |-> millis]
    BY <1>4, NullIsNone DEF StoredMeaning, StoredMillis, Timestamp
  <2>5. ASSUME KeepsInstant(type, dynamic, value)
        PROVE  millis = Millis(Utc(clock, zone))
    <3>1. CASE type # "DateTime"
      BY <3>1
    <3>2. CASE type = "DateTime" /\ value.kind = "date"
      BY <3>2 DEF Utc, ZoneOf
    <3>3. CASE type = "DateTime" /\ value.kind # "date"
      <4>1. zone \in {NoZone, 0}
        BY <3>3, <2>5, <1>7, <1>1 DEF KeepsInstant, ZoneOf
      <4>2. Utc(clock, zone) = clock
        BY <4>1, <1>2, ItemsAssumption DEF Utc
      <4> QED
        BY <4>2, <3>3
    <3> QED
      BY <3>1, <3>2, <3>3
  <2> QED
    BY <2>2, <2>3, <2>4, <2>5, <1>4, <1>5, <1>7 DEF StoredValues
<1> QED
  BY <1>6, <1>7

LEMMA TimeWritten ==
    ASSUME NEW value \in Times, NEW dynamic \in BOOLEAN
    PROVE  /\ Written("Time", dynamic, value) \in StoredValues("Time", dynamic)
           /\ StoredMeaning("Time", Written("Time", dynamic, value)) = Meaning("Time", value)
           /\ Written("Time", dynamic, value).form = "time"
<1>1. value # Null
  BY NullIsNone DEF Times
<1>2. Bound("Time", value) = Text("time", value.clock, NoZone)
  BY <1>1 DEF Bound, TimeText, InstantTypes, VectorTypes
<1>3. Text("time", value.clock, NoZone) \in TimeTexts
  BY DEF Text, TimeTexts, Times
<1>4. Written("Time", dynamic, value) = Text("time", value.clock, NoZone)
  BY <1>2 DEF Written, Converted, VectorTypes
<1>5. Text("time", value.clock, NoZone) # Null
  BY NullIsNone DEF Text
<1>6. StoredMeaning("Time", Text("time", value.clock, NoZone)) = [clock |-> value.clock]
  BY <1>5 DEF StoredMeaning, Text, InstantTypes, VectorTypes
<1>7. Meaning("Time", value) = [clock |-> value.clock]
  BY <1>1 DEF Meaning, InstantTypes, VectorTypes
<1>8. Text("time", value.clock, NoZone) \in StoredValues("Time", dynamic)
  BY <1>3 DEF StoredValues, DateTypes, InstantTypes, VectorTypes
<1> QED
  BY <1>4, <1>6, <1>7, <1>8 DEF Text

LEMMA ListWritten ==
    ASSUME NEW value \in Lists, NEW dynamic \in BOOLEAN
    PROVE  /\ Written("ObjectArray", dynamic, value) \in StoredValues("ObjectArray", dynamic)
           /\ StoredMeaning("ObjectArray", Written("ObjectArray", dynamic, value))
                = Meaning("ObjectArray", value)
<1>1. value # Null
  BY NullIsNone DEF Lists
<1>2. Written("ObjectArray", dynamic, value) = value
  BY <1>1 DEF Written, Converted, Bound, InstantTypes, VectorTypes
<1>3. StoredMeaning("ObjectArray", value) = value /\ Meaning("ObjectArray", value) = value
  BY <1>1 DEF StoredMeaning, Meaning, InstantTypes, VectorTypes
<1>4. value \in StoredValues("ObjectArray", dynamic)
  BY DEF StoredValues, DateTypes, InstantTypes, VectorTypes
<1> QED
  BY <1>2, <1>3, <1>4

\* A vector is rounded once.
LEMMA VectorWritten ==
    ASSUME NEW value \in Lists \cup Arrays, NEW dynamic \in BOOLEAN, NEW type \in VectorTypes
    PROVE  /\ Written(type, dynamic, value) \in StoredValues(type, dynamic)
           /\ StoredMeaning(type, Written(type, dynamic, value)) = Meaning(type, value)
<1> DEFINE items == value.items
           list  == [kind |-> "list", items |-> items]
           vector == [kind |-> "vector", items |-> Singles(items)]
<1>1. value # Null /\ items \in Seq(Items)
  BY NullIsNone DEF Lists, Arrays
<1>2. /\ type # "Date" /\ type # "Time" /\ type # "ObjectArray" /\ type \notin InstantTypes
      /\ type \notin DateTypes /\ type # "DateTime" /\ type # "DateTime(timezone)"
  BY DEF VectorTypes, DateTypes, InstantTypes
<1>3. Bound(type, value) = list
  BY <1>1, <1>2 DEF Bound, VectorList, Lists, Arrays
<1>4. list # Null /\ vector # Null /\ list \in Lists
  BY <1>1, NullIsNone DEF Lists
<1>5. vector \in Vectors /\ Singles(Singles(items)) = Singles(items)
  BY <1>1, SinglesType DEF Vectors
<1>6. Meaning(type, value) = [items |-> Singles(items)]
  BY <1>1, <1>2 DEF Meaning, NumberValues
<1>7. CASE dynamic
  <2>1. Written(type, dynamic, value) = list
    BY <1>3, <1>7 DEF Written, Converted
  <2>2. StoredMeaning(type, list) = [items |-> Singles(items)]
    BY <1>2, <1>4 DEF StoredMeaning
  <2>3. list \in StoredValues(type, dynamic)
    BY <1>2, <1>4, <1>7 DEF StoredValues
  <2> QED
    BY <2>1, <2>2, <2>3, <1>6
<1>8. CASE ~dynamic
  <2>1. Written(type, dynamic, value) = vector
    BY <1>2, <1>3, <1>4, <1>8 DEF Written, Converted
  <2>2. StoredMeaning(type, vector) = [items |-> Singles(items)]
    BY <1>2, <1>4, <1>5 DEF StoredMeaning
  <2>3. vector \in StoredValues(type, dynamic)
    BY <1>2, <1>5, <1>8 DEF StoredValues
  <2> QED
    BY <2>1, <2>2, <2>3, <1>6
<1> QED
  BY <1>7, <1>8

LEMMA NullWritten ==
    ASSUME NEW type \in ColumnTypes, NEW dynamic \in BOOLEAN
    PROVE  /\ Written(type, dynamic, Null) = Null
           /\ Null \in StoredValues(type, dynamic)
           /\ StoredMeaning(type, Null) = Meaning(type, Null)
BY DEF Written, Converted, Bound, StoredValues, StoredMeaning, Meaning

\* Whatever is written means the same in the column.
LEMMA WrittenMeans ==
    ASSUME NEW type \in ColumnTypes, NEW dynamic \in BOOLEAN, NEW value \in HeldValues(type),
           IsWritten(type, dynamic, value)
    PROVE  /\ Written(type, dynamic, value) \in StoredValues(type, dynamic)
           /\ KeepsInstant(type, dynamic, value) =>
                StoredMeaning(type, Written(type, dynamic, value)) = Meaning(type, value)
           /\ type = "Date" /\ dynamic => IsRead(type, Written(type, dynamic, value))
           /\ type = "Time" => IsRead(type, Written(type, dynamic, value))
<1>1. CASE value = Null
  BY <1>1, NullWritten, NullIsNone DEF IsRead
<1>2. CASE value # Null
  <2>0. value \in PythonValues /\ value.kind # "null"
    BY <1>2, KindOfValue, HeldType DEF PythonValues
  <2>1. CASE type = "Date"
    <3>1. value.kind \in {"date", "datetime"}
      BY <2>0, <2>1 DEF IsWritten, IsBound, InstantTypes, VectorTypes
    <3>2. value \in Dates \cup DateTimes
      BY <2>0, <3>1, KindOfValue
    <3> QED
      BY <2>1, <3>2, DateWritten DEF IsRead
  <2>2. CASE type \in InstantTypes
    <3>0. type # "Date" /\ type # "Time" /\ type # "ObjectArray" /\ type \notin VectorTypes
      BY <2>2 DEF InstantTypes, VectorTypes
    <3>1. Bound(type, value).kind = "text" /\ Bound(type, value).form # "time"
      <4>1. Bound(type, value) # Null
        BY <1>2, <2>0, <2>2, <3>0, NullIsNone DEF Bound, DateTimeText, Text
      <4> QED
        BY <4>1, <2>2, <3>0 DEF IsWritten, IsAccepted
    <3>2. value \in Dates \cup DateTimes \cup Texts
      <4>1. CASE value.kind \in {"date", "datetime"}
        BY <4>1, <2>0, KindOfValue
      <4>2. CASE value.kind \notin {"date", "datetime"}
        <5>1. Bound(type, value) = value
          BY <4>2, <1>2, <2>2, <3>0 DEF Bound
        <5>2. value \in Texts \cup TimeTexts
          BY <5>1, <3>1, <2>0, KindOfValue
        <5> QED
          BY <5>1, <5>2, <3>1 DEF TimeTexts
      <4> QED
        BY <4>1, <4>2
    <3> QED
      BY <2>2, <3>0, <3>2, DateTimeWritten
  <2>3. CASE type = "Time"
    <3>1. value \in Times
      BY <2>0, <2>3, KindOfValue DEF IsWritten, IsBound, InstantTypes, VectorTypes
    <3> QED
      BY <2>3, <3>1, TimeWritten DEF IsRead
  <2>4. CASE type = "ObjectArray"
    <3>1. value \in Lists
      BY <1>2, <2>4, HeldType
    <3> QED
      BY <2>4, <3>1, ListWritten
  <2>5. CASE type \in VectorTypes
    <3>0. type # "Date" /\ type # "Time" /\ type # "ObjectArray" /\ type \notin InstantTypes
      BY <2>5 DEF InstantTypes, VectorTypes
    <3>1. value.kind \in {"list", "ndarray"}
      BY <1>2, <2>0, <2>5, <3>0, NullIsNone DEF IsWritten, IsBound, IsAccepted, Bound, VectorList, DateTypes
    <3>2. value \in Lists \cup Arrays
      BY <2>0, <3>1, KindOfValue
    <3> QED
      BY <2>5, <3>0, <3>2, VectorWritten
  <2> QED
    BY <2>1, <2>2, <2>3, <2>4, <2>5 DEF ColumnTypes, DateTypes
<1> QED
  BY <1>1, <1>2

-----------------------------------------------------------------------------
LEMMA DatesReadMean ==
    ASSUME NEW stored0 \in Texts \cup Timestamps, NEW type \in DateTypes, IsRead(type, stored0),
           stored0 # Epoch
    PROVE  /\ Read(type, stored0) \in Dates \cup DateTimes
           /\ Read(type, stored0).kind = "datetime" => Read(type, stored0).zone = NoZone
           /\ Meaning(type, Read(type, stored0)) = StoredMeaning(type, stored0)
<1> DEFINE clock == ClockRead(stored0)
           date  == [kind |-> "date", day |-> DayOf(Millis(clock))]
           datetime == [kind |-> "datetime", clock |-> clock, zone |-> NoZone]
<1>1. stored0 # Null /\ stored0.kind \in {"text", "timestamp"}
  BY NullIsNone DEF Texts, Timestamps
<1>2. type # "Time" /\ type # "ObjectArray" /\ type \notin VectorTypes
  BY DEF DateTypes, InstantTypes, VectorTypes
<1>3. clock \in Int /\ Millis(clock) = StoredMillis(stored0)
        /\ DayOf(Millis(clock)) = StoredDay(stored0)
  <2>1. CASE stored0 \in Timestamps
    <3>1. stored0.kind = "timestamp" /\ stored0.millis \in Int
      BY <2>1 DEF Timestamps
    <3>2. clock = stored0.millis * Micros
      BY <3>1 DEF ClockRead
    <3> QED
      BY <3>1, <3>2, TimeTypes, MillisOfMicros DEF StoredMillis, StoredDay
  <2>2. CASE stored0 \in Texts
    <3>1. stored0.kind = "text" /\ stored0.kind # "timestamp" /\ stored0.clock \in Int
      BY <2>2 DEF Texts
    <3>2. clock = stored0.clock
      BY <3>1 DEF ClockRead
    <3>3. stored0.form \in {"day", "Z"}
      BY <3>1, <1>2 DEF IsRead
    <3>4. stored0.zone \in {NoZone, 0}
      BY <2>2, <3>3 DEF Texts
    <3>5. Utc(stored0.clock, stored0.zone) = stored0.clock
      BY <3>1, <3>4, ItemsAssumption DEF Utc
    <3> QED
      BY <3>1, <3>2, <3>5 DEF StoredMillis, StoredDay
  <2> QED
    BY <2>1, <2>2
<1>4. DayOf(Millis(clock)) \in Int
  BY <1>3, TimeTypes
<1>5. date \in Dates /\ datetime \in DateTimes /\ date # Null /\ datetime # Null
  BY <1>3, <1>4, NullIsNone DEF Dates, DateTimes, Zones
<1>6. CASE type = "Date"
  <2>1. Read(type, stored0) = date
    BY <1>1, <1>6 DEF Read, DateRead, InstantTypes, VectorTypes
  <2>2. Meaning(type, date) = [day |-> DayOf(Millis(Midnight(DayOf(Millis(clock)))))]
    BY <1>5, <1>6 DEF Meaning, ClockOf, InstantTypes, VectorTypes
  <2>3. Meaning(type, date) = [day |-> StoredDay(stored0)]
    BY <2>2, <1>3, <1>4, DayOfMidnight
  <2>4. StoredMeaning(type, stored0) = [day |-> StoredDay(stored0)]
    BY <1>1, <1>6 DEF StoredMeaning, InstantTypes, VectorTypes
  <2> QED
    BY <2>1, <2>3, <2>4, <1>5
<1>7. CASE type \in InstantTypes
  <2>0. type # "Date"
    BY <1>7 DEF InstantTypes
  <2>1. Read(type, stored0) = datetime
    BY <1>1, <1>2, <1>7, <2>0 DEF Read, DateTimeRead
  <2>2. Meaning(type, datetime) = [millis |-> Millis(clock)]
    BY <1>2, <1>5, <1>7, <2>0 DEF Meaning, ClockOf, ZoneOf, Utc
  <2>3. StoredMeaning(type, stored0) = [millis |-> StoredMillis(stored0)]
    BY <1>1, <1>2, <1>7, <2>0 DEF StoredMeaning
  <2> QED
    BY <2>1, <2>2, <2>3, <1>3, <1>5
<1> QED
  BY <1>6, <1>7 DEF DateTypes

\* Whatever is read means the same in Python, the epoch apart.
LEMMA ReadMeans ==
    ASSUME NEW type \in ColumnTypes, NEW dynamic \in BOOLEAN,
           NEW stored0 \in StoredValues(type, dynamic), IsRead(type, stored0)
    PROVE  /\ Read(type, stored0) \in HeldValues(type)
           /\ Read(type, stored0).kind = "datetime" => Read(type, stored0).zone = NoZone
           /\ KeepsInstant(type, dynamic, Read(type, stored0))
           /\ stored0 # Epoch => Meaning(type, Read(type, stored0)) = StoredMeaning(type, stored0)
<1> DEFINE value == Read(type, stored0)
<1>1. CASE stored0 = Null \/ (type \in DateTypes /\ stored0 = Epoch)
  <2>1. value = Null
    BY <1>1 DEF Read
  <2>2. KeepsInstant(type, dynamic, value)
    BY <2>1, NullIsNone DEF KeepsInstant
  <2>3. stored0 # Epoch => Meaning(type, value) = StoredMeaning(type, stored0)
    BY <1>1, <2>1 DEF Meaning, StoredMeaning
  <2> QED
    BY <2>1, <2>2, <2>3, NullIsNone, HeldType DEF PythonValues
<1>2. CASE stored0 # Null /\ ~(type \in DateTypes /\ stored0 = Epoch)
  <2>1. CASE type \in DateTypes
    <3>1. type \notin VectorTypes /\ type # "ObjectArray" /\ type # "Time"
      BY <2>1 DEF DateTypes, InstantTypes, VectorTypes
    <3>2. stored0 \in Texts \cup Timestamps
      BY <1>2, <2>1, <3>1 DEF StoredValues
    <3>3. value \in Dates \cup DateTimes
      BY <1>2, <2>1, <3>2, DatesReadMean
    <3>4. value.kind = "datetime" => value.zone = NoZone
      BY <1>2, <2>1, <3>2, DatesReadMean
    <3>5. KeepsInstant(type, dynamic, value)
      BY <3>3, <3>4 DEF KeepsInstant, Dates, DateTimes
    <3> QED
      BY <1>2, <2>1, <3>1, <3>2, <3>3, <3>4, <3>5, DatesReadMean, HeldType DEF PythonValues
  <2>2. CASE type = "Time"
    <3> DEFINE time == [kind |-> "time", clock |-> stored0.clock]
    <3>1. stored0 \in Texts \cup TimeTexts
      BY <1>2, <2>2 DEF StoredValues, DateTypes, InstantTypes, VectorTypes
    <3>2. value = time
      BY <1>2, <2>2 DEF Read, TimeRead, DateTypes, InstantTypes, VectorTypes
    <3>3. time \in Times
      BY <3>1 DEF Times, Texts, TimeTexts
    <3>4. time # Null
      BY NullIsNone
    <3>5. Meaning(type, time) = [clock |-> stored0.clock]
      BY <3>4, <2>2 DEF Meaning, InstantTypes, VectorTypes
    <3>6. StoredMeaning(type, stored0) = [clock |-> stored0.clock]
      BY <1>2, <2>2 DEF StoredMeaning, InstantTypes, VectorTypes
    <3>7. Read(type, stored0) \in HeldValues(type)
      BY <2>2, <3>2, <3>3, HeldType DEF PythonValues, VectorTypes
    <3> QED
      BY <2>2, <3>2, <3>3, <3>5, <3>6, <3>7 DEF KeepsInstant
  <2>3. CASE type = "ObjectArray"
    <3>1. stored0 \in Lists
      BY <1>2, <2>3 DEF StoredValues, DateTypes, InstantTypes, VectorTypes
    <3>2. value = stored0
      BY <1>2, <2>3 DEF Read, DateTypes, InstantTypes, VectorTypes
    <3>3. Meaning(type, stored0) = StoredMeaning(type, stored0)
      BY <1>2, <2>3 DEF Meaning, StoredMeaning, InstantTypes, VectorTypes
    <3> QED
      BY <2>3, <3>1, <3>2, <3>3, HeldType DEF KeepsInstant, Lists
  <2>4. CASE type \in VectorTypes
    <3> DEFINE array ==
            [kind |-> "ndarray", items |-> stored0.items, numeric |-> TRUE, flat |-> TRUE]
    <3>1. /\ type # "Date" /\ type # "Time" /\ type # "ObjectArray" /\ type # "DateTime"
          /\ type \notin InstantTypes /\ type \notin DateTypes
      BY <2>4 DEF DateTypes, InstantTypes, VectorTypes
    <3>2. stored0 \in Lists \cup Vectors
      BY <1>2, <2>4, <3>1 DEF StoredValues
    <3>3. value = array
      BY <1>2, <2>4, <3>1 DEF Read, VectorRead
    <3>4. array \in Arrays
      BY <3>2 DEF Arrays, Lists, Vectors
    <3>5. array # Null
      BY NullIsNone
    <3>6. Meaning(type, array) = [items |-> Singles(stored0.items)]
      BY <3>4, <3>5, <2>4, <3>1 DEF Meaning, NumberValues
    <3>7. StoredMeaning(type, stored0) = [items |-> Singles(stored0.items)]
      BY <1>2, <2>4, <3>1 DEF StoredMeaning
    <3> QED
      BY <2>4, <3>1, <3>3, <3>4, <3>6, <3>7, HeldType DEF VectorValues, NumberValues, KeepsInstant
  <2> QED
    BY <2>1, <2>2, <2>3, <2>4 DEF ColumnTypes
<1> QED
  BY <1>1, <1>2

-----------------------------------------------------------------------------
(* The attribute.                                                          *)

LEMMA ApplicationType ==
    ASSUME TypeOK
    PROVE  /\ app.type \in ColumnTypes /\ app.dynamic \in BOOLEAN
           /\ app.sessions \subseteq Sessions
           /\ app.values \subseteq PythonValues
           /\ app.type = "ObjectArray" => app.values \subseteq {Null} \cup Lists \cup Scalars
           /\ app.type \in VectorTypes => app.values \subseteq VectorValues
           /\ app.others \subseteq StoredValues(app.type, app.dynamic)
BY ApplicationsAssumption DEF TypeOK, VectorValues

LEMMA CoercedType ==
    ASSUME TypeOK, NEW value \in app.values
    PROVE  /\ Coerced(value) \in HeldValues(app.type)
           /\ Coerced(value).kind = "datetime" => Coerced(value) = value
           /\ KeepsInstant(app.type, app.dynamic, value)
                => KeepsInstant(app.type, app.dynamic, Coerced(value))
<1>1. CASE app.type = "ObjectArray" /\ value.kind = "scalar"
  <2>1. value \in PythonValues
    BY ApplicationType
  <2>2. value.item \in Items
    BY <1>1, <2>1 DEF PythonValues, Null, Dates, DateTimes, Times, Lists, Scalars, Arrays,
                      Sized, Texts, TimeTexts
  <2>3. <<value.item>> \in Seq(Items)
    BY <2>2
  <2>4. Coerced(value) = [kind |-> "list", items |-> <<value.item>>]
    BY <1>1 DEF Coerced
  <2>5. Coerced(value) \in Lists
    BY <2>3, <2>4 DEF Lists
  <2>6. Coerced(value) \in HeldValues(app.type)
    BY <1>1, <2>5, HeldType
  <2> QED
    BY <1>1, <2>4, <2>6 DEF KeepsInstant
<1>2. CASE ~(app.type = "ObjectArray" /\ value.kind = "scalar")
  <2>1. Coerced(value) = value
    BY <1>2 DEF Coerced
  <2>2. value \in HeldValues(app.type)
    BY <1>2, ApplicationType, HeldType DEF Scalars
  <2> QED
    BY <2>1, <2>2
<1> QED
  BY <1>1, <1>2

LEMMA HeldList ==
    ASSUME TypeOK, NEW s \in Sessions, IsList(s)
    PROVE  held[s] \in Lists /\ held[s].items \in Seq(Items) /\ app.type = "ObjectArray"
<1>1. held[s] \in Lists /\ app.type = "ObjectArray"
  BY HeldType DEF TypeOK, IsList
<1> QED
  BY <1>1 DEF Lists

\* One call makes lists of lists.
LEMMA EditedItems ==
    ASSUME NEW items \in Seq(Items)
    PROVE  /\ Shortened(items) \subseteq Seq(Items)
           /\ Extended(items) \subseteq Seq(Items)
           /\ Replaced(items) \subseteq Seq(Items)
           /\ Reverse(items) \in Seq(Items)
           /\ \A x \in Items : Append(items, x) \in Seq(Items)
<1>1. ASSUME NEW i \in DOMAIN items
      PROVE  RemoveAt(items, i) \in Seq(Items)
  BY <1>1 DEF RemoveAt
<1>2. ASSUME NEW i \in 1..Len(items) + 1, NEW x \in Items
      PROVE  InsertAt(items, i, x) \in Seq(Items)
  <2>1. SubSeq(items, 1, i - 1) \in Seq(Items) /\ SubSeq(items, i, Len(items)) \in Seq(Items)
    BY <1>2
  <2>2. <<x>> \in Seq(Items)
    BY <1>2
  <2> QED
    BY <2>1, <2>2 DEF InsertAt
<1>3. ASSUME NEW i \in DOMAIN items, NEW x \in Items
      PROVE  [items EXCEPT ![i] = x] \in Seq(Items)
  BY <1>3
<1>4. Reverse(items) \in Seq(Items)
  BY DEF Reverse
<1>5. ASSUME NEW x \in Items
      PROVE  Append(items, x) \in Seq(Items)
  BY <1>5
<1>6. Shortened(items) \subseteq Seq(Items)
  BY <1>1 DEF Shortened
<1>7. Extended(items) \subseteq Seq(Items)
  BY <1>2 DEF Extended
<1>8. Replaced(items) \subseteq Seq(Items)
  BY <1>3 DEF Replaced
<1> QED
  BY <1>4, <1>5, <1>6, <1>7, <1>8

LEMMA EditType ==
    ASSUME TypeOK, NEW s \in Sessions, IsList(s), NEW items \in Seq(Items),
           EditTo(s, items)
    PROVE  /\ held' \in [Sessions -> HeldValues(app.type)]
           /\ \A u \in Sessions : u # s => held'[u] = held[u]
           /\ held'[s].kind = "list"
<1>1. held \in [Sessions -> HeldValues(app.type)] /\ held[s] \in Lists
        /\ app.type = "ObjectArray"
  BY HeldList DEF TypeOK
<1>2. [held[s] EXCEPT !.items = items] \in Lists
  BY <1>1 DEF Lists
<1>3. held' = [held EXCEPT ![s] = [held[s] EXCEPT !.items = items]]
  BY DEF EditTo
<1> QED
  BY <1>1, <1>2, <1>3, HeldType DEF Lists

LEMMA EditStepType ==
    ASSUME TypeOK, NEW s \in Sessions, Edit(s) \/ Mutate(s)
    PROVE  /\ held' \in [Sessions -> HeldValues(app.type)]
           /\ \A u \in Sessions : u # s => held'[u] = held[u]
           /\ held'[s].kind = "list"
           /\ app.type = "ObjectArray"
           /\ UNCHANGED <<stored, meant>> /\ outcome' = "done"
<1>1. IsList(s)
  BY DEF Edit, Mutate
<1>2. held[s].items \in Seq(Items) /\ app.type = "ObjectArray"
  BY <1>1, HeldList
<1>3. PICK items \in Seq(Items) : EditTo(s, items)
  <2>1. CASE Edit(s)
    BY <2>1, <1>2, EditedItems DEF Edit
  <2>2. CASE Mutate(s)
    <3>1. <<>> \in Seq(Items)
      OBVIOUS
    <3>2. {<<>>, Reverse(held[s].items)} \cup Shortened(held[s].items)
            \cup {Append(held[s].items, x) : x \in Items} \subseteq Seq(Items)
      BY <3>1, <1>2, EditedItems
    <3> QED
      BY <2>2, <3>2 DEF Mutate
  <2> QED
    BY <2>1, <2>2
<1> QED
  BY <1>1, <1>2, <1>3, EditType DEF EditTo

LEMMA ExpiredType ==
    ASSUME TypeOK, NEW s \in Sessions, Expire(s)
    PROVE  /\ status' \in [Sessions -> Status]
           /\ held' \in [Sessions -> HeldValues(app.type)]
           /\ committed' \in [Sessions -> HeldValues(app.type)]
<1>1. Null \in HeldValues(app.type)
  BY HeldType DEF PythonValues, VectorValues, NumberValues
<1> QED
  BY <1>1 DEF TypeOK, Expire, Status

LEMMA StoreType ==
    ASSUME TypeOK, NEW s \in Sessions, Store(s), Succeeds(s)
    PROVE  stored' \in StoredValues(app.type, app.dynamic)
<1>1. CASE IsDirty(s)
  <2>1. held[s] \in HeldValues(app.type) /\ IsWritten(app.type, app.dynamic, held[s])
    BY <1>1 DEF TypeOK, Succeeds
  <2> QED
    BY <1>1, <2>1, ApplicationType, WrittenMeans DEF Store
<1>2. CASE ~IsDirty(s)
  BY <1>2 DEF TypeOK, Store
<1> QED
  BY <1>1, <1>2

\* Every variable keeps its type, for any application (result processors, coerce).
THEOREM TypeCorrect == Spec => []TypeOK
<1>1. Init => TypeOK
  <2> SUFFICES ASSUME Init PROVE TypeOK
    OBVIOUS
  <2>1. app.type \in ColumnTypes /\ app.dynamic \in BOOLEAN
    BY ApplicationsAssumption DEF Init
  <2>2. Null \in StoredValues(app.type, app.dynamic) /\ Null \in HeldValues(app.type)
    BY <2>1, NullWritten, HeldType DEF PythonValues
  <2> QED
    BY <2>2 DEF Init, TypeOK, Status
<1>2. TypeOK /\ [Next]_vars => TypeOK'
  <2> SUFFICES ASSUME TypeOK, [Next]_vars PROVE TypeOK'
    OBVIOUS
  <2>1. CASE UNCHANGED vars
    BY <2>1 DEF TypeOK, vars, attribute
  <2>2. CASE Next
    <3>0. app' = app
      BY <2>2 DEF Next
    <3> USE <3>0
    <3>1. ASSUME NEW s \in Sessions, Load(s)
          PROVE  TypeOK'
      <4>1. IsRead(app.type, stored) => Read(app.type, stored) \in HeldValues(app.type)
        BY ApplicationType, ReadMeans DEF TypeOK
      <4> QED
        BY <4>1, <3>1 DEF TypeOK, Load, Status
    <3>2. ASSUME NEW s \in Sessions, NEW value \in app.values, Assign(s, value)
          PROVE  TypeOK'
      <4>1. Coerced(value) \in HeldValues(app.type)
        BY CoercedType
      <4> QED
        BY <4>1, <3>2 DEF TypeOK, Assign, Status
    <3>3. ASSUME NEW s \in Sessions, Edit(s) \/ Mutate(s)
          PROVE  TypeOK'
      <4>1. Null \in HeldValues(app.type)
        BY HeldType DEF PythonValues, VectorValues, NumberValues
      <4>2. status' \in [Sessions -> Status] /\ committed' \in [Sessions -> HeldValues(app.type)]
        BY <4>1, <3>3 DEF Edit, Mutate, MarkModified, TypeOK, Status
      <4> QED
        BY <4>2, <3>3, EditStepType DEF TypeOK
    <3>4. ASSUME NEW s \in Sessions, Commit(s)
          PROVE  TypeOK'
      <4>1. stored' \in StoredValues(app.type, app.dynamic)
        BY <3>4, StoreType DEF Commit
      <4>2. /\ status' \in [Sessions -> Status]
            /\ held' \in [Sessions -> HeldValues(app.type)]
            /\ committed' \in [Sessions -> HeldValues(app.type)]
        <5>1. CASE "keeps" \in app.habits
          <6>1. Null \in HeldValues(app.type)
            BY HeldType DEF PythonValues, VectorValues, NumberValues
          <6> QED
            BY <6>1, <5>1, <3>4 DEF Commit, TypeOK, Status
        <5>2. CASE "keeps" \notin app.habits
          BY <5>2, <3>4, ExpiredType DEF Commit
        <5> QED
          BY <5>1, <5>2
      <4> QED
        BY <4>1, <4>2, <3>4 DEF TypeOK, Commit
    <3>5. ASSUME NEW s \in Sessions, CommitFails(s)
          PROVE  TypeOK'
      <4>1. stored' \in StoredValues(app.type, app.dynamic)
        BY <3>5, StoreType DEF CommitFails, TypeOK
      <4>2. outcome' \in {"done", "unreadable", "lost", "refused", "rejected"}
        BY <3>5 DEF CommitFails
      <4> QED
        BY <4>1, <4>2, <3>5, ExpiredType DEF TypeOK, CommitFails
    <3>6. ASSUME NEW s \in Sessions, Rollback(s)
          PROVE  TypeOK'
      BY <3>6, ExpiredType DEF TypeOK, Rollback
    <3>7. ASSUME NEW value \in app.others, Elsewhere(value)
          PROVE  TypeOK'
      BY <3>7, ApplicationType DEF TypeOK, Elsewhere, attribute
    <3> QED
      BY <2>2, <3>1, <3>2, <3>3, <3>4, <3>5, <3>6, <3>7, ApplicationType DEF Next
  <2> QED
    BY <2>1, <2>2
<1> QED
  BY <1>1, <1>2, PTL DEF Spec

-----------------------------------------------------------------------------
(* What is stored.                                                         *)

\* In an application that keeps instants, attributes hold what a column without time zone
\* can keep.
HeldKeepInstants ==
    KeepsInstants => \A s \in Sessions : KeepsInstant(app.type, app.dynamic, held[s])

LEMMA NullKeepsInstant ==
    ASSUME NEW type, NEW dynamic
    PROVE  KeepsInstant(type, dynamic, Null)
BY NullIsNone DEF KeepsInstant

LEMMA ListKeepsInstant ==
    ASSUME NEW type, NEW dynamic, NEW value, type = "ObjectArray"
    PROVE  KeepsInstant(type, dynamic, value)
BY DEF KeepsInstant

\* Every step but a commit leaves what is stored alone, or is somebody else's.
LEMMA StoredMeans ==
    ASSUME TypeOK, HeldKeepInstants, WritesAreTrue, KeepsInstants,
           NEW s \in Sessions, Store(s), Succeeds(s), app' = app
    PROVE  StoredMeaning(app.type, stored') = meant'
<1>1. CASE IsDirty(s)
  <2>1. held[s] \in HeldValues(app.type) /\ IsWritten(app.type, app.dynamic, held[s])
    BY <1>1 DEF TypeOK, Succeeds
  <2>2. KeepsInstant(app.type, app.dynamic, held[s])
    BY DEF HeldKeepInstants
  <2> QED
    BY <1>1, <2>1, <2>2, ApplicationType, WrittenMeans DEF Store
<1>2. CASE ~IsDirty(s)
  BY <1>2 DEF Store, WritesAreTrue
<1> QED
  BY <1>1, <1>2

LEMMA HeldStep ==
    ASSUME TypeOK, HeldKeepInstants, Next
    PROVE  HeldKeepInstants'
<1>0. app' = app
  BY DEF Next
<1> SUFFICES ASSUME KeepsInstants, NEW u \in Sessions
             PROVE  KeepsInstant(app.type, app.dynamic, held'[u])
  BY <1>0 DEF HeldKeepInstants, KeepsInstants
<1>1. KeepsInstant(app.type, app.dynamic, held[u])
  BY DEF HeldKeepInstants
<1>2. KeepsInstant(app.type, app.dynamic, Null)
  BY NullKeepsInstant
<1>3. held \in [Sessions -> HeldValues(app.type)]
  BY DEF TypeOK
<1>4. ASSUME NEW s \in Sessions, Load(s)
      PROVE  KeepsInstant(app.type, app.dynamic, held'[u])
  <2>1. IsRead(app.type, stored) =>
            KeepsInstant(app.type, app.dynamic, Read(app.type, stored))
    BY ApplicationType, ReadMeans DEF TypeOK
  <2> QED
    BY <2>1, <1>1, <1>3, <1>4 DEF Load
<1>5. ASSUME NEW s \in Sessions, NEW value \in app.values, Assign(s, value)
      PROVE  KeepsInstant(app.type, app.dynamic, held'[u])
  <2>1. KeepsInstant(app.type, app.dynamic, Coerced(value))
    BY CoercedType DEF KeepsInstants
  <2> QED
    BY <2>1, <1>1, <1>3, <1>5 DEF Assign
<1>6. ASSUME NEW s \in Sessions, Edit(s) \/ Mutate(s)
      PROVE  KeepsInstant(app.type, app.dynamic, held'[u])
  BY <1>6, EditStepType, ListKeepsInstant
<1>7. ASSUME NEW s \in Sessions, Expire(s)
      PROVE  KeepsInstant(app.type, app.dynamic, held'[u])
  BY <1>7, <1>1, <1>2, <1>3 DEF Expire
<1>8. ASSUME NEW s \in Sessions, Commit(s)
      PROVE  KeepsInstant(app.type, app.dynamic, held'[u])
  BY <1>1, <1>7, <1>8 DEF Commit
<1>9. ASSUME NEW s \in Sessions, CommitFails(s) \/ Rollback(s)
      PROVE  KeepsInstant(app.type, app.dynamic, held'[u])
  BY <1>7, <1>9 DEF CommitFails, Rollback
<1>10. ASSUME NEW value \in app.others, Elsewhere(value)
       PROVE  KeepsInstant(app.type, app.dynamic, held'[u])
  BY <1>1, <1>10 DEF Elsewhere, attribute
<1> QED
  BY <1>4, <1>5, <1>6, <1>8, <1>9, <1>10, ApplicationType DEF Next

LEMMA WritesStep ==
    ASSUME TypeOK, HeldKeepInstants, WritesAreTrue, Next
    PROVE  WritesAreTrue'
<1>0. app' = app
  BY DEF Next
<1> SUFFICES ASSUME KeepsInstants
             PROVE  StoredMeaning(app.type, stored') = meant'
  BY <1>0 DEF WritesAreTrue, KeepsInstants
<1>1. UNCHANGED <<stored, meant>> => StoredMeaning(app.type, stored') = meant'
  BY DEF WritesAreTrue
<1>2. ASSUME NEW s \in Sessions, Load(s) \/ Edit(s) \/ Mutate(s) \/ Rollback(s)
      PROVE  UNCHANGED <<stored, meant>>
  BY <1>2, EditStepType DEF Load, Rollback
<1>3. ASSUME NEW s \in Sessions, NEW value \in app.values, Assign(s, value)
      PROVE  UNCHANGED <<stored, meant>>
  BY <1>3 DEF Assign
<1>4. ASSUME NEW s \in Sessions, Commit(s) \/ CommitFails(s)
      PROVE  StoredMeaning(app.type, stored') = meant'
  <2>1. (Store(s) /\ Succeeds(s)) \/ UNCHANGED <<stored, meant>>
    BY <1>4 DEF Commit, CommitFails
  <2> QED
    BY <2>1, <1>0, <1>1, StoredMeans
<1>5. ASSUME NEW value \in app.others, Elsewhere(value)
      PROVE  StoredMeaning(app.type, stored') = meant'
  BY <1>5 DEF Elsewhere
<1> QED
  BY <1>1, <1>2, <1>3, <1>4, <1>5, ApplicationType DEF Next

LEMMA MeaningsKept == Spec => [](HeldKeepInstants /\ WritesAreTrue)
<1>1. Init => HeldKeepInstants /\ WritesAreTrue
  BY NullKeepsInstant DEF Init, HeldKeepInstants, WritesAreTrue, StoredMeaning
<1>2. TypeOK /\ (HeldKeepInstants /\ WritesAreTrue) /\ [Next]_vars
        => (HeldKeepInstants /\ WritesAreTrue)'
  <2>1. ASSUME HeldKeepInstants, WritesAreTrue, UNCHANGED vars
        PROVE  (HeldKeepInstants /\ WritesAreTrue)'
    BY <2>1 DEF vars, attribute, HeldKeepInstants, WritesAreTrue, KeepsInstants
  <2> QED
    BY <2>1, HeldStep, WritesStep
<1> QED
  BY <1>1, <1>2, TypeCorrect, PTL DEF Spec

\* What is stored means what was assigned, for any values and whatever failed
\* (bind processors).
THEOREM WritesStayTrue == Spec => []WritesAreTrue
BY MeaningsKept, PTL

\* What is read means what was written, for any values (result processors).
THEOREM ReadsStayTrue == Spec => ReadsAreTrue
<1> DEFINE Step ==
        KeepsInstants =>
            \A s \in Sessions :
                status[s] = "expired" /\ status'[s] = "clean" /\ stored # Epoch =>
                    Meaning(app.type, held'[s]) = meant
<1>1. TypeOK /\ WritesAreTrue /\ [Next]_vars => [Step]_vars
  <2> SUFFICES ASSUME TypeOK, WritesAreTrue, Next, KeepsInstants, NEW u \in Sessions,
                      status[u] = "expired", status'[u] = "clean", stored # Epoch
               PROVE  Meaning(app.type, held'[u]) = meant
    OBVIOUS
  <2>0. status \in [Sessions -> Status] /\ held \in [Sessions -> HeldValues(app.type)]
    BY DEF TypeOK
  <2>1. ASSUME NEW s \in Sessions, Load(s)
        PROVE  Meaning(app.type, held'[u]) = meant
    <3>1. u = s /\ IsRead(app.type, stored) /\ held'[u] = Read(app.type, stored)
      BY <2>0, <2>1 DEF Load
    <3>2. Meaning(app.type, Read(app.type, stored)) = StoredMeaning(app.type, stored)
      BY <3>1, ApplicationType, ReadMeans DEF TypeOK
    <3> QED
      BY <3>1, <3>2 DEF WritesAreTrue
  <2>2. ASSUME NEW s \in Sessions, NEW value \in app.values, Assign(s, value)
        PROVE  FALSE
    BY <2>0, <2>2 DEF Assign
  <2>3. ASSUME NEW s \in Sessions, Edit(s) \/ Mutate(s)
        PROVE  FALSE
    BY <2>0, <2>3 DEF Edit, Mutate, MarkModified
  <2>4. ASSUME NEW s \in Sessions, Expire(s)
        PROVE  FALSE
    BY <2>0, <2>4 DEF Expire
  <2>5. ASSUME NEW s \in Sessions, Commit(s)
        PROVE  FALSE
    BY <2>0, <2>4, <2>5 DEF Commit
  <2>6. ASSUME NEW s \in Sessions, CommitFails(s) \/ Rollback(s)
        PROVE  FALSE
    BY <2>4, <2>6 DEF CommitFails, Rollback
  <2>7. ASSUME NEW value \in app.others, Elsewhere(value)
        PROVE  FALSE
    BY <2>7 DEF Elsewhere, attribute
  <2> QED
    BY <2>1, <2>2, <2>3, <2>5, <2>6, <2>7, ApplicationType DEF Next
<1> QED
  BY <1>1, TypeCorrect, WritesStayTrue, PTL DEF Spec, ReadsAreTrue

-----------------------------------------------------------------------------
(* What can be read, and what is rejected.                                 *)

\* Texts of this dialect's dates and times have the form that it reads.
OwnAreRead ==
    app.others = {} /\ (app.type = "Time" \/ (app.type = "Date" /\ app.dynamic))
        => IsRead(app.type, stored)

LEMMA OwnStep ==
    ASSUME TypeOK, OwnAreRead, Next
    PROVE  OwnAreRead'
<1>0. app' = app
  BY DEF Next
<1> SUFFICES ASSUME app.others = {}, app.type = "Time" \/ (app.type = "Date" /\ app.dynamic)
             PROVE  IsRead(app.type, stored')
  BY <1>0 DEF OwnAreRead
<1>1. stored' = stored => IsRead(app.type, stored')
  BY DEF OwnAreRead
<1>2. ASSUME NEW s \in Sessions, Commit(s) \/ CommitFails(s)
      PROVE  IsRead(app.type, stored')
  <2>1. (Store(s) /\ Succeeds(s)) \/ stored' = stored
    BY <1>2 DEF Commit, CommitFails
  <2>2. CASE Store(s) /\ Succeeds(s) /\ IsDirty(s)
    <3>1. held[s] \in HeldValues(app.type) /\ IsWritten(app.type, app.dynamic, held[s])
      BY <2>2 DEF TypeOK, Succeeds
    <3> QED
      BY <2>2, <3>1, ApplicationType, WrittenMeans DEF Store
  <2> QED
    BY <2>1, <2>2, <1>1 DEF Store
<1>3. ASSUME NEW s \in Sessions,
             Load(s) \/ Edit(s) \/ Mutate(s) \/ Rollback(s)
                \/ \E value \in app.values : Assign(s, value)
      PROVE  stored' = stored
  BY <1>3, EditStepType DEF Load, Rollback, Assign
<1> QED
  BY <1>1, <1>2, <1>3, ApplicationType DEF Next

\* A column that was declared has timestamps, lists or vectors, but for a Time.
LEMMA DeclaredIsRead ==
    ASSUME TypeOK, app.type # "Time", app.type \in DateTypes => ~app.dynamic
    PROVE  IsRead(app.type, stored)
<1>1. stored \in {Null} \cup Timestamps \cup Lists \cup Vectors
  BY ApplicationType
  DEF TypeOK, StoredValues, ColumnTypes, DateTypes, InstantTypes, VectorTypes
<1>2. stored.kind # "text"
  BY <1>1 DEF Null, Timestamps, Lists, Vectors
<1> QED
  BY <1>2 DEF IsRead

LEMMA OutcomeOfStep ==
    ASSUME TypeOK, Next
    PROVE  \/ outcome' \in {"done", "lost", "refused"}
           \/ /\ outcome' = "unreadable"
              /\ ~IsRead(app.type, stored)
           \/ /\ outcome' = "rejected"
              /\ \E s \in Sessions : /\ IsBound(app.type, held[s])
                                     /\ ~IsWritten(app.type, app.dynamic, held[s])
<1>1. ASSUME NEW s \in Sessions, CommitFails(s)
      PROVE  \/ outcome' \in {"lost", "refused"}
             \/ /\ outcome' = "rejected"
                /\ IsBound(app.type, held[s]) /\ ~IsWritten(app.type, app.dynamic, held[s])
  BY <1>1 DEF CommitFails, Succeeds
<1>2. ASSUME NEW s \in Sessions, Edit(s) \/ Mutate(s)
      PROVE  outcome' = "done"
  BY <1>2, EditStepType
<1> QED
  BY <1>1, <1>2, ApplicationType DEF Next, Load, Assign, Commit, Rollback, Elsewhere

\* The dialect reads what it wrote, and what others wrote to a column that was declared, for any
\* values (the fallback of the result processors).
THEOREM OwnAreReadable == Spec => []IsReadable
<1>1. Init => OwnAreRead /\ IsReadable
  BY NullIsNone DEF Init, OwnAreRead, IsReadable, IsRead
<1>2. TypeOK /\ (OwnAreRead /\ IsReadable) /\ [Next]_vars => (OwnAreRead /\ IsReadable)'
  <2> SUFFICES ASSUME TypeOK, OwnAreRead, IsReadable, [Next]_vars
               PROVE  (OwnAreRead /\ IsReadable)'
    OBVIOUS
  <2>1. CASE UNCHANGED vars
    BY <2>1 DEF vars, OwnAreRead, IsReadable
  <2>2. CASE Next
    <3>1. app' = app
      BY <2>2 DEF Next
    <3>2. ASSUME outcome' = "unreadable"
          PROVE  \/ app.dynamic /\ app.type \in InstantTypes
                 \/ app.dynamic /\ app.type = "Date" /\ app.others # {}
                 \/ app.type = "Time" /\ app.others # {}
      <4>1. ~IsRead(app.type, stored)
        BY <2>2, <3>2, OutcomeOfStep
      <4>2. app.type = "Time" \/ (app.type \in DateTypes /\ app.dynamic)
        BY <4>1, DeclaredIsRead, ApplicationType
      <4> QED
        BY <4>1, <4>2 DEF OwnAreRead, DateTypes
    <3> QED
      BY <2>2, <3>1, <3>2, OwnStep DEF IsReadable
  <2> QED
    BY <2>1, <2>2
<1> QED
  BY <1>1, <1>2, TypeCorrect, PTL DEF Spec

LEMMA BoundIsAccepted ==
    ASSUME NEW type \in {"Date", "Time", "FloatVector(n)"}, NEW dynamic \in BOOLEAN,
           NEW value \in PythonValues, IsBound(type, value),
           type = "FloatVector(n)" => value \in NumberValues
    PROVE  IsAccepted(type, dynamic, Bound(type, value))
<1>1. CASE value = Null
  BY <1>1 DEF Bound, IsAccepted
<1>2. CASE value # Null
  <2>0. value.kind # "null"
    BY <1>2, KindOfValue
  <2>1. CASE type = "Date"
    <3>1. value \in Dates \cup DateTimes
      BY <2>0, <2>1, KindOfValue DEF IsBound, InstantTypes, VectorTypes
    <3>2. Bound(type, value) = DateText(value)
      BY <1>2, <2>1 DEF Bound, InstantTypes, VectorTypes
    <3> QED
      BY <2>1, <3>1, <3>2, DateTextType DEF IsAccepted, DateTypes
  <2>2. CASE type = "Time"
    <3>1. Bound(type, value) = Text("time", value.clock, NoZone)
      BY <1>2, <2>2 DEF Bound, TimeText, InstantTypes, VectorTypes
    <3> QED
      BY <2>2, <3>1 DEF IsAccepted, Text
  <2>3. CASE type = "FloatVector(n)"
    <3>1. value \in Lists \cup Arrays
      BY <1>2, <2>3 DEF NumberValues
    <3>2. Len(value.items) = Dimensions
      BY <1>2, <2>3, <3>1
         DEF IsBound, IsVector, Fits, Length, Lists, Arrays, InstantTypes, VectorTypes
    <3>3. /\ Bound(type, value).kind = "list"
          /\ Bound(type, value).items = value.items
      BY <1>2, <2>3, <3>1 DEF Bound, VectorList, Lists, Arrays, InstantTypes, VectorTypes
    <3> QED
      BY <2>3, <3>2, <3>3 DEF IsAccepted, VectorTypes
  <2> QED
    BY <2>1, <2>2, <2>3
<1> QED
  BY <1>1, <1>2

\* An application that gives a vector column numbers only finds numbers there.
NumbersAreHeld ==
    app.type = "FloatVector(n)" /\ app.values \subseteq NumberValues =>
        \A s \in Sessions : held[s] \in NumberValues

LEMMA NumbersStep ==
    ASSUME TypeOK, NumbersAreHeld, [Next]_vars
    PROVE  NumbersAreHeld'
<1>a. app' = app
  BY DEF Next, vars
<1> SUFFICES ASSUME app.type = "FloatVector(n)", app.values \subseteq NumberValues,
                    NEW u \in Sessions
             PROVE  held'[u] \in NumberValues
  BY <1>a DEF NumbersAreHeld
<1>b. held \in [Sessions -> HeldValues(app.type)] /\ held[u] \in NumberValues
  BY DEF TypeOK, NumbersAreHeld
<1>c. app.type \in VectorTypes /\ app.type # "ObjectArray"
  BY DEF VectorTypes
<1>d. Null \in NumberValues
  BY DEF NumberValues
<1>1. ASSUME UNCHANGED held
      PROVE  held'[u] \in NumberValues
  BY <1>1, <1>b
<1>2. ASSUME NEW s \in Sessions, Load(s)
      PROVE  held'[u] \in NumberValues
  <2>1. stored \in {Null} \cup Lists \cup Vectors
    BY <1>c DEF TypeOK, StoredValues, VectorTypes, DateTypes, InstantTypes
  <2>2. Read(app.type, stored) \in NumberValues
    <3>1. CASE stored = Null
      BY <3>1, <1>d DEF Read
    <3>2. CASE stored # Null
      <4>1. stored.items \in Seq(Items)
        BY <2>1, <3>2 DEF Lists, Vectors
      <4>2. Read(app.type, stored) = VectorRead(stored)
        BY <3>2 DEF Read, VectorTypes, DateTypes, InstantTypes
      <4>3. VectorRead(stored) \in Arrays
        BY <4>1 DEF VectorRead, Arrays
      <4> QED
        BY <4>2, <4>3 DEF NumberValues
    <3> QED
      BY <3>1, <3>2
  <2> QED
    BY <1>2, <1>b, <2>2 DEF Load
<1>3. ASSUME NEW s \in Sessions, NEW value \in app.values, Assign(s, value)
      PROVE  held'[u] \in NumberValues
  BY <1>3, <1>b, <1>c DEF Assign, Coerced
<1>4. ASSUME NEW s \in Sessions, Edit(s) \/ Mutate(s)
      PROVE  held'[u] \in NumberValues
  BY <1>4, <1>c DEF Edit, Mutate, IsList
<1>5. ASSUME NEW s \in Sessions, Expire(s)
      PROVE  held'[u] \in NumberValues
  BY <1>5, <1>b, <1>d DEF Expire
<1>6. ASSUME NEW s \in Sessions, Commit(s) \/ CommitFails(s) \/ Rollback(s)
      PROVE  held'[u] \in NumberValues
  BY <1>1, <1>5, <1>6 DEF Commit, CommitFails, Rollback
<1>7. ASSUME NEW value \in app.others, Elsewhere(value)
      PROVE  held'[u] \in NumberValues
  BY <1>1, <1>7 DEF Elsewhere, attribute
<1>8. CASE UNCHANGED vars
  BY <1>1, <1>8 DEF vars, attribute
<1>e. app.sessions \subseteq Sessions
  BY ApplicationType
<1> QED
  BY <1>2, <1>3, <1>4, <1>6, <1>7, <1>8, <1>e DEF Next

\* CrateDB takes what the dialect accepts for a date or a time, and the lists and arrays of numbers
\* that it accepts for a vector with dimensions (to_db), for any sessions and values; other values
\* of the right length pass `to_db` and may be rejected.
THEOREM AcceptedIsTaken == Spec => []NumbersAreAccepted
<1>1. Init => NumbersAreHeld /\ NumbersAreAccepted
  BY DEF Init, NumbersAreHeld, NumbersAreAccepted, NumberValues
<1>2. TypeOK /\ NumbersAreHeld /\ NumbersAreAccepted /\ [Next]_vars
        => NumbersAreHeld' /\ NumbersAreAccepted'
  <2> SUFFICES ASSUME TypeOK, NumbersAreHeld, NumbersAreAccepted, [Next]_vars
               PROVE  NumbersAreAccepted'
    BY NumbersStep
  <2>1. CASE UNCHANGED vars
    BY <2>1 DEF vars, NumbersAreAccepted
  <2>2. CASE Next
    <3>1. app' = app
      BY <2>2 DEF Next
    <3>2. ASSUME outcome' = "rejected", app.type \in {"Date", "Time", "FloatVector(n)"},
                 app.type = "FloatVector(n)" => app.values \subseteq NumberValues
          PROVE  FALSE
      <4>1. PICK s \in Sessions : /\ IsBound(app.type, held[s])
                                  /\ ~IsWritten(app.type, app.dynamic, held[s])
        BY <2>2, <3>2, OutcomeOfStep
      <4>2. held[s] \in PythonValues
        BY <3>2, HeldType DEF TypeOK, VectorValues, NumberValues, PythonValues, VectorTypes
      <4>3. app.type = "FloatVector(n)" => held[s] \in NumberValues
        BY <3>2 DEF NumbersAreHeld
      <4> QED
        BY <3>2, <4>1, <4>2, <4>3, BoundIsAccepted, ApplicationType DEF IsWritten
    <3> QED
      BY <3>1, <3>2 DEF NumbersAreAccepted
  <2> QED
    BY <2>1, <2>2
<1> QED
  BY <1>1, <1>2, TypeCorrect, PTL DEF Spec

-----------------------------------------------------------------------------
(* What a session alone holds.                                             *)

\* A value that the session read or committed, and that the column shows.
IsShown(value) ==
    /\ value.kind = "datetime" => value.zone = NoZone \/ ("keeps" \in app.habits /\ value.zone = 0)
    /\ stored # Epoch => Meaning(app.type, value) = StoredMeaning(app.type, stored)

KeepsZone(value) ==
    "keeps" \in app.habits /\ value.kind = "datetime" => value.zone \in {NoZone, 0}

\* The unmodified value is shown by the column, and so is the one that was replaced.
HeldAlone(s) ==
    /\ KeepsZone(held[s])
    /\ status[s] = "clean" => IsShown(held[s])
    /\ status[s] = "replaced" => IsShown(committed[s])

AllHeldAlone == \A s \in Sessions : Alone(s) => HeldAlone(s)

\* What is equal to what the column shows is shown by the column.
LEMMA EqualIsShown ==
    ASSUME TypeOK, NEW s \in Sessions, KeepsZone(held[s]), IsShown(committed[s]),
           IsEqual(held[s], committed[s])
    PROVE  IsShown(held[s])
<1>1. CASE held[s] = committed[s]
  BY <1>1
<1>2. CASE held[s] # committed[s]
  <2> DEFINE h == held[s]
             c == committed[s]
  <2>1. /\ h.kind = "datetime" /\ c.kind = "datetime"
        /\ h.zone # NoZone /\ c.zone # NoZone
        /\ Utc(h.clock, h.zone) = Utc(c.clock, c.zone)
    BY <1>2 DEF IsEqual
  <2>2. h.zone = 0 /\ c.zone = 0
    BY <2>1 DEF IsShown, KeepsZone
  <2>3. h \in PythonValues /\ c \in PythonValues
    BY HeldType DEF TypeOK, PythonValues
  <2>4. h \in DateTimes /\ c \in DateTimes
    BY <2>1, <2>3, KindOfValue
  <2>5. h.clock = c.clock
    BY <2>1, <2>2, <2>4 DEF Utc, DateTimes
  <2>6. h = c
    BY <2>2, <2>4, <2>5 DEF DateTimes
  <2> QED
    BY <2>6, <1>2
<1> QED
  BY <1>1, <1>2

\* A commit that stores what is held leaves it shown.
LEMMA StoredIsShown ==
    ASSUME TypeOK, HeldKeepInstants, NEW s \in Sessions, Alone(s), HeldAlone(s),
           status[s] # "expired",
           "keeps" \in app.habits, Store(s), Succeeds(s), app' = app, held' = held
    PROVE  IsShown(held[s])'
<1>1. held[s].kind = "datetime" => held[s].zone = NoZone \/ held[s].zone = 0
  BY DEF HeldAlone, KeepsZone
<1>2. CASE IsDirty(s)
  <2>1. held[s] \in HeldValues(app.type) /\ IsWritten(app.type, app.dynamic, held[s])
    BY <1>2 DEF TypeOK, Succeeds
  <2>2. KeepsInstant(app.type, app.dynamic, held[s])
    BY DEF HeldKeepInstants, Alone
  <2>3. StoredMeaning(app.type, stored') = Meaning(app.type, held[s])
    BY <1>2, <2>1, <2>2, ApplicationType, WrittenMeans DEF Store
  <2> QED
    BY <1>1, <2>3 DEF IsShown
<1>3. CASE ~IsDirty(s)
  <2>1. stored' = stored
    BY <1>3 DEF Store
  <2>2. status[s] \in Status
    BY DEF TypeOK
  <2>3. status[s] = "clean" \/ (status[s] = "replaced" /\ IsEqual(held[s], committed[s]))
    BY <1>3, <2>2 DEF IsDirty, Status
  <2>4. IsShown(held[s])
    BY <2>3, EqualIsShown DEF HeldAlone
  <2> QED
    BY <2>1, <2>4 DEF IsShown
<1> QED
  BY <1>2, <1>3

LEMMA HeldAloneStep ==
    ASSUME TypeOK, HeldKeepInstants, AllHeldAlone, Next
    PROVE  AllHeldAlone'
<1>0. app' = app
  BY DEF Next
<1> SUFFICES ASSUME NEW u \in Sessions, Alone(u)
             PROVE  HeldAlone(u)'
  BY <1>0 DEF AllHeldAlone, Alone, KeepsInstants
<1>1. HeldAlone(u) /\ app.sessions = {u} /\ app.others = {} /\ "mutates" \notin app.habits
  BY DEF AllHeldAlone, Alone
<1>2. /\ status \in [Sessions -> Status]
      /\ held \in [Sessions -> HeldValues(app.type)]
      /\ committed \in [Sessions -> HeldValues(app.type)]
  BY DEF TypeOK
<1>3. CASE Load(u)
  <2>1. CASE IsRead(app.type, stored)
    <3>1. held'[u] = Read(app.type, stored) /\ stored' = stored /\ status'[u] = "clean"
      BY <1>2, <1>3, <2>1 DEF Load
    <3>2. held'[u].kind = "datetime" => held'[u].zone = NoZone
      BY <2>1, <3>1, ApplicationType, ReadMeans DEF TypeOK
    <3>3. stored # Epoch => Meaning(app.type, held'[u]) = StoredMeaning(app.type, stored)
      BY <2>1, <3>1, ApplicationType, ReadMeans DEF TypeOK
    <3> QED
      BY <1>0, <3>1, <3>2, <3>3 DEF HeldAlone, IsShown, KeepsZone
  <2>2. CASE ~IsRead(app.type, stored)
    BY <1>0, <1>1, <1>3, <2>2 DEF Load, HeldAlone, IsShown, KeepsZone
  <2> QED
    BY <2>1, <2>2
<1>4. ASSUME NEW value \in app.values, Assign(u, value)
      PROVE  HeldAlone(u)'
  <2>1. held'[u] = Coerced(value) /\ stored' = stored
    BY <1>2, <1>4 DEF Assign
  <2>2. "keeps" \in app.habits /\ Coerced(value).kind = "datetime"
            => Coerced(value).zone \in {NoZone, 0}
    BY CoercedType DEF Alone
  <2>3. status'[u] # "clean"
    BY <1>2, <1>4 DEF Assign, Status
  <2>4. status'[u] = "replaced" => IsShown(committed'[u])
    <3>1. CASE status[u] = "clean"
      BY <3>1, <1>1, <1>2, <1>4 DEF Assign, HeldAlone
    <3>2. CASE status[u] = "expired"
      BY <3>2, <1>2, <1>4 DEF Assign
    <3>3. CASE status[u] \notin {"clean", "expired"}
      BY <3>3, <1>1, <1>2, <1>4 DEF Assign, HeldAlone
    <3> QED
      BY <3>1, <3>2, <3>3
  <2> QED
    BY <1>0, <2>1, <2>2, <2>3, <2>4 DEF HeldAlone, IsShown, KeepsZone
<1>5. CASE Edit(u)
  <2>1. status'[u] = "flagged"
    BY <1>2, <1>5 DEF Edit, MarkModified
  <2>2. held'[u].kind = "list"
    BY <1>5, EditStepType
  <2> QED
    BY <1>0, <2>1, <2>2 DEF HeldAlone, KeepsZone
<1>6. ASSUME Expire(u)
      PROVE  HeldAlone(u)'
  BY <1>0, <1>2, <1>6, NullIsNone DEF Expire, HeldAlone, KeepsZone
<1>7. CASE Commit(u)
  <2>1. CASE "keeps" \in app.habits
    <3>1. held' = held /\ status'[u] = "clean" /\ Store(u) /\ Succeeds(u)
            /\ status[u] # "expired"
      BY <1>2, <1>7, <2>1 DEF Commit
    <3>2. IsShown(held[u])'
      BY <1>0, <1>1, <2>1, <3>1, StoredIsShown
    <3> QED
      BY <1>0, <1>1, <3>1, <3>2 DEF HeldAlone, KeepsZone
  <2>2. CASE "keeps" \notin app.habits
    BY <1>6, <1>7, <2>2 DEF Commit
  <2> QED
    BY <2>1, <2>2
<1>8. CASE CommitFails(u) \/ Rollback(u)
  BY <1>6, <1>8 DEF CommitFails, Rollback
<1>9. ~Mutate(u)
  BY <1>1 DEF Mutate
<1> QED
  BY <1>1, <1>3, <1>4, <1>5, <1>7, <1>8, <1>9 DEF Next

\* A session alone with the row holds nothing unsaved that SQLAlchemy does not know of, for any
\* column and any values (MutableList and the processors).
THEOREM ChangesAreNoticed == Spec => []NoChangeIsLost
<1>1. Init => AllHeldAlone
  BY NullIsNone DEF Init, AllHeldAlone, HeldAlone, KeepsZone
<1>2. TypeOK /\ (HeldKeepInstants /\ WritesAreTrue) /\ AllHeldAlone /\ [Next]_vars
        => AllHeldAlone'
  <2>1. ASSUME AllHeldAlone, UNCHANGED vars
        PROVE  AllHeldAlone'
    BY <2>1 DEF vars, attribute, AllHeldAlone, Alone, KeepsInstants, HeldAlone, KeepsZone,
                IsShown
  <2> QED
    BY <2>1, HeldAloneStep
<1>3. TypeOK /\ AllHeldAlone => NoChangeIsLost
  <2> SUFFICES ASSUME TypeOK, AllHeldAlone, NEW s \in Sessions, Alone(s),
                      status[s] # "expired", ~IsDirty(s), stored # Epoch
               PROVE  Meaning(app.type, held[s]) = StoredMeaning(app.type, stored)
    BY DEF NoChangeIsLost
  <2>1. HeldAlone(s) /\ status[s] \in Status
    BY DEF AllHeldAlone, TypeOK
  <2>2. status[s] = "clean" \/ (status[s] = "replaced" /\ IsEqual(held[s], committed[s]))
    BY <2>1 DEF IsDirty, Status
  <2>3. IsShown(held[s])
    BY <2>1, <2>2, EqualIsShown DEF HeldAlone
  <2> QED
    BY <2>3 DEF IsShown
<1> QED
  BY <1>1, <1>2, <1>3, TypeCorrect, MeaningsKept, PTL DEF Spec

-----------------------------------------------------------------------------
(* The promise of a shared column.                                         *)

\* A datetime with a zone is one that the application assigned.
IsGiven(value) ==
    value.kind = "datetime" /\ value.zone # NoZone => value \in app.values

ZonesAreGiven == \A s \in Sessions : IsGiven(held[s]) /\ IsGiven(committed[s])

LEMMA ZonesStep ==
    ASSUME TypeOK, ZonesAreGiven, Next
    PROVE  ZonesAreGiven'
<1>0. app' = app
  BY DEF Next
<1> SUFFICES ASSUME NEW u \in Sessions
             PROVE  IsGiven(held'[u]) /\ IsGiven(committed'[u])
  BY <1>0 DEF ZonesAreGiven, IsGiven
<1>1. IsGiven(held[u]) /\ IsGiven(committed[u]) /\ IsGiven(Null)
  BY NullIsNone DEF ZonesAreGiven, IsGiven
<1>2. /\ held \in [Sessions -> HeldValues(app.type)]
      /\ committed \in [Sessions -> HeldValues(app.type)]
  BY DEF TypeOK
<1>3. ASSUME NEW s \in Sessions, Load(s)
      PROVE  IsGiven(held'[u]) /\ IsGiven(committed'[u])
  <2>1. IsRead(app.type, stored) => IsGiven(Read(app.type, stored))
    BY ApplicationType, ReadMeans DEF TypeOK, IsGiven
  <2> QED
    BY <2>1, <1>1, <1>2, <1>3 DEF Load
<1>4. ASSUME NEW s \in Sessions, NEW value \in app.values, Assign(s, value)
      PROVE  IsGiven(held'[u]) /\ IsGiven(committed'[u])
  <2>1. IsGiven(Coerced(value))
    BY CoercedType DEF IsGiven
  <2>2. IsGiven(held'[u])
    BY <2>1, <1>1, <1>2, <1>4 DEF Assign
  <2>3. committed' = committed \/ committed' = [committed EXCEPT ![s] = held[s]]
    BY <1>4 DEF Assign
  <2> QED
    BY <2>2, <2>3, <1>1, <1>2 DEF ZonesAreGiven
<1>5. ASSUME NEW s \in Sessions, Edit(s) \/ Mutate(s)
      PROVE  IsGiven(held'[u]) /\ IsGiven(committed'[u])
  <2>1. IsGiven(held'[u])
    BY <1>1, <1>5, EditStepType DEF IsGiven
  <2>2. committed' = committed \/ committed' = [committed EXCEPT ![s] = Null]
    BY <1>5 DEF Edit, Mutate, MarkModified
  <2> QED
    BY <2>1, <2>2, <1>1, <1>2
<1>6. ASSUME NEW s \in Sessions, Expire(s)
      PROVE  IsGiven(held'[u]) /\ IsGiven(committed'[u])
  BY <1>1, <1>2, <1>6 DEF Expire
<1>7. ASSUME NEW s \in Sessions, Commit(s)
      PROVE  IsGiven(held'[u]) /\ IsGiven(committed'[u])
  BY <1>1, <1>2, <1>6, <1>7 DEF Commit
<1>8. ASSUME NEW s \in Sessions, CommitFails(s) \/ Rollback(s)
      PROVE  IsGiven(held'[u]) /\ IsGiven(committed'[u])
  BY <1>6, <1>8 DEF CommitFails, Rollback
<1>9. ASSUME NEW value \in app.others, Elsewhere(value)
      PROVE  IsGiven(held'[u]) /\ IsGiven(committed'[u])
  BY <1>1, <1>9 DEF Elsewhere, attribute
<1> QED
  BY <1>3, <1>4, <1>5, <1>7, <1>8, <1>9, ApplicationType DEF Next

\* What SQLAlchemy takes for equal the column does not tell apart.
LEMMA EqualMeans ==
    ASSUME TypeOK, KeepsDays, NEW value \in HeldValues(app.type), IsGiven(value),
           NEW other \in HeldValues(app.type), IsGiven(other), IsEqual(value, other)
    PROVE  Meaning(app.type, value) = Meaning(app.type, other)
<1>1. CASE value = other
  BY <1>1
<1>2. CASE value # other
  <2>1. /\ value.kind = "datetime" /\ other.kind = "datetime"
        /\ value.zone # NoZone /\ other.zone # NoZone
        /\ Utc(value.clock, value.zone) = Utc(other.clock, other.zone)
    BY <1>2 DEF IsEqual
  <2>2. value \in DateTimes /\ other \in DateTimes
    BY <2>1, KindOfValue, HeldType DEF PythonValues
  <2>3. CASE app.type \in InstantTypes
    <3>1. /\ value # Null /\ other # Null
          /\ app.type \notin {"Date", "Time", "ObjectArray"} \cup VectorTypes
      BY <2>1, <2>3, NullIsNone DEF InstantTypes, VectorTypes
    <3>2. ClockOf(value) = value.clock /\ ZoneOf(value) = value.zone
            /\ ClockOf(other) = other.clock /\ ZoneOf(other) = other.zone
      BY <2>1 DEF ClockOf, ZoneOf
    <3> QED
      BY <2>1, <2>3, <3>1, <3>2 DEF Meaning
  <2>4. CASE app.type \notin InstantTypes
    <3>1. value.zone = other.zone
      BY <2>1, <2>4 DEF KeepsDays, IsGiven
    <3>2. value.clock = other.clock
      BY <2>1, <2>2, <3>1 DEF Utc, DateTimes, Zones
    <3> QED
      BY <1>2, <2>2, <3>1, <3>2 DEF DateTimes
  <2> QED
    BY <2>3, <2>4
<1> QED
  BY <1>1, <1>2

\* The epoch is a value that is read as None.
LEMMA EpochIsHidden ==
    ASSUME NEW type \in ColumnTypes, NEW dynamic \in BOOLEAN,
           Epoch \in StoredValues(type, dynamic)
    PROVE  /\ Meaning(type, Read(type, Epoch)) = Null
           /\ StoredMeaning(type, Epoch) \in {[day |-> 0], [millis |-> 0]}
<1>1. Epoch.kind = "timestamp" /\ Epoch.millis = 0 /\ Epoch # Null
  BY NullIsNone DEF Epoch, Timestamp
<1>2. type \in DateTypes
  BY <1>1 DEF StoredValues, ColumnTypes, Lists, Vectors, Texts, TimeTexts
<1>3. Read(type, Epoch) = Null
  BY <1>2 DEF Read
<1>4. CASE type = "Date"
  <2>1. StoredMeaning(type, Epoch) = [day |-> DayOf(0)]
    BY <1>1, <1>4 DEF StoredMeaning, StoredDay, InstantTypes, VectorTypes
  <2>2. DayOf(0) = 0
    BY Multiples, UnitsAssumption DEF DayOf
  <2> QED
    BY <1>3, <2>1, <2>2 DEF Meaning
<1>5. CASE type \in InstantTypes
  <2>1. StoredMeaning(type, Epoch) = [millis |-> 0]
    BY <1>1, <1>5 DEF StoredMeaning, StoredMillis, InstantTypes, VectorTypes
  <2> QED
    BY <1>3, <2>1 DEF Meaning
<1> QED
  BY <1>2, <1>4, <1>5 DEF DateTypes

\* A step of one session changes no other's view.
OnlyAt(s) ==
    \A u \in Sessions : u # s =>
        status'[u] = status[u] /\ held'[u] = held[u] /\ committed'[u] = committed[u]

LEMMA StepsAreOwn ==
    ASSUME TypeOK, app' = app, NEW s \in Sessions, OnlyAt(s)
    PROVE  /\ Views'   = [Views   EXCEPT ![s] = View(s)']
           /\ Knowns'  = [Knowns  EXCEPT ![s] = Known(s)']
           /\ Changes' = [Changes EXCEPT ![s] = IsDirty(s)']
<1>1. \A u \in Sessions : u # s =>
        View(u)' = View(u) /\ Known(u)' = Known(u) /\ IsDirty(u)' = IsDirty(u)
  BY DEF OnlyAt, View, Known, IsDirty
<1>2. Views' = [u \in Sessions |-> View(u)'] /\ Knowns' = [u \in Sessions |-> Known(u)']
        /\ Changes' = [u \in Sessions |-> IsDirty(u)']
  BY DEF Views, Knowns, Changes
<1>3. Views' = [Views EXCEPT ![s] = View(s)']
  BY <1>1, <1>2 DEF Views
<1>4. Knowns' = [Knowns EXCEPT ![s] = Known(s)']
  BY <1>1, <1>2 DEF Knowns
<1>5. Changes' = [Changes EXCEPT ![s] = IsDirty(s)']
  BY <1>1, <1>2 DEF Changes
<1> QED
  BY <1>3, <1>4, <1>5

\* What the session's next commit leaves in the column is its view, if there are changes.
LEMMA StoreShows ==
    ASSUME TypeOK, HeldKeepInstants, KeepsInstants, app' = app, NEW s \in Sessions,
           status[s] # "expired", Store(s), Succeeds(s)
    PROVE  StoredMeaning(app.type, stored)'
             = IF Changes[s] THEN Views[s] ELSE StoredMeaning(app.type, stored)
<1>1. Views[s] = Meaning(app.type, held[s]) /\ Changes[s] = IsDirty(s)
  BY DEF Views, View, Changes
<1>2. CASE IsDirty(s)
  <2>1. held[s] \in HeldValues(app.type) /\ IsWritten(app.type, app.dynamic, held[s])
    BY <1>2 DEF TypeOK, Succeeds
  <2>2. KeepsInstant(app.type, app.dynamic, held[s])
    BY DEF HeldKeepInstants
  <2>3. StoredMeaning(app.type, stored') = Meaning(app.type, held[s])
    BY <1>2, <2>1, <2>2, ApplicationType, WrittenMeans DEF Store
  <2> QED
    BY <1>1, <1>2, <2>3
<1>3. CASE ~IsDirty(s)
  BY <1>1, <1>3 DEF Store
<1> QED
  BY <1>2, <1>3

LEMMA ExpireIsForget ==
    ASSUME TypeOK, app' = app, NEW s \in Sessions, Expire(s)
    PROVE  Promise!Forgets(s)
<1>1. OnlyAt(s) /\ status'[s] = "expired"
  BY DEF TypeOK, Expire, OnlyAt
<1>2. View(s)' = NotRead /\ Known(s)' = NotRead /\ IsDirty(s)' = FALSE
  BY <1>1 DEF View, Known, IsDirty
<1> QED
  BY <1>1, <1>2, StepsAreOwn DEF Promise!Forgets

LEMMA LoadIsFetch ==
    ASSUME TypeOK, app' = app, NEW s \in Sessions, Load(s), IsRead(app.type, stored)
    PROVE  Promise!Fetch(s)
<1> DEFINE seen == Meaning(app.type, Read(app.type, stored))
<1>1. OnlyAt(s) /\ status[s] = "expired" /\ status'[s] = "clean"
        /\ held'[s] = Read(app.type, stored) /\ stored' = stored
  BY DEF TypeOK, Load, OnlyAt
<1>2. /\ View(s) = NotRead /\ View(s)' = seen /\ Known(s)' = seen
      /\ IsDirty(s) = FALSE /\ IsDirty(s)' = FALSE
  BY <1>1 DEF View, Known, IsDirty
<1>3. Views' = [Views EXCEPT ![s] = seen] /\ Knowns' = [Knowns EXCEPT ![s] = seen]
  BY <1>1, <1>2, StepsAreOwn
<1>4. Changes' = Changes
  BY <1>1, <1>2, StepsAreOwn DEF Changes
<1>5. \/ seen = StoredMeaning(app.type, stored)
      \/ StoredMeaning(app.type, stored) \in {[day |-> 0], [millis |-> 0]} /\ seen = Null
  BY ApplicationType, ReadMeans, EpochIsHidden DEF TypeOK
<1>6. Views[s] = NotRead
  BY <1>2 DEF Views
<1> QED
  BY <1>1, <1>3, <1>4, <1>5, <1>6 DEF Promise!Fetch

LEMMA AssignIsChange ==
    ASSUME TypeOK, ZonesAreGiven, KeepsDays, app' = app, NEW s \in Sessions,
           NEW value \in app.values, Assign(s, value)
    PROVE  Promise!Change(s)
<1> DEFINE new == Coerced(value)
<1>1. OnlyAt(s) /\ held'[s] = new /\ stored' = stored
  BY DEF TypeOK, Assign, OnlyAt
<1>2. new \in HeldValues(app.type) /\ IsGiven(new)
  BY CoercedType DEF IsGiven
<1>3. /\ Views'   = [Views   EXCEPT ![s] = View(s)']
      /\ Knowns'  = [Knowns  EXCEPT ![s] = Known(s)']
      /\ Changes' = [Changes EXCEPT ![s] = IsDirty(s)']
  BY <1>1, StepsAreOwn
<1>4. Views'[s] = View(s)' /\ Knowns[s] = Known(s)
  BY DEF Views, Knowns
<1>5. Knowns = [Knowns EXCEPT ![s] = Known(s)]
  BY DEF Knowns
<1>6. status'[s] \in {"flagged", "replaced"} /\ Known(s)' = Known(s)
  <2>1. CASE status[s] = "clean"
    BY <2>1 DEF TypeOK, Assign, Known
  <2>2. CASE status[s] = "expired"
    BY <2>2 DEF TypeOK, Assign, Known
  <2>3. CASE status[s] \in {"flagged", "replaced"}
    BY <2>3 DEF TypeOK, Assign, Known
  <2> QED
    BY <2>1, <2>2, <2>3 DEF TypeOK, Status
<1>7. CASE IsDirty(s)'
  BY <1>1, <1>3, <1>4, <1>6, <1>7 DEF Promise!Change
<1>8. CASE ~IsDirty(s)'
  <2>1. status'[s] = "replaced" /\ IsEqual(new, committed'[s])
    BY <1>1, <1>6, <1>8 DEF IsDirty
  <2>2. committed'[s] \in HeldValues(app.type) /\ IsGiven(committed'[s])
    <3>1. committed'[s] \in {committed[s], held[s]}
      BY DEF TypeOK, Assign
    <3> QED
      BY <3>1 DEF TypeOK, ZonesAreGiven
  <2>3. Meaning(app.type, new) = Meaning(app.type, committed'[s])
    BY <1>2, <2>1, <2>2, EqualMeans
  <2>4. View(s)' = Known(s)'
    BY <1>1, <2>1, <2>3 DEF View, Known
  <2>5. IsDirty(s)' = FALSE
    BY <1>8 DEF IsDirty
  <2> QED
    BY <1>1, <1>3, <1>4, <1>5, <1>6, <2>4, <2>5 DEF Promise!Change
<1> QED
  BY <1>7, <1>8

LEMMA EditIsChange ==
    ASSUME TypeOK, app' = app, NEW s \in Sessions, Edit(s)
    PROVE  Promise!Change(s)
<1>1. /\ OnlyAt(s) /\ status'[s] = "flagged" /\ stored' = stored
  BY EditStepType DEF TypeOK, Edit, MarkModified, OnlyAt
<1>2. /\ Views'   = [Views   EXCEPT ![s] = View(s)']
      /\ Knowns'  = [Knowns  EXCEPT ![s] = Known(s)']
      /\ Changes' = [Changes EXCEPT ![s] = IsDirty(s)']
  BY <1>1, StepsAreOwn
<1>3. IsDirty(s)' = TRUE /\ Known(s)' = NotRead
  BY <1>1 DEF IsDirty, Known
<1>4. Views'[s] = View(s)'
  BY DEF Views
<1> QED
  BY <1>1, <1>2, <1>3, <1>4 DEF Promise!Change

LEMMA CommitIsCommit ==
    ASSUME TypeOK, HeldKeepInstants, KeepsInstants, app' = app, NEW s \in Sessions, Commit(s)
    PROVE  Promise!Commit(s)
<1>1. StoredMeaning(app.type, stored)'
        = IF Changes[s] THEN Views[s] ELSE StoredMeaning(app.type, stored)
  BY StoreShows DEF Commit
<1>2. CASE "keeps" \in app.habits
  <2>1. OnlyAt(s) /\ status'[s] = "clean" /\ held'[s] = held[s] /\ status[s] # "expired"
    BY <1>2 DEF TypeOK, Commit, OnlyAt
  <2>2. View(s)' = View(s) /\ Known(s)' = View(s) /\ IsDirty(s)' = FALSE
    BY <2>1 DEF View, Known, IsDirty
  <2>3. Views' = Views
    BY <2>1, <2>2, StepsAreOwn DEF Views
  <2>4. Views[s] = View(s)
    BY DEF Views
  <2>5. Promise!Keeps(s)
    BY <2>1, <2>2, <2>3, <2>4, StepsAreOwn DEF Promise!Keeps
  <2> QED
    BY <1>1, <2>5 DEF Promise!Commit
<1>3. CASE "keeps" \notin app.habits
  <2>1. Promise!Forgets(s)
    BY <1>3, ExpireIsForget DEF Commit
  <2> QED
    BY <1>1, <2>1 DEF Promise!Commit
<1> QED
  BY <1>2, <1>3

LEMMA CommitFailsIsFail ==
    ASSUME TypeOK, HeldKeepInstants, KeepsInstants, app' = app, NEW s \in Sessions,
           CommitFails(s)
    PROVE  Promise!Fail(s)
<1>1. IsDirty(s) /\ status[s] # "expired" /\ Changes[s]
  BY DEF CommitFails, IsDirty, Changes
<1>2. Promise!Forgets(s)
  BY ExpireIsForget DEF CommitFails
<1>3. (Store(s) /\ Succeeds(s)) \/ stored' = stored
  BY DEF CommitFails
<1>4. StoredMeaning(app.type, stored)' \in {StoredMeaning(app.type, stored), Views[s]}
  BY <1>1, <1>3, StoreShows
<1> QED
  BY <1>1, <1>2, <1>4 DEF Promise!Fail

\* Every step of the column is one of the promise, or changes nothing that it speaks of.
LEMMA PromiseStep ==
    ASSUME TypeOK, HeldKeepInstants, ZonesAreGiven, KeepsValues, [Next]_vars
    PROVE  [Promise!Next]_(Promise!vars)
<1> DEFINE Given == {StoredMeaning(app.type, value) : value \in app.others}
<1>0. KeepsInstants /\ KeepsDays /\ "mutates" \notin app.habits /\ app.sessions \subseteq Sessions
  BY ApplicationType DEF KeepsValues
<1>1. CASE UNCHANGED vars
  <2>1. Views' = Views /\ Knowns' = Knowns /\ Changes' = Changes
    BY <1>1 DEF vars, attribute, Views, Knowns, Changes, View, Known, IsDirty
  <2> QED
    BY <1>1, <2>1 DEF vars, Promise!vars
<1>2. CASE Next
  <2>0. app' = app /\ Given' = Given
    BY <1>2 DEF Next
  <2>1. ASSUME NEW s \in Sessions, Load(s)
        PROVE  [Promise!Next]_(Promise!vars)
    <3>1. CASE IsRead(app.type, stored)
      BY <2>0, <2>1, <3>1, LoadIsFetch DEF Promise!Next
    <3>2. CASE ~IsRead(app.type, stored)
      <4>1. UNCHANGED <<app, stored, status, held, committed>>
        BY <2>0, <2>1, <3>2 DEF Load
      <4>2. Views' = Views /\ Knowns' = Knowns /\ Changes' = Changes
        BY <4>1 DEF Views, Knowns, Changes, View, Known, IsDirty
      <4> QED
        BY <2>0, <4>1, <4>2 DEF Promise!vars
    <3> QED
      BY <3>1, <3>2
  <2>2. ASSUME NEW s \in Sessions, NEW value \in app.values, Assign(s, value)
        PROVE  Promise!Next
    BY <1>0, <2>0, <2>2, AssignIsChange DEF Promise!Next
  <2>3. ASSUME NEW s \in Sessions, Edit(s)
        PROVE  Promise!Next
    BY <2>0, <2>3, EditIsChange DEF Promise!Next
  <2>4. ASSUME NEW s \in Sessions, Mutate(s)
        PROVE  FALSE
    BY <1>0, <2>4 DEF Mutate
  <2>5. ASSUME NEW s \in Sessions, Commit(s)
        PROVE  Promise!Next
    BY <1>0, <2>0, <2>5, CommitIsCommit DEF Promise!Next
  <2>6. ASSUME NEW s \in Sessions, CommitFails(s)
        PROVE  Promise!Next
    BY <1>0, <2>0, <2>6, CommitFailsIsFail DEF Promise!Next
  <2>7. ASSUME NEW s \in Sessions, Rollback(s)
        PROVE  Promise!Next
    BY <2>0, <2>7, ExpireIsForget DEF Rollback, Promise!Rollback, Promise!Next
  <2>8. ASSUME NEW value \in app.others, Elsewhere(value)
        PROVE  Promise!Next
    <3>1. Views' = Views /\ Knowns' = Knowns /\ Changes' = Changes
      BY <2>0, <2>8 DEF Elsewhere, attribute, Views, Knowns, Changes, View, Known, IsDirty
    <3>2. StoredMeaning(app.type, stored)' \in Given
      BY <2>0, <2>8 DEF Elsewhere
    <3> QED
      BY <2>0, <3>1, <3>2 DEF Promise!Elsewhere, Promise!Next
  <2> QED
    BY <1>0, <1>2, <2>1, <2>2, <2>3, <2>4, <2>5, <2>6, <2>7, <2>8 DEF Next
<1> QED
  BY <1>1, <1>2

\* Whatever the sessions and other clients do, a column of any type keeps the promise of
\* SharedColumn (the processors, MutableList and SQLAlchemy's comparison).
THEOREM PromiseIsKept == Spec => ImplementsSharedColumn
<1>1. Init => ZonesAreGiven
  BY NullIsNone DEF Init, ZonesAreGiven, IsGiven
<1>2. TypeOK /\ ZonesAreGiven /\ [Next]_vars => ZonesAreGiven'
  <2>1. ASSUME ZonesAreGiven, UNCHANGED vars
        PROVE  ZonesAreGiven'
    BY <2>1 DEF vars, attribute, ZonesAreGiven, IsGiven
  <2> QED
    BY <2>1, ZonesStep
<1>3. Init => (KeepsValues => Promise!Init)
  <2> SUFFICES ASSUME Init
               PROVE  Promise!Init
    OBVIOUS
  <2>1. Views = [s \in Sessions |-> NotRead] /\ Knowns = [s \in Sessions |-> NotRead]
    BY DEF Init, Views, View, Knowns, Known
  <2>2. Changes = [s \in Sessions |-> FALSE]
    BY DEF Init, Changes, IsDirty
  <2>3. StoredMeaning(app.type, stored) = Null
    BY DEF Init, StoredMeaning
  <2> QED
    BY <2>1, <2>2, <2>3 DEF Promise!Init
<1>4. TypeOK /\ (HeldKeepInstants /\ WritesAreTrue) /\ ZonesAreGiven /\ [Next]_vars
        => [KeepsValues => [Promise!Next]_(Promise!vars)]_vars
  BY PromiseStep
<1> QED
  BY <1>1, <1>2, <1>3, <1>4, TypeCorrect, MeaningsKept, PTL DEF Spec, ImplementsSharedColumn
=============================================================================
