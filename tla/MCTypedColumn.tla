--------------------------- MODULE MCTypedColumn ---------------------------
(* Instances of TypedColumn for TLC.                                       *)
EXTENDS TypedColumn

CONSTANTS s1, s2, NaiveZone

TwoSessions == {s1, s2}

\* 1 is no 32 bit float.
Numbers == 0..2
Rounded == [i \in Numbers |-> IF i = 1 THEN 0 ELSE i]

\* Two microseconds make a millisecond, and two milliseconds a day.
Clocks == -3..5

Date(day)             == [kind |-> "date", day |-> day]
DateTime(clock, zone) == [kind |-> "datetime", clock |-> clock, zone |-> zone]
List(items)           == [kind |-> "list", items |-> items]
NumpyArray(items, numeric, flat) ==
    [kind |-> "ndarray", items |-> items, numeric |-> numeric, flat |-> flat]

App(type, values) ==
    [sessions |-> {s1}, type |-> type, dynamic |-> FALSE, values |-> values \cup {Null},
     others |-> {}, habits |-> {}]

Days   == {Date(day) : day \in -1..1}
Naive  == {DateTime(clock, NaiveZone) : clock \in Clocks}
Zoned  == {DateTime(clock, zone) : clock \in {-1, 2, 4}, zone \in {-2, 0, 1}}
Parsed == {Text("Z", clock, 0) : clock \in {3, 4}}

Lists2   == {List(<<>>), List(<<0>>), List(<<1, 0>>)}
Vectors2 == {List(<<0>>), List(<<1, 0>>)}
                \cup {NumpyArray(items, TRUE, TRUE) : items \in {<<1, 2>>, <<0>>}}
                \cup {NumpyArray(<<1, 0>>, numeric, ~numeric) : numeric \in BOOLEAN}

\* What `to_db` does not look into: a number, and strings or lists of strings.
Others2  == {[kind |-> "scalar", item |-> 1]} \cup {[kind |-> "sized", length |-> n] : n \in {1, 2}}

\* Each type with the values it is for, and with those it is not for.
Typed ==
    {App("Date", Days \cup Naive \cup Zoned \cup Parsed)}
    \cup {App(type, {Date(1), Date(-1)} \cup Naive \cup Zoned \cup Parsed)
            : type \in DateTypes \ {"Date"}}
    \cup {App("DateTime", Days \cup Naive)}
    \cup {App("Time", {[kind |-> "time", clock |-> clock] : clock \in 0..3} \cup Parsed)}
    \cup {App("ObjectArray", Lists2 \cup {[kind |-> "scalar", item |-> 1]})}
    \cup {App(type, Vectors2 \cup others) : type \in VectorTypes, others \in {{}, Others2}}

\* The same in columns that were not declared, in sessions that keep their values, in
\* two sessions, and next to other clients.
Various ==
    Typed
    \cup {[a EXCEPT !.dynamic = TRUE] : a \in {b \in Typed : b.type \in DateTypes}}
    \cup {[a EXCEPT !.habits = {"keeps"}] : a \in Typed}
    \cup {[App("ObjectArray", {List(<<0>>)}) EXCEPT !.habits = h, !.sessions = TwoSessions]
            : h \in {{}, Habits}}
    \cup {[App(type, Days \cup {DateTime(3, NaiveZone)})
            EXCEPT !.others = {Timestamp(millis) : millis \in -3..3}, !.sessions = TwoSessions]
            : type \in {"Date", "DateTime"}}
    \cup {[App(type, Days) EXCEPT !.dynamic = TRUE,
              !.others = {Text("Z", 3, 0), Text("offset", 3, 1), Text("day", 4, NaiveZone)}]
            : type \in {"Date", "DateTime"}}
    \cup {[App("Time", {[kind |-> "time", clock |-> 3]}) EXCEPT
              !.others = {Text("Z", 3, 0), Text("time", 2, NaiveZone)}]}
=============================================================================
