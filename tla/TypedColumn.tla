---------------------------- MODULE TypedColumn -----------------------------
(***************************************************************************)
(* One column of one row, of a type with processors of its own or of the   *)
(* type ObjectArray, whose lists report their changes (type/array.py), in  *)
(* several ORM sessions next to other clients.                             *)
(*                                                                         *)
(* SQLAlchemy's unit of work leaves an attribute out of the UPDATE if it   *)
(* does not know of a change, or if the value is equal to the one before.  *)
(* CrateDB commits every statement on its own.                             *)
(***************************************************************************)
EXTENDS TypedValues, SequencesExt

CONSTANTS
    Sessions,
    Applications,  \* the applications that are looked at
    MaxLength      \* bound: the length of lists

Habits ==
    {"keeps",    \* its sessions have `expire_on_commit=False`
     "mutates"}  \* it changes lists by methods that MutableList does not override

\* An application has sessions, a column of a type, declared in CREATE TABLE or dynamic, values
\* that it assigns, others that other clients store, and habits.  Lists are given lists, or what
\* will be the only item of one; vectors are given numbers and other values that `to_db` does not
\* look into, but numbers only where the first INSERT decides on the type.
ASSUME ApplicationsAssumption == \A a \in Applications :
    /\ a.sessions \subseteq Sessions
    /\ a.type \in ColumnTypes /\ a.dynamic \in BOOLEAN
    /\ a.values \subseteq PythonValues
    /\ a.type = "ObjectArray" => a.values \subseteq {Null} \cup Lists \cup Scalars
    /\ a.type \in VectorTypes =>
          a.values \subseteq IF a.dynamic THEN NumberValues ELSE VectorValues
    /\ a.others \subseteq StoredValues(a.type, a.dynamic)
    /\ a.habits \subseteq Habits

VARIABLES
    app,        \* the application; it never changes
    stored,     \* the column in CrateDB
    status,     \* status[s]: what the session knows about its attribute
    held,       \* held[s]: the attribute's value
    committed,  \* the value it replaced
    outcome,    \* of the last operation
    meant       \* history: what the value means that was stored last

attribute == <<status, held, committed>>
vars == <<app, stored, attribute, outcome, meant>>

Status ==
    {"expired",   \* not there; it is read when it is asked for
     "clean",     \* not modified
     "flagged",   \* modified, no previous value known
     "replaced"}  \* assigned, the previous value is known

Init ==
    /\ app       \in Applications
    /\ stored    = Null
    /\ status    = [s \in Sessions |-> "expired"]
    /\ held      = [s \in Sessions |-> Null]
    /\ committed = [s \in Sessions |-> Null]
    /\ outcome   = "done"
    /\ meant     = Null

-----------------------------------------------------------------------------
(* Reading and assigning.                                                  *)

\* The row is fetched; the result processor may raise.
Load(s) ==
    /\ status[s] = "expired"
    /\ IF IsRead(app.type, stored)
       THEN /\ status' = [status EXCEPT ![s] = "clean"]
            /\ held' = [held EXCEPT ![s] = Read(app.type, stored)]
            /\ outcome' = "done"
       ELSE /\ UNCHANGED <<status, held>>
            /\ outcome' = "unreadable"
    /\ UNCHANGED <<stored, committed, meant>>

\* Faulty variant: only lists are looked at.
CoercedNever(value) == value

\* `MutableList.coerce`.
Coerced(value) ==
    IF app.type = "ObjectArray" /\ value.kind = "scalar"
    THEN [kind |-> "list", items |-> <<value.item>>]
    ELSE value

\* `row.column = value`: the value before is kept if it was there and not modified.
Assign(s, value) ==
    /\ held' = [held EXCEPT ![s] = Coerced(value)]
    /\ CASE status[s] = "clean" ->
               /\ status' = [status EXCEPT ![s] = "replaced"]
               /\ committed' = [committed EXCEPT ![s] = held[s]]
         [] status[s] = "expired" ->
               /\ status' = [status EXCEPT ![s] = "flagged"]
               /\ UNCHANGED committed
         [] OTHER -> UNCHANGED <<status, committed>>
    /\ outcome' = "done"
    /\ UNCHANGED <<stored, meant>>

\* Lists that one call makes of another.
Shortened(items) == {RemoveAt(items, i) : i \in DOMAIN items}
Extended(items)  == {InsertAt(items, i, x) : i \in 1..Len(items) + 1, x \in Items}
Replaced(items)  == {[items EXCEPT ![i] = x] : i \in DOMAIN items, x \in Items}

IsList(s) ==
    /\ app.type = "ObjectArray"
    /\ status[s] # "expired"
    /\ held[s] # Null

EditTo(s, items) ==
    /\ Len(items) <= MaxLength
    /\ held' = [held EXCEPT ![s].items = items]
    /\ outcome' = "done"
    /\ UNCHANGED <<stored, meant>>

\* `Mutable.changed()`.
MarkModified(s) ==
    /\ status' = [status EXCEPT ![s] = "flagged"]
    /\ committed' = [committed EXCEPT ![s] = Null]

\* Faulty variant: the list does not call `changed()`.
EditUnnoticed(s) ==
    /\ IsList(s)
    /\ \E items \in Shortened(held[s].items) \cup Extended(held[s].items)
                        \cup Replaced(held[s].items) : EditTo(s, items)
    /\ UNCHANGED <<status, committed>>

\* `__setitem__`, `append`, `insert`, `extend` by an item, `pop` and `remove`.
Edit(s) ==
    /\ IsList(s)
    /\ \E items \in Shortened(held[s].items) \cup Extended(held[s].items)
                        \cup Replaced(held[s].items) : EditTo(s, items)
    /\ MarkModified(s)

\* `del`, `clear`, `reverse`, `sort`, `+=`: list's own.
Mutate(s) ==
    /\ "mutates" \in app.habits
    /\ IsList(s)
    /\ \E items \in {<<>>, Reverse(held[s].items)} \cup Shortened(held[s].items)
                        \cup {Append(held[s].items, x) : x \in Items} : EditTo(s, items)
    /\ UNCHANGED <<status, committed>>

-----------------------------------------------------------------------------
(* The unit of work.                                                       *)

IsDirty(s) ==
    \/ status[s] = "flagged"
    \/ status[s] = "replaced" /\ ~IsEqual(held[s], committed[s])

\* The attribute is dropped, and read when it is asked for.
Expire(s) ==
    /\ status' = [status EXCEPT ![s] = "expired"]
    /\ held' = [held EXCEPT ![s] = Null]
    /\ committed' = [committed EXCEPT ![s] = Null]

\* The UPDATE stores what is held.
Store(s) ==
    IF IsDirty(s)
    THEN /\ stored' = Written(app.type, app.dynamic, held[s])
         /\ meant' = Meaning(app.type, held[s])
    ELSE UNCHANGED <<stored, meant>>

Succeeds(s) == IsDirty(s) => IsWritten(app.type, app.dynamic, held[s])

\* `session.commit()`.
Commit(s) ==
    /\ status[s] # "expired"
    /\ Succeeds(s)
    /\ Store(s)
    /\ IF "keeps" \in app.habits
       THEN /\ status' = [status EXCEPT ![s] = "clean"]
            /\ committed' = [committed EXCEPT ![s] = Null]
            /\ UNCHANGED held
       ELSE Expire(s)
    /\ outcome' = "done"

\* The bind processor raises, CrateDB does not take the parameter, or the reply is lost: the
\* session rolls back, CrateDB does not.
CommitFails(s) ==
    /\ IsDirty(s)
    /\ Expire(s)
    /\ IF Succeeds(s)
       THEN outcome' = "lost" /\ (Store(s) \/ UNCHANGED <<stored, meant>>)
       ELSE /\ outcome' = IF IsBound(app.type, held[s]) THEN "rejected" ELSE "refused"
            /\ UNCHANGED <<stored, meant>>

\* `session.rollback()`, expire and refresh.
Rollback(s) ==
    /\ status[s] # "expired"
    /\ Expire(s)
    /\ outcome' = "done"
    /\ UNCHANGED <<stored, meant>>

\* Another client writes the column.
Elsewhere(value) ==
    /\ stored' = value
    /\ meant' = StoredMeaning(app.type, value)
    /\ outcome' = "done"
    /\ UNCHANGED attribute

Next ==
    /\ \/ \E s \in app.sessions :
            \/ Load(s)
            \/ \E value \in app.values : Assign(s, value)
            \/ Edit(s)
            \/ Mutate(s)
            \/ Commit(s)
            \/ CommitFails(s)
            \/ Rollback(s)
       \/ \E value \in app.others : Elsewhere(value)
    /\ UNCHANGED app

Spec == Init /\ [][Next]_vars

-----------------------------------------------------------------------------
(* Properties.                                                             *)

\* Every variable keeps its type: the attribute of an ObjectArray holds a list or None, and a
\* column that was declared has no value of another type.
TypeOK ==
    /\ app       \in Applications
    /\ stored    \in StoredValues(app.type, app.dynamic)
    /\ status    \in [Sessions -> Status]
    /\ held      \in [Sessions -> HeldValues(app.type)]
    /\ committed \in [Sessions -> HeldValues(app.type)]
    /\ outcome   \in {"done", "unreadable", "lost", "refused", "rejected"}

\* Values with a zone are kept away from a column without one.
KeepsInstants ==
    \A value \in app.values : KeepsInstant(app.type, app.dynamic, value)

\* What is stored means what was assigned, whoever stored it and whatever replies were lost:
\* the same day, the same instant to the millisecond, the same items (bind processors).
WritesAreTrue ==
    KeepsInstants => StoredMeaning(app.type, stored) = meant

\* What is read means what was written, unless it is the epoch (result processors).
ReadsAreTrue ==
    [][KeepsInstants =>
        \A s \in Sessions :
            status[s] = "expired" /\ status'[s] = "clean" /\ stored # Epoch =>
                Meaning(app.type, held'[s]) = meant]_vars

\* The session is alone with the row and changes lists only by what MutableList overrides.  If it
\* keeps its values, it keeps instants of one zone: two that are equal are no change to
\* SQLAlchemy, though a column may show their wall clocks.
Alone(s) ==
    /\ app.sessions = {s} /\ app.others = {}
    /\ "mutates" \notin app.habits
    /\ KeepsInstants
    /\ "keeps" \in app.habits =>
          \A value \in app.values : value.kind = "datetime" => value.zone \in {NoZone, 0}

\* What such a session holds without a change that SQLAlchemy would write means what is stored,
\* whatever it assigned, edited, assigned back, committed and failed to commit before
\* (MutableList); unless that is the epoch, which is read as None.
NoChangeIsLost ==
    \A s \in Sessions :
        Alone(s) /\ status[s] # "expired" /\ ~IsDirty(s) /\ stored # Epoch =>
            Meaning(app.type, held[s]) = StoredMeaning(app.type, stored)

\* The column, the views of the sessions and what they know as SharedColumn has them.
NotRead == [kind |-> "unread"]

View(s)  == IF status[s] = "expired" THEN NotRead ELSE Meaning(app.type, held[s])
Known(s) ==
    CASE status[s] = "clean"    -> Meaning(app.type, held[s])
      [] status[s] = "replaced" -> Meaning(app.type, committed[s])
      [] OTHER                  -> NotRead

Views   == [s \in Sessions |-> View(s)]
Knowns  == [s \in Sessions |-> Known(s)]
Changes == [s \in Sessions |-> IsDirty(s)]

Promise == INSTANCE SharedColumn WITH
    Nothing <- Null,
    Hidden  <- {[day |-> 0], [millis |-> 0]},
    Unknown <- NotRead,
    column  <- StoredMeaning(app.type, stored),
    view    <- Views,
    known   <- Knowns,
    pending <- Changes,
    others  <- {StoredMeaning(app.type, value) : value \in app.others}

\* Two instants that are equal are of one day or no day is stored: days are those of wall clocks.
KeepsDays ==
    \/ app.type \in InstantTypes
    \/ \A value, other \in app.values :
        value.kind = "datetime" /\ other.kind = "datetime" =>
            NoZone \in {value.zone, other.zone} \/ value.zone = other.zone

\* Values that a column tells apart are not equal to Python, and changes are reported.
KeepsValues == KeepsInstants /\ KeepsDays /\ "mutates" \notin app.habits

\* The processors, MutableList and SQLAlchemy's comparisons together implement the promise,
\* SharedColumn, for any number of sessions that fail, roll back, keep or expire their values, next
\* to other clients: a session sees what it read or assigned, stores what it sees if it was
\* changed, and leaves the column alone if it was not.
ImplementsSharedColumn ==
    /\ KeepsValues => Promise!Init
    /\ [][KeepsValues => [Promise!Next]_(Promise!vars)]_vars

\* Whatever this dialect wrote it can read, except a DateTime in a column that was not declared;
\* and whatever others wrote if the column was declared, except a Time, which is a text to them.
IsReadable ==
    outcome = "unreadable" =>
        \/ app.dynamic /\ app.type \in InstantTypes
        \/ app.dynamic /\ app.type = "Date" /\ app.others # {}
        \/ app.type = "Time" /\ app.others # {}

\* What the dialect accepts for a date or a time is never rejected by CrateDB, and neither are the
\* lists and arrays of numbers that `to_db` accepts for a vector whose dimensions are declared,
\* wherever the value was before.  Values that are no numbers may be rejected: `to_db` passes them
\* on if their length is right (tests/vector_test.py).
NumbersAreAccepted ==
    outcome = "rejected" =>
        /\ app.type \notin {"Date", "Time"}
        /\ app.type = "FloatVector(n)" => ~(app.values \subseteq NumberValues)
=============================================================================
