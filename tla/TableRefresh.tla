---------------------------- MODULE TableRefresh ----------------------------
(***************************************************************************)
(* The event handlers that make CrateDB look like a database with          *)
(* immediate consistency and unique columns: `refresh_after_dml` and       *)
(* `check_uniqueness_factory` (support/polyfill.py), `refresh_table` and   *)
(* `refresh_dirty` (support/util.py).                                      *)
(*                                                                         *)
(* CrateDB stores a row at once and shows it to searches after the next    *)
(* refresh of its table.  Several sessions flush: their units of work call *)
(* the check before the inserts of a class, write one row of one table at  *)
(* a time, and the handlers send REFRESH TABLE in between or at the end.   *)
(***************************************************************************)
CONSTANTS
    Sessions,
    Nobody,    \* no session answers for the row
    Rows,      \* entities, by their primary keys
    Values,    \* what the unique attributes of a row may hold
    NoRow,     \* there is no such row
    Tables,
    Classes,
    ClassOf,   \* ClassOf[r]: the mapped class of row r
    Mapped,    \* Mapped[c]: the tables that hold a row of class c, its parents' included
    Named,     \* Named[c]: the table that a statement reaches by `__tablename__` alone
    Checked,   \* the classes that have the uniqueness check
    Applications  \* the applications that are looked at

Habits ==
    {"overlap",  \* sessions flush at the same time
     "batches",  \* several rows are added in one flush
     "updates",  \* rows are changed, not only added and deleted
     "bulk",     \* INSERT, UPDATE and DELETE are executed outside of the unit of work
     "raw",      \* rows are written by text or by insert_bulk
     "failure"}  \* statements raise, applied or not

\* What `refresh_after_dml` was given, the rows the application uses, the values it gives
\* them, and what it does and what may go wrong.
Application ==
    [listener : {"engine", "session"}, rows : SUBSET Rows, values : SUBSET Values,
     habits : SUBSET Habits]

ASSUME MappingAssumption ==
    /\ ClassOf \in [Rows -> Classes]
    /\ Mapped  \in [Classes -> (SUBSET Tables) \ {{}}]
    /\ Named   \in [Classes -> Tables]
    /\ Checked \subseteq Classes
ASSUME SentinelsAssumption == NoRow \notin Values /\ Nobody \notin Sessions
ASSUME ApplicationsAssumption == Applications \subseteq Application

VARIABLES
    app,         \* the application; it never changes
    stored,      \* stored[t][r]: row r of table t
    visible,     \* what a search of the table finds
    phase,       \* where the session is
    work,        \* work[s][r]: what the unit of work has in `new`, `dirty`, `deleted`
    unchecked,   \* the rows whose check has not run
    todo,        \* the statements that have not been executed
    refreshing,  \* the tables a handler is about to refresh
    writer       \* history: the session that wrote the row last, under the eyes of a
                 \* handler, and has not failed since

sessionVars == <<phase, work, unchecked, todo, refreshing>>
vars == <<app, stored, visible, sessionVars, writer>>

NoWork == [kind |-> "none", value |-> NoRow]
Work ==
    {NoWork} \cup [kind : {"new", "dirty"}, value : Values]
             \cup {[kind |-> "deleted", value |-> NoRow]}
Phases == {"idle",      \* no flush is under way
           "flushing",  \* checks and statements
           "flushed"}   \* all statements were executed; `after_flush`
Content == [Tables -> [Rows -> Values \cup {NoRow}]]

\* Every variable keeps its type.
TypeOK ==
    /\ app        \in Application
    /\ stored     \in Content
    /\ visible    \in Content
    /\ phase      \in [Sessions -> Phases]
    /\ work       \in [Sessions -> [Rows -> Work]]
    /\ unchecked  \in [Sessions -> SUBSET Rows]
    /\ todo       \in [Sessions -> SUBSET (Rows \X Tables)]
    /\ refreshing \in [Sessions -> SUBSET Tables]
    /\ writer     \in [Tables -> [Rows -> Sessions \cup {Nobody}]]

Init ==
    /\ app        \in Applications
    /\ stored     = [t \in Tables |-> [r \in Rows |-> NoRow]]
    /\ visible    = stored
    /\ phase      = [s \in Sessions |-> "idle"]
    /\ work       = [s \in Sessions |-> [r \in Rows |-> NoWork]]
    /\ unchecked  = [s \in Sessions |-> {}]
    /\ todo       = [s \in Sessions |-> {}]
    /\ refreshing = [s \in Sessions |-> {}]
    /\ writer     = [t \in Tables |-> [r \in Rows |-> Nobody]]

-----------------------------------------------------------------------------
(* What the application may do.                                            *)

Exists(r) == \E t \in Tables : stored[t][r] # NoRow

NewRows(w) == {r \in Rows : w[r].kind = "new"}
Touched(w) == {r \in Rows : w[r] # NoWork}

\* New rows have new primary keys, and others are rows there are.
MayFlush(w) ==
    /\ Touched(w) # {} /\ Touched(w) \subseteq app.rows
    /\ \A r \in Rows : w[r].value \in app.values \cup {NoRow}
    /\ "batches" \in app.habits \/ \A q, r \in NewRows(w) : q = r
    /\ "updates" \in app.habits \/ \A r \in Rows : w[r].kind # "dirty"
    /\ \A r \in NewRows(w) : ~Exists(r) /\ \A s \in Sessions : work[s][r] = NoWork
    /\ \A r \in Touched(w) \ NewRows(w) : Exists(r)

MayStart(s) ==
    /\ phase[s] = "idle"
    /\ "overlap" \in app.habits \/ \A u \in Sessions : phase[u] = "idle"

-----------------------------------------------------------------------------
(* A flush of the unit of work.                                            *)

\* `session.flush()` with the changes that have gathered.
BeginFlush(s, w) ==
    /\ MayStart(s)
    /\ MayFlush(w)
    /\ phase'     = [phase EXCEPT ![s] = "flushing"]
    /\ work'      = [work EXCEPT ![s] = w]
    /\ unchecked' = [unchecked EXCEPT ![s] = {r \in NewRows(w) : ClassOf[r] \in Checked}]
    /\ todo'      = [todo EXCEPT ![s] =
                        {rt \in Touched(w) \X Tables : rt[2] \in Mapped[ClassOf[rt[1]]]}]
    /\ UNCHANGED <<stored, visible, refreshing, writer>>

\* The session is idle again and its unit of work empty.
Clear(s) ==
    /\ phase'      = [phase EXCEPT ![s] = "idle"]
    /\ work'       = [work EXCEPT ![s] = [r \in Rows |-> NoWork]]
    /\ unchecked'  = [unchecked EXCEPT ![s] = {}]
    /\ todo'       = [todo EXCEPT ![s] = {}]
    /\ refreshing' = [refreshing EXCEPT ![s] = {}]

\* An exception leaves the flush: what was written stays written, with the writes in
\* `lost` among them, and nobody answers for it.
AbortAfter(s, lost) ==
    /\ Clear(s)
    /\ stored' = [t \in Tables |-> [r \in Rows |->
                     IF <<r, t>> \in lost THEN work[s][r].value ELSE stored[t][r]]]
    /\ writer' = [t \in Tables |-> [r \in Rows |->
                     IF writer[t][r] = s \/ <<r, t>> \in lost THEN Nobody ELSE writer[t][r]]]

Abort(s) == AbortAfter(s, {})

\* Faulty variant: more than one row has to be found.
TakenTwice(c, v) ==
    \E p, q \in Rows : p # q /\ \A t \in Mapped[c] : visible[t][p] = v /\ visible[t][q] = v

\* A search of the class finds a row with the same values.
Taken(c, v) == \E q \in Rows : \A t \in Mapped[c] : visible[t][q] = v

\* `check_uniqueness`, before the rows of the class are inserted.
Check(s, r) ==
    /\ r \in unchecked[s]
    /\ refreshing[s] = {}
    /\ IF Taken(ClassOf[r], work[s][r].value)
       THEN Abort(s)
       ELSE /\ unchecked' = [unchecked EXCEPT ![s] = @ \ {r}]
            /\ UNCHANGED <<stored, phase, work, todo, refreshing, writer>>
    /\ UNCHANGED visible

\* A row is stored; it is visible after the next refresh.
Store(s, t, r, v) ==
    /\ stored' = [stored EXCEPT ![t][r] = v]
    /\ writer' = [writer EXCEPT ![t][r] = s]

\* Faulty variant: only INSERT statements are looked at.
HandlerTablesOfInsert(t, kind) == IF app.listener = "engine" /\ kind = "new" THEN {t} ELSE {}

\* `receive_after_execute`: the table of the statement, with its schema.  A statement whose
\* target is a Join, which is left alone, is none of a single table and not modelled.
HandlerTables(t, kind) == IF app.listener = "engine" THEN {t} ELSE {}

\* The statement may be next: the classes that share its tables have been checked, and
\* no refresh is outstanding.
IsNext(s, r, t) ==
    /\ <<r, t>> \in todo[s]
    /\ refreshing[s] = {}
    /\ \A q \in unchecked[s] : Mapped[ClassOf[q]] \cap Mapped[ClassOf[r]] = {}

\* Whether there is a row to be changed or deleted.
IsMatched(s, r, t) == work[s][r].kind = "new" \/ stored[t][r] # NoRow

\* One INSERT, UPDATE or DELETE.
Write(s, r, t) ==
    /\ IsNext(s, r, t)
    /\ IsMatched(s, r, t)
    /\ Store(s, t, r, work[s][r].value)
    /\ todo'       = [todo EXCEPT ![s] = @ \ {<<r, t>>}]
    /\ refreshing' = [refreshing EXCEPT ![s] = HandlerTables(t, work[s][r].kind)]
    /\ UNCHANGED <<visible, phase, work, unchecked>>

\* The row is gone: SQLAlchemy misses it in the row count and raises.
WriteMisses(s, r, t) ==
    /\ IsNext(s, r, t)
    /\ ~IsMatched(s, r, t)
    /\ Abort(s)
    /\ UNCHANGED visible

\* Faulty variants: deleted entities are not among the dirty ones, and the class is
\* handed on in the place of its table.
DirtyTablesWithoutDeleted(w) ==
    {Named[ClassOf[r]] : r \in {q \in Rows : w[q].kind \in {"new", "dirty"}}}
DirtyClasses(w) == {ClassOf[r] : r \in Touched(w)}

\* `refresh_dirty`: one table for each class in `new`, `dirty` and `deleted`.
DirtyTables(w) == {Named[ClassOf[r]] : r \in Touched(w)}

\* All statements were executed; `after_flush` runs its handler.
AfterFlush(s) ==
    /\ phase[s] = "flushing"
    /\ todo[s] = {} /\ unchecked[s] = {} /\ refreshing[s] = {}
    /\ phase'      = [phase EXCEPT ![s] = "flushed"]
    /\ refreshing' = [refreshing EXCEPT ![s] =
                         IF app.listener = "session" THEN DirtyTables(work[s]) ELSE {}]
    /\ UNCHANGED <<stored, visible, work, unchecked, todo, writer>>

\* `refresh_table`.
Refresh(s, t) ==
    /\ t \in refreshing[s]
    /\ visible'    = [visible EXCEPT ![t] = stored[t]]
    /\ refreshing' = [refreshing EXCEPT ![s] = @ \ {t}]
    /\ UNCHANGED <<stored, phase, work, unchecked, todo, writer>>

\* The flush, or the statement, returns.
Finish(s) ==
    /\ phase[s] = "flushed"
    /\ refreshing[s] = {}
    /\ Clear(s)
    /\ UNCHANGED <<stored, visible, writer>>

-----------------------------------------------------------------------------
(* Other writes, failures and CrateDB's own refresh.                       *)

\* What a statement that leaves v in the place of `old` is.
KindOf(old, v) == IF v = NoRow THEN "deleted" ELSE IF old = NoRow THEN "new" ELSE "dirty"

\* A statement that is not part of a flush: no `after_flush` follows.
Execute(s, r, t, v) ==
    /\ "bulk" \in app.habits
    /\ MayStart(s)
    /\ r \in app.rows /\ t \in Mapped[ClassOf[r]]
    /\ v \in (app.values \cup {NoRow}) \ {stored[t][r]}
    /\ Store(IF app.listener = "engine" THEN s ELSE Nobody, t, r, v)
    /\ phase'      = [phase EXCEPT ![s] = "flushed"]
    /\ refreshing' = [refreshing EXCEPT ![s] = HandlerTables(t, KindOf(stored[t][r], v))]
    /\ UNCHANGED <<visible, work, unchecked, todo>>

\* A statement that no handler looks at: text, or insert_bulk's own cursor.
WriteRaw(r, t, v) ==
    /\ "raw" \in app.habits
    /\ r \in app.rows /\ t \in Mapped[ClassOf[r]]
    /\ v \in (app.values \cup {NoRow}) \ {stored[t][r]}
    /\ Store(Nobody, t, r, v)
    /\ UNCHANGED <<visible, sessionVars>>

\* The statement in hand raises; when it is a write it may have been applied.
Fail(s) ==
    /\ "failure" \in app.habits
    /\ phase[s] # "idle"
    /\ \/ Abort(s)
       \/ \E r \in Rows, t \in Tables :
            /\ IsNext(s, r, t) /\ IsMatched(s, r, t)
            /\ AbortAfter(s, {<<r, t>>})
    /\ UNCHANGED visible

\* CrateDB refreshes a table of its own accord, now and then.
RefreshAnyway(t) ==
    /\ visible' = [visible EXCEPT ![t] = stored[t]]
    /\ UNCHANGED <<stored, sessionVars, writer>>

\* The steps that a flush takes once it has begun.
FlushStep(s) ==
    \/ \E r \in Rows : Check(s, r)
    \/ \E r \in Rows, t \in Tables : Write(s, r, t) \/ WriteMisses(s, r, t)
    \/ AfterFlush(s)
    \/ \E t \in Tables : Refresh(s, t)
    \/ Finish(s)

Step ==
    \/ \E s \in Sessions :
        \/ \E w \in [Rows -> Work] : BeginFlush(s, w)
        \/ FlushStep(s)
        \/ \E r \in Rows, t \in Tables, v \in Values \cup {NoRow} : Execute(s, r, t, v)
        \/ Fail(s)
    \/ \E r \in Rows, t \in Tables, v \in Values \cup {NoRow} : WriteRaw(r, t, v)
    \/ \E t \in Tables : RefreshAnyway(t)

Next == Step /\ UNCHANGED app

Spec == Init /\ [][Next]_vars

\* A flush is sequential code: once it has begun it takes its next step.  Nothing is
\* assumed of the application, nor of CrateDB's own refresh.
FairSpec == Spec /\ \A s \in Sessions : WF_vars(FlushStep(s) /\ UNCHANGED app)

-----------------------------------------------------------------------------
(* Properties.                                                             *)

\* The tables of a row that refresh_after_dml looks after.
LooksAfter(t, r) == app.listener = "engine" \/ t = Named[ClassOf[r]]

\* What a session wrote is visible when the flush or statement has returned, in the tables
\* that refresh_after_dml looks after, all of them with the handler on the engine and the
\* one that the class names with the handler on the session: nobody reads a stale row
\* there, whatever other sessions do and what fails.
FlushedIsVisible ==
    \A t \in Tables, r \in Rows : \A s \in Sessions :
        /\ writer[t][r] = s /\ phase[s] = "idle"
        /\ LooksAfter(t, r)
        => visible[t][r] = stored[t][r]

\* No two rows of a checked class have the same values (check_uniqueness).
ValuesAreUnique ==
    \A q, r \in Rows :
        /\ q # r
        /\ ClassOf[q] = ClassOf[r]
        /\ ClassOf[q] \in Checked
        => \E t \in Mapped[ClassOf[q]] : stored[t][q] # stored[t][r] \/ stored[t][q] = NoRow

\* The application adds one row at a time and waits for it, and refresh_after_dml looks
\* after all its tables.
Careful ==
    /\ app.habits = {}
    /\ \A r \in app.rows : \A t \in Mapped[ClassOf[r]] : LooksAfter(t, r)

\* Values stay unique for a careful application: the check sees all rows before its own,
\* and a flush that it ends leaves nothing behind.
NoDuplicates == Careful => ValuesAreUnique

\* What searches find, the flush under way, and the rows that are found as they no longer are,
\* as ConsistentRows has them.
Found ==
    {f \in Classes \X Rows \X Values : \A t \in Mapped[f[1]] : visible[t][f[2]] = f[3]}
Wanted ==
    {p \in Rows \X (Values \cup {NoRow}) :
        \E s \in Sessions : work[s][p[1]] # NoWork /\ work[s][p[1]].value = p[2]}
Doomed == {r \in Rows : \E t \in Tables : visible[t][r] \notin {NoRow, stored[t][r]}}

Promise == INSTANCE ConsistentRows WITH
    Finds  <- [c \in Classes |-> {r \in Rows : Mapped[c] \subseteq Mapped[ClassOf[r]]}],
    found  <- Found,
    wanted <- Wanted,
    doomed <- Doomed

\* The handlers, the check and the unit of work together implement the promise, ConsistentRows,
\* for a careful application: a flush that has returned is found as a whole, one that raises met
\* a row that was found, or one that was not, and nothing else changes what searches find.
ImplementsConsistentRows ==
    /\ Careful => Promise!Init
    /\ [][Careful => [Promise!Next]_(Promise!vars)]_vars

\* With the handler on the engine, what is written but not visible is in the hands of a handler
\* from the moment it is written, if no statement fails and none is raw (receive_after_execute).
UnseenIsHandled ==
    app.listener = "engine" /\ app.habits \cap {"failure", "raw"} = {} =>
        \A t \in Tables :
            visible[t] # stored[t] => \E s \in Sessions : t \in refreshing[s]

\* Every write becomes visible with the handler on the engine, although CrateDB need
\* never refresh on its own, if no statement fails and none is raw: what is written but
\* not visible is in the hands of a handler (receive_after_execute).
WritesBecomeVisible ==
    \A t \in Tables, r \in Rows :
        /\ app.listener = "engine" /\ app.habits \cap {"failure", "raw"} = {}
        /\ stored[t][r] # visible[t][r]
        ~> stored[t][r] = visible[t][r]
=============================================================================
