------------------------- MODULE TableRefreshProofs -------------------------
(* Proofs about TableRefresh, for any sessions, rows, classes and tables.  *)
EXTENDS TableRefresh, TLAPS

\* The session that lets go of its flush keeps the types.
LEMMA AbortType ==
    ASSUME TypeOK, NEW s \in Sessions, NEW lost \in SUBSET (Rows \X Tables),
           AbortAfter(s, lost), UNCHANGED <<visible, app>>
    PROVE  TypeOK'
<1>1. phase' \in [Sessions -> Phases] /\ work' \in [Sessions -> [Rows -> Work]]
  BY DEF TypeOK, AbortAfter, Clear, Phases, Work
<1>2. /\ unchecked' \in [Sessions -> SUBSET Rows]
      /\ todo' \in [Sessions -> SUBSET (Rows \X Tables)]
      /\ refreshing' \in [Sessions -> SUBSET Tables]
  BY DEF TypeOK, AbortAfter, Clear
<1>3. \A r \in Rows : work[s][r].value \in Values \cup {NoRow}
  BY DEF TypeOK, Work, NoWork
<1>4. stored' \in Content
  BY <1>3 DEF TypeOK, AbortAfter, Content
<1>5. writer' \in [Tables -> [Rows -> Sessions \cup {Nobody}]]
  BY DEF TypeOK, AbortAfter
<1> QED
  BY <1>1, <1>2, <1>4, <1>5 DEF TypeOK

\* A stored row keeps the types.
LEMMA StoreType ==
    ASSUME TypeOK, NEW s \in Sessions \cup {Nobody}, NEW t \in Tables, NEW r \in Rows,
           NEW v \in Values \cup {NoRow}, Store(s, t, r, v)
    PROVE  /\ stored' \in Content
           /\ writer' \in [Tables -> [Rows -> Sessions \cup {Nobody}]]
BY DEF TypeOK, Store, Content

\* Every step of a flush keeps the types.
LEMMA FlushStepType ==
    ASSUME TypeOK, NEW s \in Sessions, FlushStep(s), app' = app
    PROVE  TypeOK'
<1>1. ASSUME NEW r \in Rows, Check(s, r)
      PROVE  TypeOK'
  <2>1. CASE Taken(ClassOf[r], work[s][r].value)
    BY <1>1, <2>1, AbortType DEF Check, Abort
  <2>2. CASE ~Taken(ClassOf[r], work[s][r].value)
    BY <1>1, <2>2 DEF Check, TypeOK
  <2> QED
    BY <2>1, <2>2
<1>2. ASSUME NEW r \in Rows, NEW t \in Tables, Write(s, r, t)
      PROVE  TypeOK'
  <2>1. work[s][r].value \in Values \cup {NoRow}
    BY DEF TypeOK, Work, NoWork
  <2>2. /\ stored' \in Content
        /\ writer' \in [Tables -> [Rows -> Sessions \cup {Nobody}]]
    BY <1>2, <2>1, StoreType DEF Write
  <2> QED
    BY <1>2, <2>2 DEF TypeOK, Write, HandlerTables
<1>3. ASSUME NEW r \in Rows, NEW t \in Tables, WriteMisses(s, r, t)
      PROVE  TypeOK'
  BY <1>3, AbortType DEF WriteMisses, Abort
<1>4. CASE AfterFlush(s)
  <2>1. DirtyTables(work[s]) \subseteq Tables
    BY MappingAssumption DEF DirtyTables, Touched
  <2> QED
    BY <1>4, <2>1 DEF TypeOK, AfterFlush, Phases
<1>5. ASSUME NEW t \in Tables, Refresh(s, t)
      PROVE  TypeOK'
  BY <1>5 DEF TypeOK, Refresh, Content
<1>6. CASE Finish(s)
  <2>1. phase' \in [Sessions -> Phases] /\ work' \in [Sessions -> [Rows -> Work]]
    BY <1>6 DEF TypeOK, Finish, Clear, Phases, Work
  <2> QED
    BY <1>6, <2>1 DEF TypeOK, Finish, Clear
<1> QED
  BY <1>1, <1>2, <1>3, <1>4, <1>5, <1>6 DEF FlushStep

\* Every step keeps the types.
LEMMA TypeStep ==
    ASSUME TypeOK, [Next]_vars
    PROVE  TypeOK'
<1>a. app' = app
  BY DEF Next, vars
<1> USE <1>a
<1>1. ASSUME UNCHANGED vars
      PROVE  TypeOK'
  BY <1>1 DEF vars, sessionVars, TypeOK
<1>2. ASSUME NEW s \in Sessions, NEW w \in [Rows -> Work], BeginFlush(s, w)
      PROVE  TypeOK'
  <2>1. phase' \in [Sessions -> Phases] /\ work' \in [Sessions -> [Rows -> Work]]
    BY <1>2 DEF TypeOK, BeginFlush, Phases
  <2>2. NewRows(w) \subseteq Rows /\ Touched(w) \subseteq Rows
    BY DEF NewRows, Touched
  <2>3. /\ unchecked' \in [Sessions -> SUBSET Rows]
        /\ todo' \in [Sessions -> SUBSET (Rows \X Tables)]
    BY <1>2, <2>2 DEF TypeOK, BeginFlush
  <2> QED
    BY <1>2, <2>1, <2>3 DEF TypeOK, BeginFlush
<1>3. ASSUME NEW s \in Sessions, FlushStep(s)
      PROVE  TypeOK'
  BY <1>3, FlushStepType
<1>4. ASSUME NEW s \in Sessions, NEW r \in Rows, NEW t \in Tables,
             NEW v \in Values \cup {NoRow}, Execute(s, r, t, v)
      PROVE  TypeOK'
  <2>1. /\ stored' \in Content
        /\ writer' \in [Tables -> [Rows -> Sessions \cup {Nobody}]]
    <3>1. (IF app.listener = "engine" THEN s ELSE Nobody) \in Sessions \cup {Nobody}
      OBVIOUS
    <3> QED
      BY <1>4, <3>1, StoreType DEF Execute
  <2> QED
    BY <1>4, <2>1 DEF TypeOK, Execute, HandlerTables, Phases
<1>5. ASSUME NEW s \in Sessions, Fail(s)
      PROVE  TypeOK'
  <2>1. CASE Abort(s)
    BY <1>5, <2>1, AbortType DEF Fail, Abort
  <2>2. ASSUME NEW r \in Rows, NEW t \in Tables, AbortAfter(s, {<<r, t>>})
        PROVE  TypeOK'
    <3>1. {<<r, t>>} \in SUBSET (Rows \X Tables)
      OBVIOUS
    <3> QED
      BY <1>5, <2>2, <3>1, AbortType DEF Fail
  <2> QED
    BY <1>5, <2>1, <2>2 DEF Fail
<1>6. ASSUME NEW r \in Rows, NEW t \in Tables, NEW v \in Values \cup {NoRow}, WriteRaw(r, t, v)
      PROVE  TypeOK'
  BY <1>6, StoreType DEF TypeOK, WriteRaw, sessionVars
<1>7. ASSUME NEW t \in Tables, RefreshAnyway(t)
      PROVE  TypeOK'
  BY <1>7 DEF TypeOK, RefreshAnyway, sessionVars, Content
<1> QED
  BY <1>1, <1>2, <1>3, <1>4, <1>5, <1>6, <1>7 DEF Next, Step

\* Every variable keeps its type.
THEOREM TypeCorrect == Spec => []TypeOK
<1>1. Init => TypeOK
  BY ApplicationsAssumption DEF Init, TypeOK, Content, Phases, Work
<1>2. TypeOK /\ [Next]_vars => TypeOK'
  BY TypeStep
<1> QED
  BY <1>1, <1>2, PTL DEF Spec

-----------------------------------------------------------------------------
(* Flushed writes are visible.                                             *)

\* The handler that runs after the flush will find table t by way of row r.
FlushWillRefresh(s, r, t) ==
    /\ app.listener = "session"
    /\ phase[s] = "flushing"
    /\ r \in Touched(work[s])
    /\ t \in Mapped[ClassOf[r]]

\* What a session wrote, where the handler looks, is visible or about to be refreshed, now or after the flush.
Answered ==
    \A t \in Tables, r \in Rows : \A s \in Sessions :
        writer[t][r] = s /\ LooksAfter(t, r) =>
            visible[t][r] = stored[t][r] \/ t \in refreshing[s] \/ FlushWillRefresh(s, r, t)

\* An idle session has nothing to refresh.
IdleIsDone == \A s \in Sessions : phase[s] = "idle" => refreshing[s] = {}

\* Statements are those of a flush, for the rows of its unit of work.
TodoIsWork ==
    \A s \in Sessions : \A r \in Rows, t \in Tables :
        <<r, t>> \in todo[s] =>
            phase[s] = "flushing" /\ r \in Touched(work[s]) /\ t \in Mapped[ClassOf[r]]

RefreshInv == TypeOK /\ Answered /\ IdleIsDone /\ TodoIsWork

\* At first there is nothing to refresh.
LEMMA InitRefresh == Init => RefreshInv
<1> SUFFICES ASSUME Init PROVE RefreshInv
  OBVIOUS
<1>1. TypeOK
  BY ApplicationsAssumption DEF Init, TypeOK, Content, Phases, Work
<1> QED
  BY <1>1, SentinelsAssumption DEF Init, RefreshInv, Answered, IdleIsDone, TodoIsWork

\* A session that lets go of its flush answers for nothing any more.
LEMMA AbortRefresh ==
    ASSUME RefreshInv, NEW s \in Sessions, NEW lost \in SUBSET (Rows \X Tables),
           AbortAfter(s, lost), UNCHANGED <<visible, app>>
    PROVE  Answered' /\ IdleIsDone' /\ TodoIsWork'
<1> USE DEF RefreshInv
<1>1. \A u \in Sessions : u # s =>
        /\ phase'[u] = phase[u] /\ work'[u] = work[u] /\ refreshing'[u] = refreshing[u]
        /\ todo'[u] = todo[u]
  BY DEF AbortAfter, Clear, TypeOK
<1>2. phase'[s] = "idle" /\ refreshing'[s] = {} /\ todo'[s] = {}
  BY DEF AbortAfter, Clear, TypeOK
<1>3. ASSUME NEW t \in Tables, NEW r \in Rows, NEW u \in Sessions, writer'[t][r] = u
      PROVE  u # s /\ writer[t][r] = u /\ stored'[t][r] = stored[t][r]
  BY <1>3, SentinelsAssumption DEF AbortAfter
<1>4. Answered'
  BY <1>1, <1>3 DEF Answered, FlushWillRefresh, Touched, LooksAfter
<1>5. IdleIsDone'
  BY <1>1, <1>2 DEF IdleIsDone
<1>6. TodoIsWork'
  BY <1>1, <1>2 DEF TodoIsWork, Touched
<1> QED
  BY <1>4, <1>5, <1>6

\* Every step of a flush keeps the invariant.
LEMMA FlushStepRefresh ==
    ASSUME RefreshInv, NEW s \in Sessions, FlushStep(s), app' = app
    PROVE  Answered' /\ IdleIsDone' /\ TodoIsWork'
<1> USE DEF RefreshInv
<1>1. ASSUME NEW r \in Rows, Check(s, r)
      PROVE  Answered' /\ IdleIsDone' /\ TodoIsWork'
  <2>1. CASE Taken(ClassOf[r], work[s][r].value)
    BY <1>1, <2>1, AbortRefresh DEF Check, Abort
  <2>2. CASE ~Taken(ClassOf[r], work[s][r].value)
    BY <1>1, <2>2 DEF Check, Answered, IdleIsDone, TodoIsWork, FlushWillRefresh, Touched, LooksAfter
  <2> QED
    BY <2>1, <2>2
<1>2. ASSUME NEW r \in Rows, NEW t \in Tables, Write(s, r, t)
      PROVE  Answered' /\ IdleIsDone' /\ TodoIsWork'
  <2>1. phase[s] = "flushing" /\ r \in Touched(work[s]) /\ t \in Mapped[ClassOf[r]]
    BY <1>2 DEF Write, IsNext, TodoIsWork
  <2>2. refreshing[s] = {}
    BY <1>2 DEF Write, IsNext
  <2>3. /\ phase' = phase /\ work' = work /\ visible' = visible
        /\ \A u \in Sessions : u # s => refreshing'[u] = refreshing[u]
        /\ refreshing'[s] = HandlerTables(t, work[s][r].kind)
        /\ \A u \in Sessions : todo'[u] \subseteq todo[u]
    BY <1>2 DEF Write, TypeOK
  <2>4. ASSUME NEW x \in Tables, NEW q \in Rows, <<x, q>> # <<t, r>>
        PROVE  stored'[x][q] = stored[x][q] /\ writer'[x][q] = writer[x][q]
    BY <1>2, <2>4 DEF Write, Store, TypeOK, Content
  <2>5. writer'[t][r] = s
    BY <1>2 DEF Write, Store, TypeOK
  <2>6. t \in refreshing'[s] \/ FlushWillRefresh(s, r, t)'
    BY <2>1, <2>3 DEF HandlerTables, FlushWillRefresh, Touched, TypeOK, Application
  <2>7. Answered'
    <3> SUFFICES ASSUME NEW x \in Tables, NEW q \in Rows, NEW u \in Sessions,
                        writer'[x][q] = u, LooksAfter(x, q)
                 PROVE  \/ visible'[x][q] = stored'[x][q]
                        \/ x \in refreshing'[u]
                        \/ FlushWillRefresh(u, q, x)'
      BY DEF Answered, LooksAfter
    <3>1. CASE <<x, q>> = <<t, r>>
      BY <3>1, <2>5, <2>6
    <3>2. CASE <<x, q>> # <<t, r>>
      BY <3>2, <2>2, <2>3, <2>4 DEF Answered, FlushWillRefresh, Touched, LooksAfter
    <3> QED
      BY <3>1, <3>2
  <2>8. IdleIsDone'
    BY <2>1, <2>3 DEF IdleIsDone
  <2>9. TodoIsWork'
    BY <2>3 DEF TodoIsWork, Touched
  <2> QED
    BY <2>7, <2>8, <2>9
<1>3. ASSUME NEW r \in Rows, NEW t \in Tables, WriteMisses(s, r, t)
      PROVE  Answered' /\ IdleIsDone' /\ TodoIsWork'
  BY <1>3, AbortRefresh DEF WriteMisses, Abort
<1>4. ASSUME AfterFlush(s)
      PROVE  Answered' /\ IdleIsDone' /\ TodoIsWork'
  <2>1. phase[s] = "flushing" /\ refreshing[s] = {} /\ todo[s] = {}
    BY <1>4 DEF AfterFlush
  <2>2. /\ \A u \in Sessions : u # s => phase'[u] = phase[u] /\ refreshing'[u] = refreshing[u]
        /\ phase'[s] = "flushed"
        /\ UNCHANGED <<stored, visible, work, todo, writer>>
        /\ app.listener = "session" => refreshing'[s] = DirtyTables(work[s])
    BY <1>4 DEF AfterFlush, TypeOK
  <2>3. ASSUME NEW r \in Rows, NEW t \in Tables, FlushWillRefresh(s, r, t), LooksAfter(t, r)
        PROVE  t \in refreshing'[s]
    <3>1. t = Named[ClassOf[r]]
      BY <2>3 DEF FlushWillRefresh, LooksAfter
    <3> QED
      BY <2>2, <2>3, <3>1 DEF FlushWillRefresh, DirtyTables
  <2>4. Answered'
    BY <2>1, <2>2, <2>3 DEF Answered, FlushWillRefresh, Touched, LooksAfter
  <2>5. IdleIsDone'
    BY <2>2 DEF IdleIsDone
  <2>6. TodoIsWork'
    BY <2>1, <2>2 DEF TodoIsWork, Touched
  <2> QED
    BY <2>4, <2>5, <2>6
<1>5. ASSUME NEW t \in Tables, Refresh(s, t)
      PROVE  Answered' /\ IdleIsDone' /\ TodoIsWork'
  <2>1. /\ \A u \in Sessions : refreshing'[u] \subseteq refreshing[u]
        /\ \A u \in Sessions : \A x \in Tables \ {t} : x \in refreshing[u] => x \in refreshing'[u]
        /\ \A x \in Tables \ {t} : visible'[x] = visible[x]
        /\ visible'[t] = stored'[t]
        /\ UNCHANGED <<stored, phase, work, todo, writer>>
    BY <1>5 DEF Refresh, TypeOK, Content
  <2>2. Answered'
    BY <2>1 DEF Answered, FlushWillRefresh, Touched, LooksAfter
  <2>3. IdleIsDone' /\ TodoIsWork'
    BY <2>1 DEF IdleIsDone, TodoIsWork, Touched
  <2> QED
    BY <2>2, <2>3
<1>6. ASSUME Finish(s)
      PROVE  Answered' /\ IdleIsDone' /\ TodoIsWork'
  <2>1. phase[s] = "flushed" /\ refreshing[s] = {}
    BY <1>6 DEF Finish
  <2>2. /\ \A u \in Sessions : u # s =>
              /\ phase'[u] = phase[u] /\ work'[u] = work[u]
              /\ refreshing'[u] = refreshing[u] /\ todo'[u] = todo[u]
        /\ refreshing'[s] = {} /\ todo'[s] = {}
        /\ UNCHANGED <<stored, visible, writer>>
    BY <1>6 DEF Finish, Clear, TypeOK
  <2>3. Answered'
    BY <2>1, <2>2 DEF Answered, FlushWillRefresh, Touched, LooksAfter
  <2>4. IdleIsDone' /\ TodoIsWork'
    BY <2>2 DEF IdleIsDone, TodoIsWork, Touched
  <2> QED
    BY <2>3, <2>4
<1> QED
  BY <1>1, <1>2, <1>3, <1>4, <1>5, <1>6 DEF FlushStep

\* Every step keeps the invariant.
LEMMA RefreshStep ==
    ASSUME RefreshInv, [Next]_vars
    PROVE  RefreshInv'
<1> USE DEF RefreshInv
<1>t. TypeOK'
  BY TypeStep
<1> SUFFICES Answered' /\ IdleIsDone' /\ TodoIsWork'
  BY <1>t
<1>a. app' = app
  BY DEF Next, vars
<1> USE <1>a
<1>1. ASSUME UNCHANGED vars
      PROVE  Answered' /\ IdleIsDone' /\ TodoIsWork'
  BY <1>1 DEF vars, sessionVars, Answered, IdleIsDone, TodoIsWork, FlushWillRefresh, Touched, LooksAfter
<1>2. ASSUME NEW s \in Sessions, NEW w \in [Rows -> Work], BeginFlush(s, w)
      PROVE  Answered' /\ IdleIsDone' /\ TodoIsWork'
  <2>1. phase[s] = "idle" /\ refreshing[s] = {}
    BY <1>2 DEF BeginFlush, MayStart, IdleIsDone
  <2>2. /\ \A u \in Sessions : u # s =>
              phase'[u] = phase[u] /\ work'[u] = work[u] /\ todo'[u] = todo[u]
        /\ phase'[s] = "flushing" /\ work'[s] = w
        /\ todo'[s] = {rt \in Touched(w) \X Tables : rt[2] \in Mapped[ClassOf[rt[1]]]}
        /\ UNCHANGED <<stored, visible, refreshing, writer>>
    BY <1>2 DEF BeginFlush, TypeOK
  <2>3. Answered'
    BY <2>1, <2>2 DEF Answered, FlushWillRefresh, Touched, LooksAfter
  <2>4. IdleIsDone'
    BY <2>2 DEF IdleIsDone
  <2>5. TodoIsWork'
    BY <2>2 DEF TodoIsWork, Touched
  <2> QED
    BY <2>3, <2>4, <2>5
<1>3. ASSUME NEW s \in Sessions, FlushStep(s)
      PROVE  Answered' /\ IdleIsDone' /\ TodoIsWork'
  BY <1>3, FlushStepRefresh
<1>4. ASSUME NEW s \in Sessions, NEW r \in Rows, NEW t \in Tables,
             NEW v \in Values \cup {NoRow}, Execute(s, r, t, v)
      PROVE  Answered' /\ IdleIsDone' /\ TodoIsWork'
  <2>1. phase[s] = "idle" /\ refreshing[s] = {}
    BY <1>4 DEF Execute, MayStart, IdleIsDone
  <2>2. /\ \A u \in Sessions : u # s => phase'[u] = phase[u] /\ refreshing'[u] = refreshing[u]
        /\ phase'[s] = "flushed"
        /\ UNCHANGED <<visible, work, todo>>
    BY <1>4 DEF Execute, TypeOK
  <2>3. app.listener = "engine" => refreshing'[s] = {t}
    BY <1>4 DEF Execute, TypeOK, HandlerTables
  <2>4. ASSUME NEW x \in Tables, NEW q \in Rows, <<x, q>> # <<t, r>>
        PROVE  stored'[x][q] = stored[x][q] /\ writer'[x][q] = writer[x][q]
    BY <1>4, <2>4 DEF Execute, Store, TypeOK, Content
  <2>5. writer'[t][r] = IF app.listener = "engine" THEN s ELSE Nobody
    BY <1>4 DEF Execute, Store, TypeOK
  <2>6. Answered'
    <3> SUFFICES ASSUME NEW x \in Tables, NEW q \in Rows, NEW u \in Sessions,
                        writer'[x][q] = u, LooksAfter(x, q)
                 PROVE  \/ visible'[x][q] = stored'[x][q]
                        \/ x \in refreshing'[u]
                        \/ FlushWillRefresh(u, q, x)'
      BY DEF Answered, LooksAfter
    <3>1. CASE <<x, q>> = <<t, r>>
      BY <3>1, <2>3, <2>5, SentinelsAssumption
    <3>2. CASE <<x, q>> # <<t, r>>
      BY <3>2, <2>1, <2>2, <2>4 DEF Answered, FlushWillRefresh, Touched, LooksAfter
    <3> QED
      BY <3>1, <3>2
  <2>7. IdleIsDone'
    BY <2>2 DEF IdleIsDone
  <2>8. TodoIsWork'
    BY <2>1, <2>2 DEF TodoIsWork, Touched
  <2> QED
    BY <2>6, <2>7, <2>8
<1>5. ASSUME NEW s \in Sessions, Fail(s)
      PROVE  Answered' /\ IdleIsDone' /\ TodoIsWork'
  <2>1. CASE Abort(s)
    BY <1>5, <2>1, AbortRefresh DEF Fail, Abort
  <2>2. ASSUME NEW r \in Rows, NEW t \in Tables, AbortAfter(s, {<<r, t>>})
        PROVE  Answered' /\ IdleIsDone' /\ TodoIsWork'
    <3>1. {<<r, t>>} \in SUBSET (Rows \X Tables)
      OBVIOUS
    <3> QED
      BY <1>5, <2>2, <3>1, AbortRefresh DEF Fail
  <2> QED
    BY <1>5, <2>1, <2>2 DEF Fail
<1>6. ASSUME NEW r \in Rows, NEW t \in Tables, NEW v \in Values \cup {NoRow}, WriteRaw(r, t, v)
      PROVE  Answered' /\ IdleIsDone' /\ TodoIsWork'
  <2>1. ASSUME NEW x \in Tables, NEW q \in Rows, <<x, q>> # <<t, r>>
        PROVE  stored'[x][q] = stored[x][q] /\ writer'[x][q] = writer[x][q]
    BY <1>6, <2>1 DEF WriteRaw, Store, TypeOK, Content
  <2>2. writer'[t][r] = Nobody
    BY <1>6 DEF WriteRaw, Store, TypeOK
  <2>3. UNCHANGED <<visible, phase, work, todo, refreshing>>
    BY <1>6 DEF WriteRaw, sessionVars
  <2>4. Answered'
    BY <2>1, <2>2, <2>3, SentinelsAssumption DEF Answered, FlushWillRefresh, Touched, LooksAfter
  <2>5. IdleIsDone' /\ TodoIsWork'
    BY <2>3 DEF IdleIsDone, TodoIsWork, Touched
  <2> QED
    BY <2>4, <2>5
<1>7. ASSUME NEW t \in Tables, RefreshAnyway(t)
      PROVE  Answered' /\ IdleIsDone' /\ TodoIsWork'
  <2>1. /\ \A x \in Tables : visible'[x] = visible[x] \/ visible'[x] = stored'[x]
        /\ UNCHANGED <<stored, phase, work, todo, refreshing, writer>>
    BY <1>7 DEF RefreshAnyway, sessionVars, TypeOK, Content
  <2>2. Answered'
    BY <2>1 DEF Answered, FlushWillRefresh, Touched, LooksAfter
  <2>3. IdleIsDone' /\ TodoIsWork'
    BY <2>1 DEF IdleIsDone, TodoIsWork, Touched
  <2> QED
    BY <2>2, <2>3
<1> QED
  BY <1>1, <1>2, <1>3, <1>4, <1>5, <1>6, <1>7 DEF Next, Step

\* A flush or statement that has returned has made its writes visible wherever
\* refresh_after_dml looks, whatever the application and other sessions do and what fails.
THEOREM FlushedStaysVisible == Spec => []FlushedIsVisible
<1>1. Init => RefreshInv
  BY InitRefresh
<1>2. RefreshInv /\ [Next]_vars => RefreshInv'
  BY RefreshStep
<1>3. RefreshInv => FlushedIsVisible
  BY DEF RefreshInv, Answered, IdleIsDone, FlushedIsVisible, FlushWillRefresh
<1> QED
  BY <1>1, <1>2, <1>3, PTL DEF Spec

-----------------------------------------------------------------------------
(* No duplicates.                                                          *)

\* At most one session is at work, on at most one new row and on no changed ones.
OneFlush ==
    /\ \A s, u \in Sessions : phase[s] # "idle" /\ phase[u] # "idle" => s = u
    /\ \A s \in Sessions :
        /\ phase[s] = "idle" => Touched(work[s]) = {}
        /\ Touched(work[s]) \subseteq app.rows
        /\ \A q, r \in NewRows(work[s]) : q = r
        /\ \A r \in Rows : work[s][r].kind # "dirty"
        /\ unchecked[s] \subseteq {r \in NewRows(work[s]) : ClassOf[r] \in Checked}

\* Rows are in tables of their classes.  With the handler on the session, where each
\* class has one table, the rows that a flush will delete are there.
RowsAreThere ==
    /\ \A t \in Tables, r \in Rows : stored[t][r] # NoRow => t \in Mapped[ClassOf[r]]
    /\ app.listener = "session" =>
        \A s \in Sessions : \A r \in Rows, t \in Tables :
            <<r, t>> \in todo[s] => work[s][r].kind = "new" \/ stored[t][r] # NoRow

\* A new row is not stored before its check, nor other than it will be.
NewRowsAreNew ==
    \A s \in Sessions : \A r \in NewRows(work[s]) : \A t \in Tables :
        /\ stored[t][r] \in {NoRow, work[s][r].value}
        /\ r \in unchecked[s] => stored[t][r] = NoRow

\* A row that is stored is found, unless it is new and the flush has yet to refresh it.
StoredIsFound ==
    \A t \in Tables, r \in Rows : stored[t][r] # NoRow /\ visible[t][r] # stored[t][r] =>
        \E s \in Sessions :
            /\ r \in NewRows(work[s])
            /\ t \in refreshing[s] \/ FlushWillRefresh(s, r, t)

\* When the check has passed, no other row has the values, nor will be found with them.
CheckedIsFree ==
    \A s \in Sessions : \A r \in NewRows(work[s]) \ unchecked[s] : \A q \in Rows \ {r} :
        ClassOf[r] \in Checked =>
            \E t \in Mapped[ClassOf[r]] : work[s][r].value \notin {stored[t][q], visible[t][q]}

\* Searches of a checked class find each of its values once.
FoundIsUnique ==
    \A q, r \in Rows : \A v \in Values :
        q # r /\ ClassOf[q] = ClassOf[r] /\ ClassOf[q] \in Checked =>
            \E t \in Mapped[ClassOf[q]] : visible[t][q] # v \/ visible[t][r] # v

\* What a flush has written is as it gave it, and the session answers for it.
WrittenIsStored ==
    \A s \in Sessions : \A r \in Touched(work[s]) : \A t \in Mapped[ClassOf[r]] :
        <<r, t>> \notin todo[s] => stored[t][r] = work[s][r].value /\ writer[t][r] = s

UniqueParts ==
    /\ OneFlush /\ RowsAreThere /\ NewRowsAreNew /\ StoredIsFound
    /\ CheckedIsFree /\ ValuesAreUnique /\ FoundIsUnique /\ WrittenIsStored

UniqueInv == RefreshInv /\ UniqueParts

\* A new row of a unit of work is one of its rows.
LEMMA NewIsTouched ==
    \A w : NewRows(w) \subseteq Touched(w) /\ Touched(w) \subseteq Rows
BY DEF NewRows, Touched, NoWork

\* At first there is no row, and no flush.
LEMMA InitUnique == Init => UniqueParts
<1> SUFFICES ASSUME Init PROVE UniqueParts
  OBVIOUS
<1>1. \A s \in Sessions : Touched(work[s]) = {} /\ NewRows(work[s]) = {}
  BY DEF Init, Touched, NewRows, NoWork
<1>2. OneFlush
  BY <1>1 DEF Init, OneFlush, NoWork
<1>3. RowsAreThere /\ NewRowsAreNew /\ StoredIsFound /\ CheckedIsFree
  BY <1>1 DEF Init, RowsAreThere, NewRowsAreNew, StoredIsFound, CheckedIsFree
<1>4. ValuesAreUnique
  BY MappingAssumption DEF Init, ValuesAreUnique
<1>5. FoundIsUnique
  BY MappingAssumption, SentinelsAssumption DEF Init, FoundIsUnique
<1>6. WrittenIsStored
  BY <1>1 DEF WrittenIsStored
<1> QED
  BY <1>2, <1>3, <1>4, <1>5, <1>6 DEF UniqueParts

\* A session that is at work is alone with what it has in its unit of work.
LEMMA AtWork ==
    ASSUME UniqueInv, NEW s \in Sessions, phase[s] # "idle"
    PROVE  \A u \in Sessions : u # s =>
               phase[u] = "idle" /\ Touched(work[u]) = {} /\ NewRows(work[u]) = {}
BY NewIsTouched DEF UniqueInv, UniqueParts, OneFlush

\* What a session leaves behind that clears its unit of work, when all that is stored is found.
LEMMA ClearUnique ==
    ASSUME UniqueInv, NEW s \in Sessions, phase[s] # "idle", Clear(s),
           UNCHANGED <<stored, visible, app>>,
           \A t \in Tables, r \in Rows : stored[t][r] # NoRow => visible[t][r] = stored[t][r]
    PROVE  UniqueParts'
<1> USE DEF UniqueInv, UniqueParts
<1>1. \A u \in Sessions : u # s =>
        /\ phase'[u] = phase[u] /\ work'[u] = work[u] /\ refreshing'[u] = refreshing[u]
        /\ todo'[u] = todo[u] /\ unchecked'[u] = unchecked[u]
  BY DEF Clear, RefreshInv, TypeOK
<1>2. /\ phase'[s] = "idle" /\ refreshing'[s] = {} /\ todo'[s] = {} /\ unchecked'[s] = {}
      /\ \A r \in Rows : work'[s][r] = NoWork
  BY DEF Clear, RefreshInv, TypeOK
<1>3. Touched(work'[s]) = {} /\ NewRows(work'[s]) = {}
  BY <1>2 DEF Touched, NewRows, NoWork
<1>4. OneFlush'
  <2>1. \A u, x \in Sessions : phase'[u] # "idle" /\ phase'[x] # "idle" => u = x
    BY <1>1, <1>2 DEF OneFlush
  <2>2. ASSUME NEW u \in Sessions
        PROVE  /\ phase'[u] = "idle" => Touched(work'[u]) = {}
               /\ Touched(work'[u]) \subseteq app'.rows
               /\ \A q, r \in NewRows(work'[u]) : q = r
               /\ \A r \in Rows : work'[u][r].kind # "dirty"
               /\ unchecked'[u] \subseteq {r \in NewRows(work'[u]) : ClassOf[r] \in Checked}
    <3>1. CASE u = s
      BY <3>1, <1>2, <1>3 DEF NoWork
    <3>2. CASE u # s
      BY <3>2, <1>1 DEF OneFlush
    <3> QED
      BY <3>1, <3>2
  <2> QED
    BY <2>1, <2>2 DEF OneFlush, Touched, NewRows
<1>5. RowsAreThere'
  BY <1>1, <1>2 DEF RowsAreThere
<1>6. NewRowsAreNew'
  BY <1>1, <1>2, <1>3 DEF NewRowsAreNew, NewRows
<1>7. StoredIsFound'
  BY DEF StoredIsFound
<1>8. CheckedIsFree'
  BY <1>1, <1>2, <1>3 DEF CheckedIsFree, NewRows
<1>9. ValuesAreUnique' /\ FoundIsUnique'
  BY DEF ValuesAreUnique, FoundIsUnique
<1>10. WrittenIsStored'
  BY <1>1, <1>3, AtWork DEF WrittenIsStored
<1> QED
  BY <1>4, <1>5, <1>6, <1>7, <1>8, <1>9, <1>10

\* When nothing is left to refresh, and nothing will be, all that is stored is found.
LEMMA AllIsFound ==
    ASSUME UniqueInv, NEW s \in Sessions, phase[s] # "idle", refreshing[s] = {},
           app.listener = "engine" \/ phase[s] = "flushed"
    PROVE  \A t \in Tables, r \in Rows : stored[t][r] # NoRow => visible[t][r] = stored[t][r]
BY AtWork DEF UniqueInv, UniqueParts, StoredIsFound, FlushWillRefresh

\* Whatever tables are refreshed, searches of a checked class find each value once.
LEMMA ShowUnique ==
    ASSUME UniqueInv, UNCHANGED <<stored, work, unchecked>>,
           \A t \in Tables : visible'[t] = visible[t] \/ visible'[t] = stored[t]
    PROVE  CheckedIsFree' /\ FoundIsUnique'
<1> USE DEF UniqueInv, UniqueParts
<1>m. \A r \in Rows : Mapped[ClassOf[r]] \subseteq Tables
  BY MappingAssumption
<1>1. CheckedIsFree'
  <2> SUFFICES ASSUME NEW s \in Sessions, NEW r \in NewRows(work[s]) \ unchecked[s],
                      NEW q \in Rows \ {r}, ClassOf[r] \in Checked
               PROVE  \E t \in Mapped[ClassOf[r]] :
                          work[s][r].value \notin {stored[t][q], visible'[t][q]}
    BY DEF CheckedIsFree, NewRows
  <2>1. PICK t \in Mapped[ClassOf[r]] : work[s][r].value \notin {stored[t][q], visible[t][q]}
    BY DEF CheckedIsFree
  <2>2. r \in Rows
    BY DEF NewRows
  <2> QED
    BY <1>m, <2>1, <2>2
<1>2. ASSUME NEW q \in Rows, NEW r \in Rows, NEW v \in Values, q # r, ClassOf[q] = ClassOf[r],
             ClassOf[q] \in Checked, NEW t \in Mapped[ClassOf[q]], visible[t][r] # v,
             \A x \in Mapped[ClassOf[q]] : visible'[x][q] = v /\ visible'[x][r] = v
      PROVE  FALSE
  <2>1. t \in Tables /\ stored[t][r] = v /\ v # NoRow
    BY <1>2, <1>m, SentinelsAssumption
  <2>2. PICK s \in Sessions : r \in NewRows(work[s])
    BY <1>2, <2>1 DEF StoredIsFound
  <2>3. work[s][r].value = v /\ r \notin unchecked[s]
    BY <2>1, <2>2 DEF NewRowsAreNew
  <2>4. PICK x \in Mapped[ClassOf[r]] : v \notin {stored[x][q], visible[x][q]}
    BY <1>2, <2>2, <2>3 DEF CheckedIsFree
  <2> QED
    BY <1>2, <1>m, <2>4
<1>3. FoundIsUnique'
  <2> SUFFICES ASSUME NEW q \in Rows, NEW r \in Rows, NEW v \in Values, q # r,
                      ClassOf[q] = ClassOf[r], ClassOf[q] \in Checked
               PROVE  \E t \in Mapped[ClassOf[q]] : visible'[t][q] # v \/ visible'[t][r] # v
    BY DEF FoundIsUnique
  <2>1. PICK t \in Mapped[ClassOf[q]] : visible[t][q] # v \/ visible[t][r] # v
    BY DEF FoundIsUnique
  <2>2. CASE visible[t][r] # v
    BY <2>2, <1>2
  <2>3. CASE visible[t][q] # v
    BY <2>3, <1>2
  <2> QED
    BY <2>1, <2>2, <2>3
<1> QED
  BY <1>1, <1>3

\* Every step of a flush of a careful application keeps the invariant.
LEMMA FlushStepUnique ==
    ASSUME Careful, UniqueInv, NEW s \in Sessions, FlushStep(s), app' = app
    PROVE  UniqueParts'
<1> USE DEF UniqueInv, UniqueParts
<1>t. TypeOK
  BY DEF RefreshInv
<1>1. ASSUME NEW r \in Rows, Check(s, r)
      PROVE  UniqueParts'
  <2>1. r \in NewRows(work[s]) /\ r \in unchecked[s] /\ refreshing[s] = {}
    BY <1>1 DEF Check, OneFlush
  <2>2. phase[s] # "idle"
    BY <2>1, NewIsTouched DEF OneFlush
  <2>3. \A q \in NewRows(work[s]) : q = r
    BY <2>1 DEF OneFlush
  <2>4. \A t \in Tables : stored[t][r] = NoRow
    BY <2>1 DEF NewRowsAreNew
  <2>5. \A t \in Tables, q \in Rows : stored[t][q] # NoRow => visible[t][q] = stored[t][q]
    BY <2>2, <2>3, <2>4, AtWork DEF StoredIsFound
  <2>6. CASE Taken(ClassOf[r], work[s][r].value)
    <3>1. Clear(s) /\ UNCHANGED visible
      BY <1>1, <2>6 DEF Check, Abort, AbortAfter
    <3>2. stored' = [t \in Tables |-> [q \in Rows |-> stored[t][q]]]
      BY <1>1, <2>6 DEF Check, Abort, AbortAfter
    <3>3. stored' = stored
      BY <1>t, <3>2 DEF TypeOK, Content
    <3> QED
      BY <3>1, <3>3, <2>2, <2>5, ClearUnique
  <2>7. CASE ~Taken(ClassOf[r], work[s][r].value)
    <3>1. /\ UNCHANGED <<stored, visible, phase, work, todo, refreshing, writer>>
          /\ \A u \in Sessions : unchecked'[u] \subseteq unchecked[u]
          /\ \A u \in Sessions : u # s => unchecked'[u] = unchecked[u]
          /\ unchecked'[s] = unchecked[s] \ {r}
      BY <1>1, <1>t, <2>7 DEF Check, TypeOK
    <3>2. OneFlush'
      BY <3>1 DEF OneFlush, Touched, NewRows
    <3>3. RowsAreThere' /\ ValuesAreUnique' /\ FoundIsUnique' /\ WrittenIsStored'
      BY <3>1 DEF RowsAreThere, ValuesAreUnique, FoundIsUnique, WrittenIsStored, Touched
    <3>4. NewRowsAreNew'
      BY <3>1 DEF NewRowsAreNew, NewRows
    <3>5. StoredIsFound'
      BY <3>1 DEF StoredIsFound, NewRows, FlushWillRefresh, Touched
    <3>6. work[s][r].value # NoRow
      BY <2>1, <1>t, SentinelsAssumption DEF NewRows, TypeOK, Work, NoWork
    <3>7. ASSUME NEW q \in Rows
          PROVE  \E t \in Mapped[ClassOf[r]] :
                     work[s][r].value \notin {stored[t][q], visible[t][q]}
      <4>1. PICK t \in Mapped[ClassOf[r]] : visible[t][q] # work[s][r].value
        BY <2>7 DEF Taken
      <4>2. t \in Tables
        BY MappingAssumption
      <4> QED
        BY <4>1, <4>2, <3>6, <2>5
    <3>8. CheckedIsFree'
      BY <3>1, <3>7, <2>3 DEF CheckedIsFree, NewRows
    <3> QED
      BY <3>2, <3>3, <3>4, <3>5, <3>8
  <2> QED
    BY <2>6, <2>7
<1>2. ASSUME NEW r \in Rows, NEW t \in Tables, Write(s, r, t)
      PROVE  UniqueParts'
  <2> DEFINE v == work[s][r].value
  <2>1. /\ phase[s] = "flushing" /\ r \in Touched(work[s]) /\ t \in Mapped[ClassOf[r]]
        /\ refreshing[s] = {}
    BY <1>2 DEF Write, IsNext, RefreshInv, TodoIsWork
  <2>2. /\ UNCHANGED <<visible, phase, work, unchecked>>
        /\ refreshing'[s] = HandlerTables(t, work[s][r].kind)
        /\ \A u \in Sessions : todo'[u] \subseteq todo[u]
        /\ <<r, t>> \notin todo'[s]
    BY <1>2, <1>t DEF Write, TypeOK
  <2>3. ASSUME NEW x \in Tables, NEW q \in Rows
        PROVE  stored'[x][q] = IF x = t /\ q = r THEN v ELSE stored[x][q]
    BY <1>2, <1>t DEF Write, Store, TypeOK, Content
  <2>4. /\ work[s][r].kind \in {"new", "deleted"}
        /\ work[s][r].kind = "new" <=> v # NoRow
        /\ work[s][r].kind = "new" <=> r \in NewRows(work[s])
    <3>1. work[s][r] # NoWork /\ work[s][r] \in Work
      BY <2>1, <1>t DEF Touched, TypeOK
    <3>2. work[s][r].kind # "dirty"
      BY DEF OneFlush
    <3>3. work[s][r].kind \in {"new", "deleted"} /\ (work[s][r].kind = "new" <=> v # NoRow)
      BY <3>1, <3>2, SentinelsAssumption DEF Work, NoWork
    <3> QED
      BY <3>3 DEF NewRows
  <2>5. r \notin unchecked[s]
    BY <1>2, <2>1, MappingAssumption DEF Write, IsNext
  <2>6. \A u \in Sessions : u # s => NewRows(work[u]) = {}
    BY <2>1, AtWork
  <2>7. OneFlush'
    BY <2>2 DEF OneFlush, Touched, NewRows
  <2>8. RowsAreThere'
    <3>1. \A x \in Tables, q \in Rows : stored'[x][q] # NoRow => x \in Mapped[ClassOf[q]]
      BY <2>1, <2>3 DEF RowsAreThere
    <3>2. ASSUME app.listener = "session", NEW u \in Sessions, NEW q \in Rows, NEW x \in Tables,
                 <<q, x>> \in todo'[u]
          PROVE  work[u][q].kind = "new" \/ stored'[x][q] # NoRow
      <4>1. <<q, x>> \in todo[u]
        BY <3>2, <2>2
      <4>2. u = s
        BY <4>1, <2>1 DEF RefreshInv, TodoIsWork, OneFlush
      <4>3. <<q, x>> # <<r, t>>
        BY <3>2, <4>2, <2>2
      <4> QED
        BY <3>2, <4>1, <4>3, <2>3 DEF RowsAreThere
    <3> QED
      BY <3>1, <3>2, <2>2 DEF RowsAreThere
  <2>9. NewRowsAreNew'
    BY <2>2, <2>3, <2>4, <2>5, <2>6 DEF NewRowsAreNew, NewRows
  <2>10. StoredIsFound'
    <3> SUFFICES ASSUME NEW x \in Tables, NEW q \in Rows,
                        stored'[x][q] # NoRow, visible'[x][q] # stored'[x][q]
                 PROVE  /\ q \in NewRows(work'[s])
                        /\ x \in refreshing'[s] \/ FlushWillRefresh(s, q, x)'
      BY DEF StoredIsFound
    <3>1. CASE x = t /\ q = r
      <4>1. r \in NewRows(work[s])
        BY <3>1, <2>3, <2>4
      <4>2. t \in refreshing'[s] \/ FlushWillRefresh(s, r, t)'
        BY <2>1, <2>2, <1>t DEF HandlerTables, FlushWillRefresh, Touched, TypeOK, Application
      <4> QED
        BY <3>1, <4>1, <4>2, <2>2
    <3>2. CASE ~(x = t /\ q = r)
      <4>1. stored[x][q] # NoRow /\ visible[x][q] # stored[x][q]
        BY <3>2, <2>2, <2>3
      <4>2. q \in NewRows(work[s]) /\ FlushWillRefresh(s, q, x)
        BY <4>1, <2>1, <2>6 DEF StoredIsFound
      <4> QED
        BY <4>2, <2>2 DEF FlushWillRefresh, Touched
    <3> QED
      BY <3>1, <3>2
  <2>11. CheckedIsFree'
    <3> SUFFICES ASSUME NEW p \in NewRows(work[s]) \ unchecked[s], NEW q \in Rows \ {p},
                        ClassOf[p] \in Checked
                 PROVE  \E x \in Mapped[ClassOf[p]] :
                            work[s][p].value \notin {stored'[x][q], visible[x][q]}
      BY <2>2, <2>6 DEF CheckedIsFree, NewRows
    <3>1. p \in Rows /\ work[s][p].value # NoRow
      BY <1>t, SentinelsAssumption DEF NewRows, TypeOK, Work, NoWork
    <3>2. PICK x \in Mapped[ClassOf[p]] : work[s][p].value \notin {stored[x][q], visible[x][q]}
      BY <3>1 DEF CheckedIsFree
    <3>3. x \in Tables
      BY <3>1, MappingAssumption
    <3>4. CASE q = r
      <4>1. v = NoRow
        BY <3>4, <2>4 DEF OneFlush
      <4> QED
        BY <3>1, <3>2, <3>3, <3>4, <4>1, <2>3
    <3>5. CASE q # r
      BY <3>2, <3>3, <3>5, <2>3
    <3> QED
      BY <3>4, <3>5
  <2>12. ValuesAreUnique'
    <3> SUFFICES ASSUME NEW p \in Rows, NEW q \in Rows, p # q, ClassOf[p] = ClassOf[q],
                        ClassOf[p] \in Checked
                 PROVE  \E x \in Mapped[ClassOf[p]] :
                            stored'[x][p] # stored'[x][q] \/ stored'[x][p] = NoRow
      BY DEF ValuesAreUnique
    <3>m. Mapped[ClassOf[p]] \subseteq Tables
      BY MappingAssumption
    <3>1. CASE v = NoRow
      <4>1. PICK x \in Mapped[ClassOf[p]] : stored[x][p] # stored[x][q] \/ stored[x][p] = NoRow
        BY DEF ValuesAreUnique
      <4> QED
        BY <3>1, <3>m, <4>1, <2>3
    <3>2. CASE v # NoRow /\ p # r /\ q # r
      BY <3>2, <3>m, <2>3 DEF ValuesAreUnique
    <3>3. CASE v # NoRow /\ (p = r \/ q = r)
      <4>1. PICK o \in {p, q} : o # r
        BY <3>3
      <4>2. r \in NewRows(work[s]) \ unchecked[s] /\ o \in Rows \ {r} /\ ClassOf[r] = ClassOf[p]
        BY <3>3, <4>1, <2>4, <2>5
      <4>3. PICK x \in Mapped[ClassOf[p]] : stored[x][o] # v
        BY <4>2 DEF CheckedIsFree
      <4>4. x \in Tables
        BY <3>m
      <4>5. stored'[x][o] = stored[x][o]
        BY <4>2, <4>4, <2>3
      <4>6. stored'[x][r] \in {NoRow, v}
        BY <4>2, <4>4, <2>3 DEF NewRowsAreNew
      <4> QED
        BY <3>3, <4>1, <4>3, <4>5, <4>6
    <3> QED
      BY <3>1, <3>2, <3>3
  <2>13. FoundIsUnique'
    BY <2>2 DEF FoundIsUnique
  <2>14. WrittenIsStored'
    <3> SUFFICES ASSUME NEW u \in Sessions, NEW q \in Touched(work[u]),
                        NEW x \in Mapped[ClassOf[q]], <<q, x>> \notin todo'[u]
                 PROVE  stored'[x][q] = work[u][q].value /\ writer'[x][q] = u
      BY <2>2 DEF WrittenIsStored, Touched
    <3>1. u = s
      BY <2>1, AtWork
    <3>2. q \in Rows /\ x \in Tables
      BY MappingAssumption, NewIsTouched
    <3>3. todo'[s] = todo[s] \ {<<r, t>>}
      BY <1>2, <1>t DEF Write, TypeOK
    <3>4. writer'[x][q] = IF x = t /\ q = r THEN s ELSE writer[x][q]
      BY <1>2, <1>t, <3>2 DEF Write, Store, TypeOK
    <3>5. CASE x = t /\ q = r
      BY <3>1, <3>2, <3>4, <3>5, <2>3
    <3>6. CASE ~(x = t /\ q = r)
      BY <3>1, <3>2, <3>3, <3>4, <3>6, <2>3 DEF WrittenIsStored
    <3> QED
      BY <3>5, <3>6
  <2> QED
    BY <2>7, <2>8, <2>9, <2>10, <2>11, <2>12, <2>13, <2>14
<1>3. ASSUME NEW r \in Rows, NEW t \in Tables, WriteMisses(s, r, t)
      PROVE  UniqueParts'
  <2>1. phase[s] = "flushing" /\ refreshing[s] = {}
    BY <1>3 DEF WriteMisses, IsNext, RefreshInv, TodoIsWork
  <2>2. app.listener = "engine"
    BY <1>3, <1>t DEF WriteMisses, IsNext, IsMatched, RowsAreThere, TypeOK, Application
  <2>3. Clear(s) /\ UNCHANGED visible
    BY <1>3 DEF WriteMisses, Abort, AbortAfter
  <2>4. stored' = [x \in Tables |-> [q \in Rows |-> stored[x][q]]]
    BY <1>3 DEF WriteMisses, Abort, AbortAfter
  <2>5. stored' = stored
    BY <1>t, <2>4 DEF TypeOK, Content
  <2> QED
    BY <2>1, <2>2, <2>3, <2>5, AllIsFound, ClearUnique
<1>4. ASSUME AfterFlush(s)
      PROVE  UniqueParts'
  <2>1. phase[s] = "flushing" /\ refreshing[s] = {}
    BY <1>4 DEF AfterFlush
  <2>2. /\ UNCHANGED <<stored, visible, work, unchecked, todo, writer>>
        /\ phase'[s] = "flushed"
        /\ \A u \in Sessions : u # s => phase'[u] = phase[u] /\ refreshing'[u] = refreshing[u]
        /\ app.listener = "session" => refreshing'[s] = DirtyTables(work[s])
    BY <1>4, <1>t DEF AfterFlush, TypeOK
  <2>3. OneFlush'
    BY <2>1, <2>2 DEF OneFlush, Touched, NewRows
  <2>4. RowsAreThere' /\ ValuesAreUnique' /\ FoundIsUnique' /\ WrittenIsStored'
    BY <2>2 DEF RowsAreThere, ValuesAreUnique, FoundIsUnique, WrittenIsStored, Touched
  <2>5. NewRowsAreNew' /\ CheckedIsFree'
    BY <2>2 DEF NewRowsAreNew, CheckedIsFree, NewRows
  <2>6. ASSUME NEW r \in Rows, NEW t \in Tables, FlushWillRefresh(s, r, t)
        PROVE  t \in refreshing'[s]
    <3>1. r \in app.rows
      BY <2>6 DEF FlushWillRefresh, OneFlush
    <3>2. t = Named[ClassOf[r]]
      BY <2>6, <3>1 DEF Careful, LooksAfter, FlushWillRefresh
    <3> QED
      BY <2>2, <2>6, <3>2 DEF FlushWillRefresh, DirtyTables
  <2>7. StoredIsFound'
    <3> SUFFICES ASSUME NEW x \in Tables, NEW q \in Rows,
                        stored[x][q] # NoRow, visible[x][q] # stored[x][q]
                 PROVE  q \in NewRows(work'[s]) /\ x \in refreshing'[s]
      BY <2>2 DEF StoredIsFound
    <3>1. q \in NewRows(work[s]) /\ FlushWillRefresh(s, q, x)
      BY <2>1, AtWork DEF StoredIsFound
    <3> QED
      BY <3>1, <2>2, <2>6
  <2> QED
    BY <2>3, <2>4, <2>5, <2>7
<1>5. ASSUME NEW t \in Tables, Refresh(s, t)
      PROVE  UniqueParts'
  <2>1. /\ UNCHANGED <<stored, phase, work, unchecked, todo, writer>>
        /\ \A x \in Tables : x # t => visible'[x] = visible[x]
        /\ visible'[t] = stored[t]
        /\ \A u \in Sessions : \A x \in Tables : x # t /\ x \in refreshing[u] => x \in refreshing'[u]
    BY <1>5, <1>t DEF Refresh, TypeOK, Content
  <2>2. OneFlush'
    BY <2>1 DEF OneFlush, Touched, NewRows
  <2>3. RowsAreThere' /\ ValuesAreUnique' /\ WrittenIsStored'
    BY <2>1 DEF RowsAreThere, ValuesAreUnique, WrittenIsStored, Touched
  <2>4. NewRowsAreNew' /\ CheckedIsFree' /\ FoundIsUnique'
    BY <2>1, ShowUnique DEF NewRowsAreNew, NewRows
  <2>5. StoredIsFound'
    BY <2>1 DEF StoredIsFound, NewRows, FlushWillRefresh, Touched
  <2> QED
    BY <2>2, <2>3, <2>4, <2>5
<1>6. ASSUME Finish(s)
      PROVE  UniqueParts'
  <2>1. phase[s] = "flushed" /\ refreshing[s] = {} /\ Clear(s) /\ UNCHANGED <<stored, visible>>
    BY <1>6 DEF Finish
  <2> QED
    BY <2>1, AllIsFound, ClearUnique
<1> QED
  BY <1>1, <1>2, <1>3, <1>4, <1>5, <1>6 DEF FlushStep

\* Every step of a careful application keeps the invariant.
LEMMA UniqueStep ==
    ASSUME Careful, UniqueInv, [Next]_vars
    PROVE  UniqueInv'
<1> USE DEF UniqueInv, UniqueParts
<1>t. RefreshInv' /\ TypeOK
  BY RefreshStep DEF RefreshInv
<1>a. app' = app
  BY DEF Next, vars
<1> SUFFICES UniqueParts'
  BY <1>t
<1>1. ASSUME UNCHANGED vars
      PROVE  UniqueParts'
  <2>1. UNCHANGED <<app, stored, visible, phase, work, unchecked, todo, refreshing, writer>>
    BY <1>1 DEF vars, sessionVars
  <2>2. OneFlush' /\ RowsAreThere' /\ NewRowsAreNew'
    BY <2>1 DEF OneFlush, RowsAreThere, NewRowsAreNew, Touched, NewRows
  <2>3. StoredIsFound' /\ CheckedIsFree' /\ ValuesAreUnique'
    BY <2>1 DEF StoredIsFound, CheckedIsFree, ValuesAreUnique, FlushWillRefresh, Touched, NewRows
  <2>4. FoundIsUnique' /\ WrittenIsStored'
    BY <2>1 DEF FoundIsUnique, WrittenIsStored, Touched
  <2> QED
    BY <2>2, <2>3, <2>4
<1>2. ASSUME NEW s \in Sessions, NEW w \in [Rows -> Work], BeginFlush(s, w)
      PROVE  UniqueParts'
  <2>1. \A u \in Sessions : phase[u] = "idle"
    BY <1>2 DEF BeginFlush, MayStart, Careful
  <2>2. \A u \in Sessions : Touched(work[u]) = {} /\ NewRows(work[u]) = {}
    BY <2>1, NewIsTouched DEF OneFlush
  <2>3. /\ UNCHANGED <<stored, visible, refreshing>>
        /\ \A u \in Sessions : u # s =>
              /\ phase'[u] = phase[u] /\ work'[u] = work[u]
              /\ unchecked'[u] = unchecked[u] /\ todo'[u] = todo[u]
        /\ phase'[s] = "flushing" /\ work'[s] = w
        /\ unchecked'[s] = {r \in NewRows(w) : ClassOf[r] \in Checked}
        /\ todo'[s] = {rt \in Touched(w) \X Tables : rt[2] \in Mapped[ClassOf[rt[1]]]}
    BY <1>2, <1>t DEF BeginFlush, TypeOK
  <2>4. /\ Touched(w) \subseteq app.rows
        /\ \A q, r \in NewRows(w) : q = r
        /\ \A r \in Rows : w[r].kind # "dirty"
        /\ \A r \in NewRows(w), t \in Tables : stored[t][r] = NoRow
        /\ \A r \in Touched(w) \ NewRows(w) : \E t \in Tables : stored[t][r] # NoRow
    BY <1>2 DEF BeginFlush, MayFlush, Careful, Exists
  <2>5. OneFlush'
    <3>1. \A u, x \in Sessions : phase'[u] # "idle" /\ phase'[x] # "idle" => u = x
      BY <2>1, <2>3
    <3>2. ASSUME NEW u \in Sessions
          PROVE  /\ phase'[u] = "idle" => Touched(work'[u]) = {}
                 /\ Touched(work'[u]) \subseteq app'.rows
                 /\ \A q, r \in NewRows(work'[u]) : q = r
                 /\ \A r \in Rows : work'[u][r].kind # "dirty"
                 /\ unchecked'[u] \subseteq {r \in NewRows(work'[u]) : ClassOf[r] \in Checked}
      <4>1. CASE u = s
        BY <4>1, <1>a, <2>3, <2>4
      <4>2. CASE u # s
        <5>1. /\ phase'[u] = phase[u] /\ work'[u] = work[u] /\ unchecked'[u] = unchecked[u]
              /\ app' = app
          BY <4>2, <1>a, <2>3
        <5> QED
          BY <5>1 DEF OneFlush
      <4> QED
        BY <4>1, <4>2
    <3> QED
      BY <3>1, <3>2 DEF OneFlush, Touched, NewRows
  <2>6. RowsAreThere'
    <3>1. ASSUME app.listener = "session", NEW u \in Sessions, NEW r \in Rows, NEW t \in Tables,
                 <<r, t>> \in todo'[u]
          PROVE  work'[u][r].kind = "new" \/ stored[t][r] # NoRow
      <4>1. u = s
        BY <3>1, <2>2, <2>3 DEF RefreshInv, TodoIsWork
      <4>2. r \in Touched(w) /\ t \in Mapped[ClassOf[r]]
        BY <3>1, <4>1, <2>3
      <4>3. CASE r \in NewRows(w)
        BY <4>1, <4>3, <2>3 DEF NewRows
      <4>4. CASE r \notin NewRows(w)
        <5>1. PICK x \in Tables : stored[x][r] # NoRow
          BY <4>2, <4>4, <2>4
        <5>2. x \in Mapped[ClassOf[r]]
          BY <5>1 DEF RowsAreThere
        <5>3. x = Named[ClassOf[r]] /\ t = Named[ClassOf[r]]
          BY <3>1, <4>2, <5>2, <2>4 DEF Careful, LooksAfter
        <5> QED
          BY <5>1, <5>3
      <4> QED
        BY <4>3, <4>4
    <3> QED
      BY <3>1, <1>a, <2>3 DEF RowsAreThere
  <2>7. NewRowsAreNew'
    BY <2>2, <2>3, <2>4 DEF NewRowsAreNew, NewRows
  <2>8. StoredIsFound'
    BY <2>2, <2>3 DEF StoredIsFound
  <2>9. CheckedIsFree'
    BY <2>2, <2>3 DEF CheckedIsFree, NewRows
  <2>10. ValuesAreUnique' /\ FoundIsUnique'
    BY <2>3 DEF ValuesAreUnique, FoundIsUnique
  <2>11. WrittenIsStored'
    <3> SUFFICES ASSUME NEW u \in Sessions, NEW r \in Touched(work'[u]),
                        NEW t \in Mapped[ClassOf[r]]
                 PROVE  <<r, t>> \in todo'[u]
      BY DEF WrittenIsStored, Touched
    <3>1. u = s
      BY <2>2, <2>3
    <3>2. r \in Touched(w) /\ r \in Rows /\ t \in Tables
      BY <3>1, <2>3, NewIsTouched, MappingAssumption
    <3> QED
      BY <3>1, <3>2, <2>3
  <2> QED
    BY <2>5, <2>6, <2>7, <2>8, <2>9, <2>10, <2>11
<1>3. ASSUME NEW s \in Sessions, FlushStep(s)
      PROVE  UniqueParts'
  BY <1>3, <1>a, FlushStepUnique
<1>4. ASSUME NEW s \in Sessions, NEW r \in Rows, NEW t \in Tables,
             NEW v \in Values \cup {NoRow}, Execute(s, r, t, v)
      PROVE  FALSE
  BY <1>4 DEF Execute, Careful
<1>5. ASSUME NEW s \in Sessions, Fail(s)
      PROVE  FALSE
  BY <1>5 DEF Fail, Careful
<1>6. ASSUME NEW r \in Rows, NEW t \in Tables, NEW v \in Values \cup {NoRow}, WriteRaw(r, t, v)
      PROVE  FALSE
  BY <1>6 DEF WriteRaw, Careful
<1>7. ASSUME NEW t \in Tables, RefreshAnyway(t)
      PROVE  UniqueParts'
  <2>1. /\ UNCHANGED <<stored, phase, work, unchecked, todo, refreshing, writer>>
        /\ \A x \in Tables : visible'[x] = visible[x] \/ visible'[x] = stored[x]
    BY <1>7, <1>t DEF RefreshAnyway, sessionVars, TypeOK, Content
  <2>2. OneFlush' /\ RowsAreThere' /\ NewRowsAreNew'
    BY <1>a, <2>1 DEF OneFlush, RowsAreThere, NewRowsAreNew, Touched, NewRows
  <2>3. CheckedIsFree' /\ FoundIsUnique' /\ ValuesAreUnique' /\ WrittenIsStored'
    BY <2>1, ShowUnique DEF ValuesAreUnique, WrittenIsStored, Touched
  <2>4. StoredIsFound'
    BY <1>a, <2>1 DEF StoredIsFound, FlushWillRefresh, Touched, NewRows
  <2> QED
    BY <2>2, <2>3, <2>4
<1> QED
  BY <1>1, <1>2, <1>3, <1>4, <1>5, <1>6, <1>7 DEF Next, Step

\* The values of a careful application's rows stay unique, whatever the check finds, whether
\* flushes are cut short by it or by rows that have gone, and however late CrateDB refreshes.
THEOREM UniqueForTheCareful == Spec => []NoDuplicates
<1>1. Init => RefreshInv /\ (Careful => UniqueInv)
  BY InitRefresh, InitUnique DEF UniqueInv
<1>2. ASSUME RefreshInv, Careful => UniqueInv, [Next]_vars
      PROVE  RefreshInv' /\ (Careful => UniqueInv)'
  <2>1. Careful' => Careful
    BY <1>2 DEF Careful, LooksAfter, Next, vars
  <2> QED
    BY <1>2, <2>1, RefreshStep, UniqueStep
<1>3. (Careful => UniqueInv) => NoDuplicates
  BY DEF UniqueInv, UniqueParts, NoDuplicates
<1> QED
  BY <1>1, <1>2, <1>3, PTL DEF Spec

-----------------------------------------------------------------------------
(* Unseen writes are in the hands of a handler.                            *)

\* A session that has nothing to refresh lets go of its flush.
LEMMA AbortUnseen ==
    ASSUME RefreshInv, UnseenIsHandled, NEW s \in Sessions, refreshing[s] = {}, Abort(s),
           UNCHANGED <<visible, app>>
    PROVE  UnseenIsHandled'
<1>1. stored' = stored
  <2>1. stored' = [t \in Tables |-> [r \in Rows |-> stored[t][r]]]
    BY DEF Abort, AbortAfter
  <2> QED
    BY <2>1 DEF RefreshInv, TypeOK, Content
<1>2. refreshing' = refreshing
  BY DEF Abort, AbortAfter, Clear, RefreshInv, TypeOK
<1> QED
  BY <1>1, <1>2 DEF UnseenIsHandled

\* A statement that stores into a table hands the table to the handler of its session.
LEMMA StoreUnseen ==
    ASSUME TypeOK, UnseenIsHandled, NEW s \in Sessions, refreshing[s] = {},
           app.listener = "engine", NEW t \in Tables, NEW u, NEW r, NEW v, Store(u, t, r, v),
           refreshing' = [refreshing EXCEPT ![s] = {t}], UNCHANGED <<visible, app>>
    PROVE  UnseenIsHandled'
<1>1. /\ t \in refreshing'[s]
      /\ \A x \in Sessions : x # s => refreshing'[x] = refreshing[x]
  BY DEF TypeOK
<1>2. \A x \in Tables : x # t => stored'[x] = stored[x]
  BY DEF Store, TypeOK, Content
<1> QED
  BY <1>1, <1>2 DEF UnseenIsHandled

\* Every step keeps what is unseen in the hands of a handler.
LEMMA UnseenStep ==
    ASSUME RefreshInv, UnseenIsHandled, [Next]_vars
    PROVE  UnseenIsHandled'
<1>a. app' = app /\ TypeOK
  BY DEF Next, vars, RefreshInv
<1> SUFFICES ASSUME app.listener = "engine", app.habits \cap {"failure", "raw"} = {}
             PROVE  UnseenIsHandled'
  BY <1>a DEF UnseenIsHandled
<1>1. ASSUME UNCHANGED <<stored, visible, refreshing>>
      PROVE  UnseenIsHandled'
  BY <1>a, <1>1 DEF UnseenIsHandled
<1>2. ASSUME NEW s \in Sessions, NEW r \in Rows, Check(s, r)
      PROVE  UnseenIsHandled'
  BY <1>a, <1>1, <1>2, AbortUnseen DEF Check
<1>3. ASSUME NEW s \in Sessions, NEW r \in Rows, NEW t \in Tables, Write(s, r, t)
      PROVE  UnseenIsHandled'
  BY <1>a, <1>3, StoreUnseen DEF Write, IsNext, HandlerTables
<1>4. ASSUME NEW s \in Sessions, NEW r \in Rows, NEW t \in Tables, WriteMisses(s, r, t)
      PROVE  UnseenIsHandled'
  BY <1>a, <1>4, AbortUnseen DEF WriteMisses, IsNext
<1>5. ASSUME NEW s \in Sessions, AfterFlush(s)
      PROVE  UnseenIsHandled'
  <2>1. refreshing' = refreshing
    BY <1>a, <1>5 DEF AfterFlush, TypeOK
  <2> QED
    BY <1>1, <1>5, <2>1 DEF AfterFlush
<1>6. ASSUME NEW t \in Tables, visible' = [visible EXCEPT ![t] = stored[t]], stored' = stored,
             \A s \in Sessions : refreshing[s] \ {t} \subseteq refreshing'[s]
      PROVE  UnseenIsHandled'
  <2>1. visible'[t] = stored'[t] /\ \A x \in Tables : x # t => visible'[x] = visible[x]
    BY <1>a, <1>6 DEF TypeOK, Content
  <2> QED
    BY <1>a, <1>6, <2>1 DEF UnseenIsHandled
<1>7. ASSUME NEW s \in Sessions, NEW t \in Tables, Refresh(s, t)
      PROVE  UnseenIsHandled'
  <2>1. \A u \in Sessions : refreshing[u] \ {t} \subseteq refreshing'[u]
    BY <1>a, <1>7 DEF Refresh, TypeOK
  <2> QED
    BY <1>6, <1>7, <2>1 DEF Refresh
<1>8. ASSUME NEW s \in Sessions, Finish(s)
      PROVE  UnseenIsHandled'
  <2>1. refreshing' = refreshing
    BY <1>a, <1>8 DEF Finish, Clear, TypeOK
  <2> QED
    BY <1>1, <1>8, <2>1 DEF Finish
<1>9. ASSUME NEW s \in Sessions, NEW w \in [Rows -> Work], BeginFlush(s, w)
      PROVE  UnseenIsHandled'
  BY <1>1, <1>9 DEF BeginFlush
<1>10. ASSUME NEW s \in Sessions, NEW r \in Rows, NEW t \in Tables,
              NEW v \in Values \cup {NoRow}, Execute(s, r, t, v)
       PROVE  UnseenIsHandled'
  <2>1. refreshing[s] = {}
    BY <1>10 DEF Execute, MayStart, RefreshInv, IdleIsDone
  <2> QED
    BY <1>a, <1>10, <2>1, StoreUnseen DEF Execute, HandlerTables
<1>11. ASSUME NEW s \in Sessions, Fail(s)
       PROVE  FALSE
  BY <1>11 DEF Fail
<1>12. ASSUME NEW r \in Rows, NEW t \in Tables, NEW v \in Values \cup {NoRow}, WriteRaw(r, t, v)
       PROVE  FALSE
  BY <1>12 DEF WriteRaw
<1>13. ASSUME NEW t \in Tables, RefreshAnyway(t)
       PROVE  UnseenIsHandled'
  BY <1>6, <1>13 DEF RefreshAnyway, sessionVars
<1>14. CASE UNCHANGED vars
  BY <1>1, <1>14 DEF vars, sessionVars
<1>15. ASSUME NEW s \in Sessions, FlushStep(s)
       PROVE  UnseenIsHandled'
  BY <1>2, <1>3, <1>4, <1>5, <1>7, <1>8, <1>15 DEF FlushStep
<1> QED
  BY <1>9, <1>10, <1>11, <1>12, <1>13, <1>14, <1>15 DEF Next, Step

\* With the handler on the engine, a write that searches do not see is in the hands of a handler,
\* if none fails and none is raw: the safety that WritesBecomeVisible rests on.
THEOREM UnseenStaysHandled == Spec => []UnseenIsHandled
<1>1. Init => RefreshInv /\ UnseenIsHandled
  BY InitRefresh DEF Init, UnseenIsHandled
<1>2. RefreshInv /\ UnseenIsHandled /\ [Next]_vars => RefreshInv' /\ UnseenIsHandled'
  BY RefreshStep, UnseenStep
<1> QED
  BY <1>1, <1>2, PTL DEF Spec

-----------------------------------------------------------------------------
(* The promise of ConsistentRows.                                          *)

\* What is wanted while a session is at work is what is in its unit of work.
LEMMA WantedAtWork ==
    ASSUME UniqueInv, NEW s \in Sessions, phase[s] # "idle"
    PROVE  \A p : p \in Wanted <=>
               /\ p \in Rows \X (Values \cup {NoRow})
               /\ work[s][p[1]] # NoWork /\ work[s][p[1]].value = p[2]
<1>1. \A u \in Sessions : u # s => \A r \in Rows : work[u][r] = NoWork
  BY AtWork DEF Touched
<1> QED
  BY <1>1 DEF Wanted

\* What a unit of work has for a row is wanted.
LEMMA WorkIsWanted ==
    ASSUME TypeOK, NEW s \in Sessions, NEW r \in Touched(work[s])
    PROVE  /\ <<r, work[s][r].value>> \in Wanted
           /\ r \in Rows /\ work[s][r].value \in Values \cup {NoRow}
<1>1. r \in Rows /\ work[s][r] # NoWork
  BY DEF Touched
<1>2. work[s][r].value \in Values \cup {NoRow}
  BY <1>1 DEF TypeOK, Work, NoWork
<1> QED
  BY <1>1, <1>2 DEF Wanted

\* A careful application adds rows and deletes them.
LEMMA KindsOfWork ==
    ASSUME TypeOK, OneFlush, NEW s \in Sessions, NEW r \in Touched(work[s])
    PROVE  \/ work[s][r].kind = "new" /\ work[s][r].value \in Values
           \/ work[s][r].kind # "new" /\ work[s][r].value = NoRow
<1>1. work[s][r] \in Work /\ work[s][r] # NoWork
  BY DEF Touched, TypeOK
<1>2. work[s][r].kind # "dirty"
  BY DEF OneFlush, Touched
<1> QED
  BY <1>1, <1>2 DEF Work

\* Nothing is wanted when the only session at work lets go of its flush.
LEMMA ClearWants ==
    ASSUME UniqueInv, NEW s \in Sessions, phase[s] # "idle", Clear(s)
    PROVE  Wanted' = {}
<1>1. \A u \in Sessions : \A r \in Rows : work'[u][r] = NoWork
  BY AtWork DEF Clear, Touched, UniqueInv, RefreshInv, TypeOK
<1> QED
  BY <1>1 DEF Wanted

\* A flush begins with its unit of work.
LEMMA FlushBegins ==
    ASSUME Careful, UniqueInv, NEW s \in Sessions, NEW w \in [Rows -> Work], BeginFlush(s, w),
           app' = app
    PROVE  Promise!Begin
<1>1. \A u \in Sessions : \A r \in Rows : work[u][r] = NoWork
  BY DEF BeginFlush, MayStart, Careful, UniqueInv, UniqueParts, OneFlush, Touched
<1>2. /\ work' = [work EXCEPT ![s] = w] /\ UNCHANGED <<stored, visible>>
      /\ Touched(w) # {}
      /\ \A q, r \in NewRows(w) : q = r
      /\ \A r \in Rows : w[r].kind # "dirty"
      /\ \A r \in NewRows(w), t \in Tables : stored[t][r] = NoRow
  BY DEF BeginFlush, MayFlush, Careful, Exists
<1>3. ASSUME NEW r \in Rows, w[r] # NoWork
      PROVE  w[r].value \in Values \cup {NoRow} /\ (w[r].value # NoRow => r \in NewRows(w))
  BY <1>2, <1>3 DEF Work, NoWork, NewRows
<1>4. \A p : p \in Wanted' <=>
          p \in Rows \X (Values \cup {NoRow}) /\ w[p[1]] # NoWork /\ w[p[1]].value = p[2]
  BY <1>1, <1>2 DEF Wanted, UniqueInv, RefreshInv, TypeOK
<1>5. Wanted = {}
  BY <1>1 DEF Wanted
<1>6. Wanted' # {}
  <2>1. PICK r \in Rows : w[r] # NoWork
    BY <1>2 DEF Touched
  <2>2. <<r, w[r].value>> \in Wanted'
    BY <1>3, <1>4, <2>1
  <2> QED
    BY <2>2
<1>7. \A p, q \in Wanted' :
          (p[1] = q[1] => p = q) /\ (p[2] # NoRow /\ q[2] # NoRow => p = q)
  BY <1>2, <1>3, <1>4
<1>8. ASSUME NEW p \in Wanted', NEW f \in Found, p[1] = f[2], p[2] # NoRow
      PROVE  f[2] \in Doomed
  <2>1. p[1] \in NewRows(w) /\ p[1] \in Rows
    BY <1>3, <1>4, <1>8
  <2>2. PICK t \in Mapped[f[1]] : visible[t][f[2]] = f[3] /\ t \in Tables
    BY MappingAssumption DEF Found
  <2>3. f[3] # NoRow
    BY SentinelsAssumption DEF Found
  <2> QED
    BY <1>2, <1>8, <2>1, <2>2, <2>3 DEF Doomed
<1>9. Found' = Found /\ Doomed' = Doomed
  BY <1>2 DEF Found, Doomed
<1> QED
  BY <1>5, <1>6, <1>7, <1>8, <1>9 DEF Promise!Begin

\* A statement stores its row.
LEMMA WriteStores ==
    ASSUME UniqueInv, NEW s \in Sessions, NEW r \in Rows, NEW t \in Tables, Write(s, r, t)
    PROVE  \E p \in Wanted : Promise!Store(p)
<1> USE DEF UniqueInv, UniqueParts, RefreshInv
<1> DEFINE v == work[s][r].value
<1>1. r \in Touched(work[s]) /\ phase[s] = "flushing"
  BY DEF Write, IsNext, TodoIsWork
<1>2. <<r, v>> \in Wanted
  BY <1>1, WorkIsWanted
<1>3. /\ UNCHANGED <<visible, work>>
      /\ \A x \in Tables, q \in Rows :
            stored'[x][q] = IF x = t /\ q = r THEN v ELSE stored[x][q]
  BY DEF Write, Store, TypeOK, Content
<1>4. Found' = Found /\ Wanted' = Wanted
  BY <1>3 DEF Found, Wanted
<1>5. \/ work[s][r].kind = "new"
      \/ v = NoRow /\ work[s][r].kind # "new"
  BY <1>1, KindsOfWork
<1>6. \A q \in Rows : q # r => (q \in Doomed' <=> q \in Doomed)
  BY <1>3 DEF Doomed
<1>7. CASE v = NoRow /\ work[s][r].kind # "new"
  <2>1. stored[t][r] # NoRow
    BY <1>7 DEF Write, IsMatched
  <2>2. r \notin NewRows(work[s])
    BY <1>7 DEF NewRows
  <2>3. visible[t][r] = stored[t][r]
    BY <1>1, <2>1, <2>2, AtWork DEF StoredIsFound
  <2>4. r \in Doomed'
    BY <1>3, <1>7, <2>1, <2>3 DEF Doomed
  <2>5. Doomed' = Doomed \cup {r}
    BY <1>6, <2>4 DEF Doomed
  <2> QED
    BY <1>2, <1>4, <1>7, <2>5 DEF Promise!Store
<1>8. CASE work[s][r].kind = "new"
  <2>1. r \in NewRows(work[s])
    BY <1>8 DEF NewRows
  <2>2. v # NoRow
    BY <1>8, SentinelsAssumption DEF TypeOK, Work, NoWork
  <2>3. stored[t][r] \in {NoRow, v}
    BY <2>1 DEF NewRowsAreNew
  <2>4. r \in Doomed' => r \in Doomed
    BY <1>3, <2>3 DEF Doomed
  <2>5. Doomed' \in {Doomed, Doomed \ {r}}
    BY <1>6, <2>4 DEF Doomed
  <2> QED
    BY <1>2, <1>4, <2>2, <2>5 DEF Promise!Store
<1> QED
  BY <1>5, <1>7, <1>8

\* A refresh shows what was written, be it a handler's or CrateDB's own.
LEMMA RefreshShows ==
    ASSUME UniqueInv, FoundIsUnique', UNCHANGED <<stored, work>>,
           \A t \in Tables : visible'[t] = visible[t] \/ visible'[t] = stored[t]
    PROVE  Promise!Show
<1> USE DEF UniqueInv, UniqueParts, RefreshInv
<1>m. \A c \in Classes : Mapped[c] \subseteq Tables
  BY MappingAssumption
<1>1. ASSUME NEW f \in Found' \ Found
      PROVE  <<f[2], f[3]>> \in Wanted
  <2>1. /\ f \in Classes \X Rows \X Values
        /\ \A t \in Mapped[f[1]] : visible'[t][f[2]] = f[3]
    BY DEF Found
  <2>2. PICK t \in Mapped[f[1]] : visible[t][f[2]] # f[3]
    BY <2>1 DEF Found
  <2>3. t \in Tables /\ f[2] \in Rows /\ f[3] \in Values /\ f[3] # NoRow
    BY <1>m, <2>1, SentinelsAssumption
  <2>4. stored[t][f[2]] = f[3]
    BY <2>1, <2>2, <2>3
  <2>5. PICK s \in Sessions : f[2] \in NewRows(work[s])
    BY <2>2, <2>3, <2>4 DEF StoredIsFound
  <2>6. work[s][f[2]].value = f[3]
    BY <2>3, <2>4, <2>5 DEF NewRowsAreNew
  <2> QED
    BY <2>5, <2>6, WorkIsWanted, NewIsTouched
<1>2. ASSUME NEW f \in Found \ Found'
      PROVE  f[2] \in Doomed
  <2>1. /\ f \in Classes \X Rows \X Values
        /\ \A t \in Mapped[f[1]] : visible[t][f[2]] = f[3]
    BY DEF Found
  <2>2. PICK t \in Mapped[f[1]] : visible'[t][f[2]] # f[3]
    BY <2>1 DEF Found
  <2>3. t \in Tables /\ f[2] \in Rows /\ f[3] # NoRow
    BY <1>m, <2>1, SentinelsAssumption
  <2> QED
    BY <2>1, <2>2, <2>3 DEF Doomed
<1>3. Doomed' \subseteq Doomed
  BY DEF Doomed
<1>4. Promise!Unique'
  <2> SUFFICES ASSUME NEW f \in Found', NEW g \in Found', f[1] = g[1], f[3] = g[3],
                      f[1] \in Checked, ClassOf[f[2]] = f[1], ClassOf[g[2]] = f[1], f # g
               PROVE  FALSE
    BY DEF Promise!Unique
  <2>1. /\ f \in Classes \X Rows \X Values /\ g \in Classes \X Rows \X Values
        /\ \A t \in Mapped[f[1]] : visible'[t][f[2]] = f[3] /\ visible'[t][g[2]] = f[3]
    BY DEF Found
  <2>2. f[2] \in Rows /\ g[2] \in Rows /\ f[3] \in Values /\ f[2] # g[2]
    BY <2>1
  <2> QED
    BY <2>1, <2>2 DEF FoundIsUnique
<1>5. Wanted' = Wanted
  BY DEF Wanted
<1> QED
  BY <1>1, <1>2, <1>3, <1>4, <1>5 DEF Promise!Show

\* A flush that returns leaves its rows as it gave them, wherever searches look for them.
LEMMA FinishReturns ==
    ASSUME Careful, UniqueInv, NEW s \in Sessions, Finish(s)
    PROVE  Promise!Return
<1> USE DEF UniqueInv, UniqueParts, RefreshInv
<1>1. /\ phase[s] = "flushed" /\ refreshing[s] = {} /\ Clear(s)
      /\ UNCHANGED <<stored, visible, writer>>
  BY DEF Finish
<1>2. ASSUME NEW r \in Touched(work[s]), NEW t \in Mapped[ClassOf[r]]
      PROVE  visible[t][r] = work[s][r].value
  <2>1. r \in app.rows /\ r \in Rows /\ t \in Tables
    BY MappingAssumption, NewIsTouched DEF OneFlush
  <2>2. <<r, t>> \notin todo[s]
    BY <1>1, <2>1 DEF TodoIsWork
  <2>3. stored[t][r] = work[s][r].value /\ writer[t][r] = s
    BY <2>2 DEF WrittenIsStored
  <2>4. LooksAfter(t, r)
    BY <2>1 DEF Careful
  <2> QED
    BY <1>1, <2>1, <2>3, <2>4 DEF Answered, FlushWillRefresh
<1>3. ASSUME NEW p \in Wanted, NEW c \in Classes, NEW v \in Values,
             Mapped[c] \subseteq Mapped[ClassOf[p[1]]]
      PROVE  <<c, p[1], v>> \in Found <=> v = p[2]
  <2>1. p[1] \in Rows /\ p[1] \in Touched(work[s]) /\ work[s][p[1]].value = p[2]
    BY <1>1, WantedAtWork DEF Touched
  <2>2. \A t \in Mapped[c] : visible[t][p[1]] = p[2]
    BY <1>2, <1>3, <2>1
  <2>3. Mapped[c] # {}
    BY MappingAssumption
  <2> QED
    BY <2>1, <2>2, <2>3 DEF Found
<1>4. Wanted' = {} /\ Found' = Found /\ Doomed' = Doomed
  BY <1>1, ClearWants DEF Found, Doomed
<1> QED
  BY <1>3, <1>4 DEF Promise!Return

\* A flush that is cut short before its statement is executed leaves all rows as they are.
LEMMA AbortKeepsRows ==
    ASSUME UniqueInv, NEW s \in Sessions, phase[s] # "idle", Abort(s), UNCHANGED visible
    PROVE  Wanted' = {} /\ Found' = Found /\ Doomed' = Doomed
<1>1. stored' = [t \in Tables |-> [r \in Rows |-> stored[t][r]]]
  BY DEF Abort, AbortAfter
<1>2. stored' = stored
  BY <1>1 DEF UniqueInv, RefreshInv, TypeOK, Content
<1> QED
  BY <1>2, ClearWants DEF Abort, AbortAfter, Found, Doomed

\* The check refuses a row whose values are found.
LEMMA CheckRefuses ==
    ASSUME UniqueInv, NEW s \in Sessions, NEW r \in Rows, Check(s, r),
           Taken(ClassOf[r], work[s][r].value)
    PROVE  \E p \in Wanted : Promise!Refuse(p)
<1> USE DEF UniqueInv, UniqueParts, RefreshInv
<1>1. r \in NewRows(work[s]) /\ ClassOf[r] \in Checked
  BY DEF Check, OneFlush
<1>2. r \in Touched(work[s]) /\ phase[s] # "idle"
  BY <1>1, NewIsTouched DEF OneFlush
<1>3. work[s][r].value \in Values
  BY <1>1 DEF NewRows, TypeOK, Work, NoWork
<1>4. PICK q \in Rows : \A t \in Mapped[ClassOf[r]] : visible[t][q] = work[s][r].value
  BY DEF Taken
<1>5. <<ClassOf[r], q, work[s][r].value>> \in Found
  BY <1>3, <1>4, MappingAssumption DEF Found
<1>6. Wanted' = {} /\ Found' = Found /\ Doomed' = Doomed
  BY <1>2, AbortKeepsRows DEF Check
<1> QED
  BY <1>1, <1>2, <1>5, <1>6, WorkIsWanted DEF Promise!Refuse

\* SQLAlchemy refuses to change a row that is not found, either.
LEMMA MissRefuses ==
    ASSUME Careful, UniqueInv, UnseenIsHandled, NEW s \in Sessions, NEW r \in Rows,
           NEW t \in Tables, WriteMisses(s, r, t)
    PROVE  \E p \in Wanted : Promise!Refuse(p)
<1> USE DEF UniqueInv, UniqueParts, RefreshInv
<1>1. /\ <<r, t>> \in todo[s] /\ refreshing[s] = {} /\ Abort(s) /\ UNCHANGED visible
      /\ work[s][r].kind # "new" /\ stored[t][r] = NoRow
  BY DEF WriteMisses, IsNext, IsMatched
<1>2. phase[s] = "flushing" /\ r \in Touched(work[s]) /\ t \in Mapped[ClassOf[r]]
  BY <1>1 DEF TodoIsWork
<1>3. work[s][r].value = NoRow
  BY <1>1, <1>2 DEF Touched, TypeOK, Work, NoWork, OneFlush
<1>4. app.listener = "engine"
  BY <1>1 DEF RowsAreThere, TypeOK, Application
<1>5. visible[t] = stored[t]
  <2>1. \A u \in Sessions : refreshing[u] = {}
    BY <1>1, <1>2, AtWork DEF IdleIsDone
  <2> QED
    BY <1>4, <2>1 DEF UnseenIsHandled, Careful
<1>6. ASSUME NEW f \in Found, f[2] = r
      PROVE  f[1] # ClassOf[r]
  <2>1. f[3] # NoRow /\ \A x \in Mapped[f[1]] : visible[x][r] = f[3]
    BY <1>6, SentinelsAssumption DEF Found
  <2> QED
    BY <1>1, <1>2, <1>5, <2>1
<1>7. Wanted' = {} /\ Found' = Found /\ Doomed' = Doomed
  BY <1>1, <1>2, AbortKeepsRows
<1>8. <<r, NoRow>> \in Wanted
  BY <1>2, <1>3, WorkIsWanted
<1> QED
  BY <1>6, <1>7, <1>8 DEF Promise!Refuse

\* Every step of a careful application is one of the promise, or changes nothing of it.
LEMMA PromiseStep ==
    ASSUME Careful, UniqueInv, UnseenIsHandled, [Next]_vars
    PROVE  [Promise!Next]_(Promise!vars)
<1>a. app' = app /\ TypeOK
  BY DEF Next, vars, UniqueInv, RefreshInv
<1>1. ASSUME UNCHANGED <<stored, visible, work>>
      PROVE  UNCHANGED Promise!vars
  BY <1>1 DEF Promise!vars, Found, Wanted, Doomed
<1>2. CASE UNCHANGED vars
  BY <1>1, <1>2 DEF vars, sessionVars
<1>3. ASSUME NEW s \in Sessions, NEW w \in [Rows -> Work], BeginFlush(s, w)
      PROVE  Promise!Next
  BY <1>a, <1>3, FlushBegins DEF Promise!Next
<1>4. ASSUME NEW s \in Sessions, NEW r \in Rows, Check(s, r)
      PROVE  [Promise!Next]_(Promise!vars)
  <2>1. CASE Taken(ClassOf[r], work[s][r].value)
    BY <1>4, <2>1, CheckRefuses DEF Promise!Next
  <2>2. CASE ~Taken(ClassOf[r], work[s][r].value)
    BY <1>1, <1>4, <2>2 DEF Check
  <2> QED
    BY <2>1, <2>2
<1>5. ASSUME NEW s \in Sessions, NEW r \in Rows, NEW t \in Tables, Write(s, r, t)
      PROVE  Promise!Next
  BY <1>5, WriteStores DEF Promise!Next
<1>6. ASSUME NEW s \in Sessions, NEW r \in Rows, NEW t \in Tables, WriteMisses(s, r, t)
      PROVE  Promise!Next
  BY <1>6, MissRefuses DEF Promise!Next
<1>7. ASSUME NEW s \in Sessions, AfterFlush(s)
      PROVE  UNCHANGED Promise!vars
  BY <1>1, <1>7 DEF AfterFlush
<1>8. ASSUME NEW t \in Tables, visible' = [visible EXCEPT ![t] = stored[t]],
             UNCHANGED <<stored, work, unchecked>>
      PROVE  Promise!Next
  <2>1. \A x \in Tables : visible'[x] = visible[x] \/ visible'[x] = stored[x]
    BY <1>a, <1>8 DEF TypeOK, Content
  <2>2. FoundIsUnique'
    BY <1>8, <2>1, ShowUnique
  <2> QED
    BY <1>8, <2>1, <2>2, RefreshShows DEF Promise!Next
<1>9. ASSUME NEW s \in Sessions, NEW t \in Tables, Refresh(s, t)
      PROVE  Promise!Next
  BY <1>8, <1>9 DEF Refresh
<1>10. ASSUME NEW s \in Sessions, Finish(s)
       PROVE  Promise!Next
  BY <1>10, FinishReturns DEF Promise!Next
<1>11. ASSUME NEW s \in Sessions, NEW r \in Rows, NEW t \in Tables,
              NEW v \in Values \cup {NoRow}, Execute(s, r, t, v)
       PROVE  FALSE
  BY <1>11 DEF Execute, Careful
<1>12. ASSUME NEW s \in Sessions, Fail(s)
       PROVE  FALSE
  BY <1>12 DEF Fail, Careful
<1>13. ASSUME NEW r \in Rows, NEW t \in Tables, NEW v \in Values \cup {NoRow}, WriteRaw(r, t, v)
       PROVE  FALSE
  BY <1>13 DEF WriteRaw, Careful
<1>14. ASSUME NEW t \in Tables, RefreshAnyway(t)
       PROVE  Promise!Next
  BY <1>8, <1>14 DEF RefreshAnyway, sessionVars
<1>15. ASSUME NEW s \in Sessions, FlushStep(s)
       PROVE  [Promise!Next]_(Promise!vars)
  BY <1>4, <1>5, <1>6, <1>7, <1>9, <1>10, <1>15 DEF FlushStep
<1> QED
  BY <1>2, <1>3, <1>11, <1>12, <1>13, <1>14, <1>15 DEF Next, Step

\* The handlers, the check and the unit of work keep the promise of ConsistentRows to every
\* careful application, however late CrateDB refreshes and wherever its flushes are cut short.
THEOREM PromiseIsKept == Spec => ImplementsConsistentRows
<1> DEFINE Inv == RefreshInv /\ UnseenIsHandled /\ (Careful => UniqueInv)
<1>1. Init => Inv
  BY InitRefresh, InitUnique DEF Init, UnseenIsHandled, UniqueInv
<1>2. Inv /\ [Next]_vars => Inv'
  <2> SUFFICES ASSUME RefreshInv, UnseenIsHandled, Careful => UniqueInv, [Next]_vars
               PROVE  Inv'
    OBVIOUS
  <2>1. Careful' => Careful
    BY DEF Careful, LooksAfter, Next, vars
  <2> QED
    BY <2>1, RefreshStep, UnseenStep, UniqueStep
<1>3. Init => (Careful => Promise!Init)
  <2> SUFFICES ASSUME Init
               PROVE  Promise!Init
    OBVIOUS
  <2>1. Found = {}
    BY MappingAssumption, SentinelsAssumption DEF Init, Found
  <2>2. Wanted = {} /\ Doomed = {}
    BY DEF Init, Wanted, Doomed
  <2> QED
    BY <2>1, <2>2 DEF Promise!Init
<1>4. Inv /\ [Next]_vars => [Careful => [Promise!Next]_(Promise!vars)]_vars
  BY PromiseStep
<1> QED
  BY <1>1, <1>2, <1>3, <1>4, PTL DEF Spec, ImplementsConsistentRows
=============================================================================
