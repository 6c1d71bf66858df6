-------------------------- MODULE RowUpdatesProofs --------------------------
(* Proofs about RowUpdates, for any rows, columns, keys and applications.  *)
EXTENDS RowUpdates, TLAPS

\* The application does not change.
LEMMA AppStays == [Next]_vars => app' = app
BY DEF Next, vars

\* The row without contents is a row.
LEMMA NoRowType == NoRow \in Row
BY ContentsAssumption, NamesAssumption DEF NoRow, Row, Fields, Contents

\* A written field leaves a row.
LEMMA WriteField ==
    ASSUME NEW row \in Row, NEW f \in Fields, NEW v \in Contents, f \in Columns => v # Absent
    PROVE  [row EXCEPT ![f] = v] \in Row
BY DEF Row, Fields

\* So does a statement, and what the session takes over from it.
LEMMA RowAfterType ==
    ASSUME NEW row \in Row, NEW names, NEW values \in Row, NEW t \in Values
    PROVE  RowAfter(row, names, values, t) \in Row
BY ContentsAssumption, NamesAssumption
DEF RowAfter, Row, Fields, Contents

LEMMA HeldAfterType ==
    ASSUME TypeOK, NEW r \in Rows, NEW names, NEW t \in Values
    PROVE  HeldAfter(r, names, t) \in Row
<1>1. held[r] \in Row
  BY DEF TypeOK
<1>2. t \in Contents /\ t # Absent
  BY ContentsAssumption DEF Contents
<1> QED
  BY <1>1, <1>2 DEF HeldAfter, Row, Fields

\* The parameters of a row are values for its fields.
LEMMA ParameterValuesType ==
    ASSUME TypeOK, NEW r \in Rows
    PROVE  ParameterValues(r) \in Row
<1>1. held[r] \in Row
  BY DEF TypeOK
<1>2. ASSUME NEW k \in Keys
      PROVE  WrittenContent(Document(r), changed[r], deleted[r], k) \in Contents
  BY <1>1 DEF WrittenContent, AssignedContent, Document, Row, Fields, Contents
<1> QED
  BY <1>1, <1>2, NamesAssumption DEF ParameterValues, Row, Fields

\* So are the values bound for a row in the statement of another.
LEMMA BoundValuesType ==
    ASSUME TypeOK, NEW r \in Rows, NEW q \in Rows
    PROVE  BoundValues(r, q) \in Row
<1>1. ParameterValues(r) \in Row /\ ParameterValues(q) \in Row
  BY ParameterValuesType
<1> QED
  BY <1>1, NamesAssumption DEF BoundValues, Row, Fields

\* A statement leaves rows.
LEMMA ExecutedType ==
    ASSUME TypeOK, NEW r \in Rows, NEW rows, NEW t \in Values
    PROVE  Executed(r, rows, t) \in [Rows -> Row]
<1>1. ASSUME NEW q \in Rows
      PROVE  /\ stored[q] \in Row
             /\ RowAfter(stored[q], SentNames(r), BoundValues(r, q), t) \in Row
  <2>1. stored[q] \in Row
    BY DEF TypeOK
  <2> QED
    BY <2>1, BoundValuesType, RowAfterType
<1> QED
  BY <1>1 DEF Executed

\* What is sent for a row are names of columns and keys.
LEMMA AssignedFieldsType ==
    ASSUME NEW names
    PROVE  AssignedFields(names) \subseteq Fields
BY NamesAssumption
DEF AssignedFields, ColumnTargets, DefaultTargets, SubscriptTargets, Attributes, Fields

\* The end of a flush or of a transaction keeps the types.
LEMMA ExpireType ==
    ASSUME TypeOK, Expire, Settle, app' = app, outcome' \in Outcomes,
           stored' \in [Rows -> Row], astray' \in BOOLEAN
    PROVE  TypeOK'
BY NoRowType DEF TypeOK, Expire, Settle

\* Every statement of a flush keeps the types.
LEMMA FlushType ==
    ASSUME TypeOK, NEW r \in Rows, app' = app,
           (\E t \in Values : ExecuteUpdate(r, t) \/ ExecuteFails(r, t))
               \/ ExecuteMany(r) \/ IsNotParsed(r)
    PROVE  TypeOK'
<1>1. ASSUME Mix(r)
      PROVE  astray' \in BOOLEAN
  BY <1>1 DEF Mix
<1>2. ASSUME NEW t \in Values, ExecuteUpdate(r, t)
      PROVE  TypeOK'
  <2>1. stored' \in [Rows -> Row] /\ astray' \in BOOLEAN
    BY <1>1, <1>2, ExecutedType DEF ExecuteUpdate
  <2>2. CASE queue = Group(r) /\ ~Keeps
    BY <1>2, <2>1, <2>2, ExpireType DEF ExecuteUpdate, TypeOK
  <2>3. CASE ~(queue = Group(r) /\ ~Keeps)
    <3>1. TakeOver(r, t)
      BY <1>2, <2>3 DEF ExecuteUpdate
    <3>2. \A q \in Rows : HeldAfter(q, SentNames(r), t) \in Row
      BY HeldAfterType
    <3>3. held' \in [Rows -> Row]
      BY <3>1, <3>2 DEF TakeOver, TypeOK
    <3>4. /\ foreign' \in [Rows -> SUBSET Fields]
          /\ queue' \in SUBSET Rows
          /\ UNCHANGED <<loaded, changed, deleted>>
      BY <3>1 DEF TakeOver, TypeOK
    <3> QED
      BY <1>2, <2>1, <2>3, <3>3, <3>4 DEF ExecuteUpdate, TypeOK, Settle
  <2> QED
    BY <2>2, <2>3
<1>3. ASSUME NEW t \in Values, ExecuteFails(r, t)
      PROVE  TypeOK'
  <2>1. stored' \in [Rows -> Row] /\ astray' \in BOOLEAN
    BY <1>1, <1>3, ExecutedType DEF ExecuteFails
  <2> QED
    BY <1>3, <2>1, ExpireType DEF ExecuteFails, Abandon, Outcomes
<1>4. CASE ExecuteMany(r)
  BY <1>4, ExpireType DEF ExecuteMany, Abandon, Outcomes, TypeOK
<1>5. CASE IsNotParsed(r)
  BY <1>5, ExpireType DEF IsNotParsed, Abandon, Outcomes, TypeOK
<1> QED
  BY <1>2, <1>3, <1>4, <1>5

\* So does an update of all rows.
LEMMA UpdateAllType ==
    ASSUME TypeOK, NEW own \in SUBSET Attributes, NEW row \in Row, NEW t \in Values,
           UpdateAll(own, row, t), app' = app
    PROVE  TypeOK'
<1>1. stored' \in [Rows -> Row]
  BY RowAfterType DEF UpdateAll, TypeOK
<1>2. ASSUME NEW r \in Rows
      PROVE  [f \in Fields |-> IF Attribute(f) \in own THEN row[f] ELSE held[r][f]] \in Row
  BY NamesAssumption DEF TypeOK, Row, Fields
<1>3. held' \in [Rows -> Row]
  BY <1>2 DEF UpdateAll, TypeOK
<1>4. foreign' \in [Rows -> SUBSET Fields]
  BY NamesAssumption DEF UpdateAll, TypeOK, Fields
<1> QED
  BY <1>1, <1>3, <1>4 DEF UpdateAll, TypeOK

\* Every edit of the application keeps the types.
LEMMA EditType ==
    ASSUME TypeOK, NEW r \in Rows, app' = app,
           \/ \E c \in Columns, v \in Values \cup {Null} : SetColumn(r, c, v)
           \/ \E k \in Keys : DelItem(r, k) \/ \E v \in Values \cup {Null} : SetItem(r, k, v)
           \/ \E k \in Keys, v \in Contents : Mutate(r, k, v)
           \/ ReplaceDocument(r)
    PROVE  TypeOK'
<1>1. ASSUME NEW fields \in SUBSET Fields, Edits(r, fields)
      PROVE  /\ edited' \in [Rows -> SUBSET Fields]
             /\ UNCHANGED <<stored, loaded, queue, outcome, foreign>>
  BY <1>1 DEF Edits, TypeOK
<1>2. held[r] \in Row /\ held \in [Rows -> Row]
  BY DEF TypeOK
<1>3. Keys \subseteq Fields /\ Columns \subseteq Fields /\ Keys \cap Columns = {}
      /\ Columns \subseteq Attributes /\ Data \in Attributes
  BY NamesAssumption DEF Fields, Attributes
<1>4. ASSUME NEW c \in Columns, NEW v \in Values \cup {Null}, SetColumn(r, c, v)
      PROVE  TypeOK'
  <2>1. [held[r] EXCEPT ![c] = v] \in Row
    BY <1>2, <1>3, WriteField, ContentsAssumption DEF Contents
  <2>2. held' \in [Rows -> Row]
    BY <1>2, <1>4, <2>1 DEF SetColumn
  <2>3. Edits(r, {c}) /\ {c} \in SUBSET Fields
    BY <1>3, <1>4 DEF SetColumn
  <2> QED
    BY <1>1, <1>3, <1>4, <2>2, <2>3 DEF SetColumn, TypeOK
<1>5. ASSUME NEW k \in Keys, NEW v \in Values \cup {Null}, SetItem(r, k, v)
      PROVE  TypeOK'
  <2>1. [held[r] EXCEPT ![k] = v] \in Row
    BY <1>2, <1>3, WriteField DEF Contents
  <2>2. held' \in [Rows -> Row]
    BY <1>2, <1>5, <2>1 DEF SetItem
  <2>3. Edits(r, {k}) /\ {k} \in SUBSET Fields
    BY <1>3, <1>5 DEF SetItem
  <2> QED
    BY <1>1, <1>3, <1>5, <2>2, <2>3 DEF SetItem, Marked, TypeOK
<1>6. ASSUME NEW k \in Keys, DelItem(r, k)
      PROVE  TypeOK'
  <2>1. [held[r] EXCEPT ![k] = Absent] \in Row
    BY <1>2, <1>3, WriteField DEF Contents
  <2>2. held' \in [Rows -> Row]
    BY <1>2, <1>6, <2>1 DEF DelItem
  <2>3. Edits(r, {k}) /\ {k} \in SUBSET Fields
    BY <1>3, <1>6 DEF DelItem
  <2> QED
    BY <1>1, <1>3, <1>6, <2>2, <2>3 DEF DelItem, TypeOK
<1>7. CASE ReplaceDocument(r)
  <2>1. Edits(r, Keys \cap app.fields) /\ Keys \cap app.fields \in SUBSET Fields
    BY <1>3, <1>7 DEF ReplaceDocument
  <2>2. held' \in [Rows -> Row]
    BY <1>2, <1>7 DEF ReplaceDocument
  <2> QED
    BY <1>1, <1>3, <1>7, <2>1, <2>2 DEF ReplaceDocument, TypeOK
<1>8. ASSUME NEW k \in Keys, NEW v \in Contents, Mutate(r, k, v)
      PROVE  TypeOK'
  <2>1. [held[r] EXCEPT ![k] = v] \in Row
    BY <1>2, <1>3, WriteField
  <2>2. held' \in [Rows -> Row]
    BY <1>2, <1>8, <2>1 DEF Mutate
  <2>3. Edits(r, {k}) /\ {k} \in SUBSET Fields
    BY <1>3, <1>8 DEF Mutate
  <2> QED
    BY <1>1, <1>8, <2>2, <2>3 DEF Mutate, TypeOK
<1> QED
  BY <1>4, <1>5, <1>6, <1>7, <1>8

\* Every step keeps the types.
LEMMA TypeStep ==
    ASSUME TypeOK, [Next]_vars
    PROVE  TypeOK'
<1>a. app' = app
  BY AppStays
<1> USE <1>a
<1>1. CASE UNCHANGED vars
  BY <1>1 DEF vars, tracker, TypeOK
<1>2. ASSUME NEW r \in Rows, Load(r)
      PROVE  TypeOK'
  BY <1>2 DEF Load, TypeOK
<1>3. ASSUME NEW r \in Rows, NEW f \in Fields, NEW v \in Contents, Elsewhere(r, f, v)
      PROVE  TypeOK'
  <2>1. stored[r] \in Row /\ stored \in [Rows -> Row]
    BY DEF TypeOK
  <2>2. [stored[r] EXCEPT ![f] = v] \in Row
    BY <1>3, <2>1, WriteField DEF Elsewhere
  <2>3. stored' \in [Rows -> Row]
    BY <1>3, <2>1, <2>2 DEF Elsewhere
  <2> QED
    BY <1>3, <2>3 DEF Elsewhere, tracker, TypeOK
<1>4. CASE BeginFlush
  BY <1>4 DEF BeginFlush, tracker, TypeOK, Outcomes
<1>5. CASE Rollback
  BY <1>5, ExpireType DEF Rollback, TypeOK
<1>6. CASE UpdateStatement
  BY <1>6, UpdateAllType DEF UpdateStatement
<1> QED
  BY <1>1, <1>2, <1>3, <1>4, <1>5, <1>6, EditType, FlushType DEF Next

\* Whatever the application does, every variable keeps its type: no statement leaves a
\* column without a value, marks are keys and parameters are names.
THEOREM TypeCorrect == Spec => []TypeOK
<1>1. Init => TypeOK
  BY NoRowType DEF Init, TypeOK, Outcomes
<1> QED
  BY <1>1, TypeStep, PTL DEF Spec
-----------------------------------------------------------------------------
(* What a statement does to a field.                                       *)

Rewritten(r) == IsRewritten(changed[r], deleted[r])
After(r, t) == RowAfter(stored[r], SentNames(r), ParameterValues(r), t)
HeldThen(r, t) == HeldAfter(r, SentNames(r), t)
Sent(r) == AssignedFields(SentNames(r))

\* Columns keep their names; the document goes as a whole or by the keys that are assigned.
LEMMA SentNamesAre ==
    ASSUME TypeOK, NEW r \in Rows
    PROVE  /\ SentNames(r) \cap Columns = modified[r] \cap Columns
           /\ Data \in SentNames(r) <=> Data \in modified[r] /\ ~Rewritten(r)
           /\ \A k \in Keys : k \in SentNames(r) <=>
                  /\ Data \in modified[r]
                  /\ Rewritten(r)
                  /\ k \in AssignedKeys(Document(r), changed[r], deleted[r])
<1>1. modified[r] \subseteq Attributes /\ changed[r] \subseteq Keys /\ deleted[r] \subseteq Keys
  BY DEF TypeOK
<1>2. AssignedKeys(Document(r), changed[r], deleted[r]) \subseteq Keys
  BY <1>1 DEF AssignedKeys
<1> QED
  BY <1>1, <1>2, NamesAssumption
  DEF SentNames, ValueNames, RewrittenNames, ParameterNames, Rewritten, Attributes, Fields

\* A column is assigned what the session holds, or what `onupdate` returns, or not at all.
LEMMA ColumnSent ==
    ASSUME TypeOK, NEW r \in Rows, NEW t \in Values, NEW c \in Columns
    PROVE  /\ c \in modified[r] =>
                  c \in Sent(r) /\ After(r, t)[c] = held[r][c] /\ HeldThen(r, t)[c] = held[r][c]
           /\ c \notin modified[r] /\ c \in Stamped \cap app.fields =>
                  c \in Sent(r) /\ After(r, t)[c] = t /\ HeldThen(r, t)[c] = t
           /\ c \notin modified[r] /\ c \notin Stamped \cap app.fields =>
                  /\ c \notin Sent(r)
                  /\ After(r, t)[c] = stored[r][c]
                  /\ HeldThen(r, t)[c] = held[r][c]
<1>1. c \in Fields /\ c \notin Keys /\ c # Data /\ c \in Attributes
  BY NamesAssumption DEF Fields, Attributes
<1>2. c \in SentNames(r) <=> c \in modified[r]
  BY SentNamesAre
<1>3. c \in DefaultTargets(SentNames(r)) <=> c \notin modified[r] /\ c \in Stamped \cap app.fields
  BY <1>2 DEF DefaultTargets
<1>4. c \in Sent(r) <=> c \in modified[r] \/ c \in DefaultTargets(SentNames(r))
  BY <1>1, <1>2 DEF Sent, AssignedFields, ColumnTargets, SubscriptTargets
<1>5. ParameterValues(r)[c] = held[r][c]
  BY <1>1 DEF ParameterValues
<1> QED
  BY <1>1, <1>3, <1>4, <1>5 DEF After, RowAfter, HeldThen, HeldAfter, Sent

\* A key is assigned with the whole document or by its name, or not at all.
LEMMA KeySent ==
    ASSUME TypeOK, NEW r \in Rows, NEW t \in Values, NEW k \in Keys
    PROVE  /\ HeldThen(r, t)[k] = held[r][k]
           /\ k \in Sent(r) <=>
                  /\ Data \in modified[r]
                  /\ Rewritten(r) => k \in AssignedKeys(Document(r), changed[r], deleted[r])
           /\ k \notin Sent(r) => After(r, t)[k] = stored[r][k]
           /\ k \in Sent(r) => After(r, t)[k] =
                  IF Rewritten(r) /\ k \in deleted[r] THEN Null ELSE held[r][k]
<1>1. k \in Fields /\ k \notin Columns /\ k \notin Stamped /\ k # Data /\ k \notin Attributes
  BY NamesAssumption DEF Fields, Attributes
<1>2. k \notin DefaultTargets(SentNames(r))
  BY <1>1 DEF DefaultTargets
<1>3. k \in Sent(r) <=> Data \in SentNames(r) \/ k \in SentNames(r)
  BY <1>1, <1>2, NamesAssumption
  DEF Sent, AssignedFields, ColumnTargets, SubscriptTargets, Attributes
<1>4. ParameterValues(r)[k] = IF Rewritten(r) /\ k \in deleted[r] THEN Null ELSE held[r][k]
  BY <1>1 DEF ParameterValues, WrittenContent, AssignedContent, Document, Rewritten
<1> QED
  BY <1>1, <1>2, <1>3, <1>4, SentNamesAre DEF After, RowAfter, HeldThen, HeldAfter, Sent

-----------------------------------------------------------------------------
(* A statement that is executed for several rows.                          *)

\* The rows of a group are waiting, and its first row is one of them.
LEMMA GroupIsQueued ==
    ASSUME TypeOK, NEW r \in Rows, IsNext(r)
    PROVE  Group(r) \subseteq queue /\ queue \subseteq Rows /\ r \in Group(r)
BY RowsAssumption DEF Group, IsNext, TypeOK

\* What went astray stays so.
LEMMA AstrayStays == [Next]_vars /\ ~astray' => ~astray
BY DEF Next, vars, Load, SetColumn, SetItem, DelItem, Mutate, ReplaceDocument, Edits, ExecuteUpdate,
   Mix, ExecuteMany, IsNotParsed, ExecuteFails, Abandon, Elsewhere, BeginFlush, Rollback,
   UpdateStatement, UpdateAll

\* Rows whose parameters have the same names after rewriting get what is theirs.
LEMMA Alike ==
    ASSUME TypeOK, NEW r \in Rows, NEW q \in Rows, NEW t \in Values,
           SentNames(q) = SentNames(r)
    PROVE  /\ RowAfter(stored[q], SentNames(r), BoundValues(r, q), t) = After(q, t)
           /\ HeldAfter(q, SentNames(r), t) = HeldThen(q, t)
           /\ AssignedFields(SentNames(r)) = Sent(q)
<1>1. ASSUME NEW f \in AssignedFields(SentNames(r)), f \notin DefaultTargets(SentNames(r))
      PROVE  BoundValues(r, q)[f] = ParameterValues(q)[f]
  <2>1. f \in Fields /\ ParameterOf(f, SentNames(r)) \in SentNames(r)
    BY <1>1, AssignedFieldsType, NamesAssumption
    DEF ParameterOf, AssignedFields, ColumnTargets, SubscriptTargets, Attributes, Fields
  <2> QED
    BY <2>1 DEF BoundValues
<1>2. RowAfter(stored[q], SentNames(r), BoundValues(r, q), t)
          = RowAfter(stored[q], SentNames(r), ParameterValues(q), t)
  BY <1>1 DEF RowAfter
<1> QED
  BY <1>2 DEF After, HeldThen, Sent

\* As long as no statement mixes rows, each row of it gets what a statement of its own
\* would have brought.
LEMMA ExecutedAlike ==
    ASSUME TypeOK, NEW r \in Rows, NEW rows \in SUBSET Group(r), NEW t \in Values,
           IsNext(r), Mix(r), ~astray', stored' = Executed(r, rows, t)
    PROVE  /\ \A q \in Group(r) : SentNames(q) = SentNames(r)
           /\ \A q \in rows : stored'[q] = After(q, t)
           /\ \A q \in Rows \ rows : stored'[q] = stored[q]
<1>1. \A q \in Group(r) : q \in Rows /\ SentNames(q) = SentNames(r)
  BY GroupIsQueued DEF Mix
<1>2. ASSUME NEW q \in rows
      PROVE  stored'[q] = After(q, t)
  BY <1>1, Alike DEF Executed
<1> QED
  BY <1>1, <1>2 DEF Executed

\* And the session's view of each of them is what it would have been.
LEMMA TakenOverAlike ==
    ASSUME TypeOK, NEW r \in Rows, NEW t \in Values, TakeOver(r, t),
           \A q \in Group(r) : q \in Rows /\ SentNames(q) = SentNames(r)
    PROVE  /\ \A q \in Group(r) : /\ held'[q] = HeldThen(q, t)
                                  /\ foreign'[q] = foreign[q] \ Sent(q)
           /\ \A q \in Rows \ Group(r) : held'[q] = held[q] /\ foreign'[q] = foreign[q]
<1>1. ASSUME NEW q \in Group(r)
      PROVE  held'[q] = HeldThen(q, t) /\ foreign'[q] = foreign[q] \ Sent(q)
  BY Alike DEF TakeOver
<1> QED
  BY <1>1 DEF TakeOver

-----------------------------------------------------------------------------
(* What was edited is sent, and what was not edited is stored.             *)

\* Rows, attributes, marks and edits are those of the application.
Confined ==
    /\ loaded \subseteq app.rows
    /\ \A r \in Rows :
        /\ Uses(stored[r]) /\ Uses(held[r])
        /\ modified[r] \subseteq app.fields \cup {Data}
        /\ changed[r] \cup deleted[r] \subseteq app.fields

\* What was edited is modified and, when it is a key and there are marks, marked; a key
\* marked deleted is gone, and one that is gone and marked is marked deleted.
Covered ==
    \A r \in Rows :
        /\ r \notin loaded => modified[r] = {}
        /\ edited[r] \cap Columns \subseteq modified[r]
        /\ edited[r] \cap Keys # {} => Data \in modified[r]
        /\ changed[r] \cup deleted[r] # {}
               => edited[r] \cap Keys \subseteq changed[r] \cup deleted[r]
        /\ \A k \in deleted[r] : held[r][k] = Absent
        /\ \A k \in changed[r] : held[r][k] = Absent => k \in deleted[r]

\* What differs from the store was edited, and during a flush is still to be sent.
DiffersIfEdited ==
    \A r \in loaded : \A f \in Fields \ foreign[r] :
        Shown(held[r][f]) # Shown(stored[r][f])
            => /\ f \in edited[r]
               /\ queue # {} => r \in queue

SentInv == TypeOK /\ Confined /\ Covered /\ DiffersIfEdited

\* What is modified and marked was edited.
Exact ==
    \A r \in Rows :
        /\ modified[r] \cap Columns \subseteq edited[r]
        /\ changed[r] \cup deleted[r] \subseteq edited[r]
        /\ Data \in modified[r] /\ ~IsRewritten(changed[r], deleted[r])
               => Keys \cap app.fields \subseteq edited[r]

Careful == ~Keeps /\ app.fields \cap FalsyKeys = {}
ExactInv == TypeOK /\ Confined /\ (Careful => Exact)


LEMMA UsesNoRow == Uses(NoRow)
BY NamesAssumption DEF Uses, NoRow, Fields

\* A statement leaves the row one of the application, and the session's view of it.
LEMMA StatementConfined ==
    ASSUME TypeOK, Confined, NEW r \in Rows, NEW t \in Values
    PROVE  Uses(After(r, t)) /\ Uses(HeldThen(r, t))
<1>1. SUFFICES ASSUME NEW f \in Fields \ app.fields
               PROVE  /\ After(r, t)[f] = IF f \in Keys THEN Absent ELSE Null
                      /\ HeldThen(r, t)[f] = IF f \in Keys THEN Absent ELSE Null
  BY DEF Uses
<1>2. /\ stored[r][f] = IF f \in Keys THEN Absent ELSE Null
      /\ held[r][f] = IF f \in Keys THEN Absent ELSE Null
  BY DEF Confined, Uses
<1>3. CASE f \in Keys
  <2>1. f \notin deleted[r]
    BY DEF Confined
  <2> QED
    BY <1>2, <1>3, <2>1, KeySent
<1>4. CASE f \in Columns
  BY <1>2, <1>4, ColumnSent, NamesAssumption
<1> QED
  BY <1>3, <1>4 DEF Fields

\* Nothing is modified or edited in an expired session.
LEMMA ExpireSent ==
    ASSUME SentInv, Expire, Settle, app' = app, TypeOK', \A r \in Rows : Uses(stored'[r])
    PROVE  Confined' /\ Covered' /\ DiffersIfEdited'
<1>1. /\ loaded' = {}
      /\ \A r \in Rows : /\ held'[r] = NoRow /\ changed'[r] = {} /\ deleted'[r] = {}
                         /\ modified'[r] = {} /\ edited'[r] = {}
  BY DEF Expire, Settle
<1>2. Confined'
  BY <1>1, UsesNoRow DEF Confined, Uses
<1>3. Covered'
  BY <1>1 DEF Covered
<1> QED
  BY <1>1, <1>2, <1>3 DEF DiffersIfEdited

\* The content of a row after an edit of one field.
LEMMA EditedField ==
    ASSUME TypeOK, NEW r \in Rows, NEW f \in Fields, NEW v,
           held' = [held EXCEPT ![r][f] = v]
    PROVE  /\ held'[r][f] = v
           /\ \A g \in Fields \ {f} : held'[r][g] = held[r][g]
           /\ \A q \in Rows \ {r} : held'[q] = held[q]
<1>1. held[r] \in [Fields -> Contents] /\ held \in [Rows -> Row]
  BY DEF TypeOK, Row
<1> QED
  BY <1>1

\* Edits are covered by the next flush.
LEMMA EditSent ==
    ASSUME SentInv, NEW r \in Rows, app' = app,
           \/ \E c \in Columns, v \in Values \cup {Null} : SetColumn(r, c, v)
           \/ \E k \in Keys : DelItem(r, k) \/ \E v \in Values \cup {Null} : SetItem(r, k, v)
           \/ ReplaceDocument(r)
    PROVE  Confined' /\ Covered' /\ DiffersIfEdited'
<1>0. /\ changed \in [Rows -> SUBSET Keys] /\ deleted \in [Rows -> SUBSET Keys]
      /\ modified \in [Rows -> SUBSET Attributes] /\ edited \in [Rows -> SUBSET Fields]
      /\ held \in [Rows -> Row]
  BY DEF SentInv, TypeOK
<1>1. Keys \subseteq Fields /\ Columns \subseteq Fields /\ Keys \cap Columns = {}
      /\ Data \notin Columns
  BY NamesAssumption DEF Fields
<1>2. ASSUME NEW fields, Edits(r, fields)
      PROVE  /\ r \in loaded /\ queue = {} /\ fields \subseteq app.fields
             /\ edited'[r] = edited[r] \cup fields
             /\ \A q \in Rows \ {r} : edited'[q] = edited[q]
             /\ UNCHANGED <<stored, loaded, queue, foreign>>
  BY <1>0, <1>2 DEF Edits
<1>3. ASSUME NEW c \in Columns, NEW v \in Values \cup {Null}, SetColumn(r, c, v)
      PROVE  Confined' /\ Covered' /\ DiffersIfEdited'
  <2>1. Edits(r, {c})
    BY <1>3 DEF SetColumn
  <2>2. /\ held'[r][c] = v
        /\ \A g \in Fields \ {c} : held'[r][g] = held[r][g]
        /\ \A q \in Rows \ {r} : held'[q] = held[q]
    BY <1>1, <1>3, EditedField DEF SetColumn, SentInv
  <2>3. /\ modified'[r] = modified[r] \cup {c}
        /\ \A q \in Rows \ {r} : modified'[q] = modified[q]
        /\ changed' = changed /\ deleted' = deleted
    BY <1>0, <1>3 DEF SetColumn
  <2>4. Confined'
    BY <1>1, <1>2, <2>1, <2>2, <2>3 DEF Confined, Uses, SentInv
  <2>5. Covered'
    BY <1>0, <1>1, <1>2, <2>1, <2>2, <2>3 DEF Covered, SentInv
  <2>6. DiffersIfEdited'
    BY <1>0, <1>1, <1>2, <2>1, <2>2 DEF DiffersIfEdited, SentInv, TypeOK
  <2> QED
    BY <2>4, <2>5, <2>6
<1>4. ASSUME NEW k \in Keys, NEW v \in Values \cup {Null}, SetItem(r, k, v)
      PROVE  Confined' /\ Covered' /\ DiffersIfEdited'
  <2>1. Edits(r, {k}) /\ v # Absent
    BY <1>4, ContentsAssumption DEF SetItem
  <2>2. /\ held'[r][k] = v
        /\ \A g \in Fields \ {k} : held'[r][g] = held[r][g]
        /\ \A q \in Rows \ {r} : held'[q] = held[q]
    BY <1>1, <1>4, EditedField DEF SetItem, SentInv
  <2>3. /\ modified'[r] = modified[r] \cup {Data}
        /\ changed'[r] = changed[r] \cup {k}
        /\ deleted'[r] = deleted[r] \ {k}
        /\ \A q \in Rows \ {r} : /\ modified'[q] = modified[q]
                                 /\ changed'[q] = changed[q] /\ deleted'[q] = deleted[q]
    BY <1>0, <1>4 DEF SetItem, Marked
  <2>4. Confined'
    BY <1>1, <1>2, <2>1, <2>2, <2>3 DEF Confined, Uses, SentInv
  <2>5. edited[r] \cap Keys \subseteq changed[r] \cup deleted[r]
    BY <1>4 DEF SetItem, MayEdit, Covered, SentInv
  <2>6. Covered'
    BY <1>0, <1>1, <1>2, <2>1, <2>2, <2>3, <2>5 DEF Covered, SentInv
  <2>7. DiffersIfEdited'
    BY <1>0, <1>1, <1>2, <2>1, <2>2 DEF DiffersIfEdited, SentInv, TypeOK
  <2> QED
    BY <2>4, <2>6, <2>7
<1>5. ASSUME NEW k \in Keys, DelItem(r, k)
      PROVE  Confined' /\ Covered' /\ DiffersIfEdited'
  <2>1. Edits(r, {k})
    BY <1>5 DEF DelItem
  <2>2. /\ held'[r][k] = Absent
        /\ \A g \in Fields \ {k} : held'[r][g] = held[r][g]
        /\ \A q \in Rows \ {r} : held'[q] = held[q]
    BY <1>1, <1>5, EditedField DEF DelItem, SentInv
  <2>3. /\ modified'[r] = modified[r] \cup {Data}
        /\ changed' = changed
        /\ deleted'[r] = deleted[r] \cup {k}
        /\ \A q \in Rows \ {r} : modified'[q] = modified[q] /\ deleted'[q] = deleted[q]
    BY <1>0, <1>5 DEF DelItem
  <2>4. Confined'
    BY <1>1, <1>2, <2>1, <2>2, <2>3 DEF Confined, Uses, SentInv
  <2>5. edited[r] \cap Keys \subseteq changed[r] \cup deleted[r]
    BY <1>5 DEF DelItem, MayEdit, Covered, SentInv
  <2>6. Covered'
    BY <1>0, <1>1, <1>2, <2>1, <2>2, <2>3, <2>5 DEF Covered, SentInv
  <2>7. DiffersIfEdited'
    BY <1>0, <1>1, <1>2, <2>1, <2>2 DEF DiffersIfEdited, SentInv, TypeOK
  <2> QED
    BY <2>4, <2>6, <2>7
<1>6. CASE ReplaceDocument(r)
  <2>1. Edits(r, Keys \cap app.fields)
    BY <1>6 DEF ReplaceDocument
  <2>2. PICK row \in Row : /\ \A c \in Columns : row[c] = held[r][c]
                           /\ Uses(row)
                           /\ held' = [held EXCEPT ![r] = row]
    BY <1>6 DEF ReplaceDocument
  <2>3. held'[r] = row /\ \A q \in Rows \ {r} : held'[q] = held[q]
    BY <1>0, <2>2
  <2>4. /\ modified'[r] = modified[r] \cup {Data}
        /\ changed'[r] = {} /\ deleted'[r] = {}
        /\ \A q \in Rows \ {r} : /\ modified'[q] = modified[q]
                                 /\ changed'[q] = changed[q] /\ deleted'[q] = deleted[q]
    BY <1>0, <1>6 DEF ReplaceDocument
  <2>5. Confined'
    BY <1>1, <1>2, <2>1, <2>2, <2>3, <2>4 DEF Confined, Uses, SentInv
  <2>6. Covered'
    BY <1>0, <1>1, <1>2, <2>1, <2>3, <2>4 DEF Covered, SentInv
  <2>7. \A f \in Fields : f \notin edited'[r] => held'[r][f] = held[r][f]
    BY <1>2, <2>1, <2>2, <2>3 DEF Confined, Uses, SentInv, Fields
  <2>8. DiffersIfEdited'
    BY <1>0, <1>2, <2>1, <2>3, <2>7 DEF DiffersIfEdited, SentInv, TypeOK
  <2> QED
    BY <2>5, <2>6, <2>8
<1> QED
  BY <1>3, <1>4, <1>5, <1>6

\* A statement stores every field that was edited, as the session shows it.
LEMMA StatementStores ==
    ASSUME SentInv, NEW r \in Rows, r \in loaded, NEW t \in Values, NEW f \in Fields
    PROVE  /\ f \in edited[r] => f \in Sent(r) /\ Shown(After(r, t)[f]) = Shown(held[r][f])
           /\ f \in Sent(r) \/ f \notin foreign[r]
                  => Shown(After(r, t)[f]) = Shown(HeldThen(r, t)[f])
<1>1. f \in Sent(r) => Shown(After(r, t)[f]) = Shown(HeldThen(r, t)[f])
  <2>1. CASE f \in Columns
    BY <2>1, ColumnSent DEF SentInv
  <2>2. CASE f \in Keys
    BY <2>2, KeySent, ContentsAssumption DEF SentInv, Covered, Shown
  <2> QED
    BY <2>1, <2>2 DEF Fields
<1>2. f \in edited[r] => f \in Sent(r) /\ HeldThen(r, t)[f] = held[r][f]
  <2>1. CASE f \in Columns
    BY <2>1, ColumnSent DEF SentInv, Covered
  <2>2. CASE f \in Keys
    <3>1. SUFFICES ASSUME f \in edited[r], Rewritten(r)
                   PROVE  f \in AssignedKeys(Document(r), changed[r], deleted[r])
      BY <2>2, KeySent DEF SentInv, Covered
    <3>2. f \in changed[r] \cup deleted[r]
      BY <2>2, <3>1 DEF SentInv, Covered, Rewritten, IsRewritten, AnyOf
    <3> QED
      BY <2>2, <3>2 DEF AssignedKeys, Document, SentInv, Covered
  <2> QED
    BY <2>1, <2>2 DEF Fields
<1>3. f \notin Sent(r) => After(r, t)[f] = stored[r][f] /\ HeldThen(r, t)[f] = held[r][f]
  BY ColumnSent, KeySent DEF SentInv, Fields
<1> QED
  BY <1>1, <1>2, <1>3 DEF SentInv, DiffersIfEdited

\* A statement that succeeds leaves its rows and the session's view of them alike.
LEMMA UpdateSent ==
    ASSUME SentInv, TypeOK', NEW r \in Rows, NEW t \in Values, ExecuteUpdate(r, t), app' = app,
           ~astray'
    PROVE  Confined' /\ Covered' /\ DiffersIfEdited'
<1>0. /\ Group(r) \subseteq queue /\ queue \subseteq Rows
      /\ \A q \in Group(r) : q \in Rows /\ SentNames(q) = SentNames(r)
      /\ \A q \in Group(r) : stored'[q] = After(q, t)
      /\ \A q \in Rows \ Group(r) : stored'[q] = stored[q]
  BY GroupIsQueued, ExecutedAlike DEF ExecuteUpdate, IsExecuted, SentInv
<1>2. \A q \in Rows : Uses(After(q, t)) /\ Uses(HeldThen(q, t))
  BY StatementConfined DEF SentInv
<1>3. CASE queue = Group(r) /\ ~Keeps
  <2>1. \A q \in Rows : Uses(stored'[q])
    BY <1>0, <1>2 DEF SentInv, Confined, Uses
  <2> QED
    BY <1>3, <2>1, ExpireSent DEF ExecuteUpdate
<1>4. CASE ~(queue = Group(r) /\ ~Keeps)
  <2>0. TakeOver(r, t)
    BY <1>4 DEF ExecuteUpdate
  <2>1. /\ \A q \in Group(r) : held'[q] = HeldThen(q, t)
        /\ \A q \in Group(r) : foreign'[q] = foreign[q] \ Sent(q)
        /\ \A q \in Rows \ Group(r) : held'[q] = held[q] /\ foreign'[q] = foreign[q]
    BY <1>0, <2>0, TakenOverAlike DEF SentInv
  <2>3. /\ changed' = changed /\ deleted' = deleted /\ loaded' = loaded
        /\ queue' = queue \ Group(r)
    BY <2>0 DEF TakeOver
  <2>4. \/ \A q \in Rows : modified'[q] = modified[q] /\ edited'[q] = edited[q]
        \/ \A q \in Rows : modified'[q] = {} /\ edited'[q] = {}
    BY <1>4 DEF ExecuteUpdate, Settle
  <2>6. Confined'
    <3>1. \A q \in Rows : Uses(stored'[q]) /\ Uses(held'[q])
      BY <1>0, <1>2, <2>1 DEF Confined, Uses, SentInv
    <3> QED
      BY <2>3, <2>4, <3>1 DEF Confined, Uses, SentInv
  <2>7. \A q \in Rows : \A k \in Keys : held'[q][k] = held[q][k]
    BY <2>1, KeySent DEF SentInv
  <2>8. changed \in [Rows -> SUBSET Keys] /\ deleted \in [Rows -> SUBSET Keys]
    BY DEF SentInv, TypeOK
  <2>9. Covered'
    BY <2>3, <2>4, <2>7, <2>8 DEF Covered, SentInv
  <2>10. DiffersIfEdited'
    <3>1. SUFFICES ASSUME NEW q \in loaded, NEW f \in Fields \ foreign'[q],
                          Shown(held'[q][f]) # Shown(stored'[q][f])
                   PROVE  f \in edited'[q] /\ (queue' # {} => q \in queue')
      BY <2>3 DEF DiffersIfEdited
    <3>2. q \in Rows /\ r \in queue
      BY DEF SentInv, TypeOK, ExecuteUpdate, IsExecuted, IsNext
    <3>3. CASE q \in Group(r)
      BY <1>0, <2>1, <3>1, <3>3, StatementStores
    <3>4. CASE q \notin Group(r)
      <4>1. f \in edited[q] /\ q \in queue
        BY <1>0, <2>1, <3>1, <3>2, <3>4 DEF SentInv, DiffersIfEdited
      <4>2. queue # Group(r) /\ UNCHANGED edited
        BY <3>4, <4>1 DEF ExecuteUpdate
      <4> QED
        BY <2>3, <3>4, <4>1, <4>2
    <3> QED
      BY <3>3, <3>4
  <2> QED
    BY <2>6, <2>9, <2>10
<1> QED
  BY <1>3, <1>4

\* A flush that ends otherwise leaves nothing in the session.
LEMMA AbandonSent ==
    ASSUME SentInv, TypeOK', NEW r \in Rows, app' = app, ~astray',
           ExecuteMany(r) \/ IsNotParsed(r) \/ \E t \in Values : ExecuteFails(r, t)
    PROVE  Confined' /\ Covered' /\ DiffersIfEdited'
<1>1. Expire /\ Settle
  BY DEF ExecuteMany, IsNotParsed, ExecuteFails, Abandon
<1>2. \A q \in Rows : Uses(stored[q])
  BY DEF SentInv, Confined
<1>3. ASSUME NEW t \in Values, ExecuteFails(r, t)
      PROVE  \A q \in Rows : Uses(stored'[q])
  <2>1. \A q \in Rows : Uses(After(q, t))
    BY StatementConfined DEF SentInv
  <2>2. PICK rows \in SUBSET Group(r) : stored' = Executed(r, rows, t)
    BY <1>3 DEF ExecuteFails
  <2>3. \A q \in Rows : stored'[q] = stored[q] \/ stored'[q] = After(q, t)
    BY <1>3, <2>2, ExecutedAlike DEF ExecuteFails, IsExecuted, SentInv
  <2> QED
    BY <1>2, <2>1, <2>3 DEF Uses
<1>4. \A q \in Rows : Uses(stored'[q])
  <2>1. CASE UNCHANGED stored
    BY <1>2, <2>1 DEF Uses
  <2> QED
    BY <1>3, <2>1 DEF ExecuteMany, IsNotParsed
<1> QED
  BY <1>1, <1>4, ExpireSent

\* What an update of all rows makes of a field, in the store and in the session.
LEMMA UpdateAllFields ==
    ASSUME NEW own \in SUBSET (Attributes \cap (app.fields \cup {Data})), NEW row \in Row,
           NEW t \in Values, UpdateAll(own, row, t), NEW r \in Rows, NEW f \in Fields
    PROVE  /\ r \in app.rows /\ Attribute(f) \in own => stored'[r][f] = row[f]
           /\ r \in app.rows /\ Attribute(f) \notin own /\ f \notin Stamped \cap app.fields
                  => stored'[r][f] = stored[r][f]
           /\ r \notin app.rows => stored'[r] = stored[r]
           /\ r \in loaded => held'[r][f] = IF Attribute(f) \in own THEN row[f] ELSE held[r][f]
           /\ r \notin loaded => held'[r] = held[r]
<1>1. /\ f \notin Keys => f \in Columns /\ f \in Attributes /\ f # Data
      /\ f \in Keys => f \notin Attributes /\ f \notin Stamped
      /\ Data \in Attributes
  BY NamesAssumption DEF Fields, Attributes
<1>2. f \in AssignedFields(own) <=> Attribute(f) \in own \/ f \in DefaultTargets(own)
  BY <1>1 DEF AssignedFields, ColumnTargets, SubscriptTargets, Attribute
<1>3. Attribute(f) \in own => f \notin DefaultTargets(own)
  BY <1>1 DEF DefaultTargets, Attribute
<1>4. f \in DefaultTargets(own) => f \in Stamped \cap app.fields
  BY DEF DefaultTargets
<1>5. /\ stored' = [q \in Rows |-> IF q \in app.rows THEN RowAfter(stored[q], own, row, t)
                                                     ELSE stored[q]]
      /\ held' = [q \in Rows |-> IF q \in loaded
                    THEN [g \in Fields |-> IF Attribute(g) \in own THEN row[g] ELSE held[q][g]]
                    ELSE held[q]]
  BY DEF UpdateAll, ValueNames
<1> QED
  BY <1>2, <1>3, <1>4, <1>5 DEF RowAfter

\* An update of all rows has the same effect on the store and on the session.
LEMMA UpdateAllSent ==
    ASSUME SentInv, UpdateStatement, app' = app
    PROVE  Confined' /\ Covered' /\ DiffersIfEdited'
<1>1. PICK own \in SUBSET (Attributes \cap (app.fields \cup {Data})), row \in Row, t \in Values :
          Uses(row) /\ UpdateAll(own, row, t)
  BY DEF UpdateStatement
<1>2. \A r \in Rows : edited[r] = {} /\ modified[r] = {}
  BY DEF UpdateStatement, SentInv, TypeOK, Covered, Fields
<1>3. /\ loaded' = loaded /\ modified' = modified /\ edited' = edited /\ queue' = queue
      /\ \A r \in Rows : /\ changed'[r] = IF Data \in own THEN {} ELSE changed[r]
                         /\ deleted'[r] = IF Data \in own THEN {} ELSE deleted[r]
      /\ loaded \subseteq Rows
  BY <1>1 DEF UpdateAll, SentInv, TypeOK
<1>4. ASSUME NEW r \in Rows, NEW f \in Fields
      PROVE  /\ r \in app.rows /\ Attribute(f) \in own => stored'[r][f] = row[f]
             /\ r \in app.rows /\ Attribute(f) \notin own /\ f \notin Stamped \cap app.fields
                    => stored'[r][f] = stored[r][f]
             /\ r \notin app.rows => stored'[r] = stored[r]
             /\ r \in loaded => held'[r][f] = IF Attribute(f) \in own THEN row[f] ELSE held[r][f]
             /\ r \notin loaded => held'[r] = held[r]
  BY <1>1, UpdateAllFields
<1>5. \A f \in Fields : Attribute(f) \in own /\ f \notin Keys => f \in app.fields
  BY NamesAssumption DEF Attribute, Fields
<1>6. Confined'
  <2>1. ASSUME NEW r \in Rows, NEW f \in Fields \ app.fields
        PROVE  /\ stored'[r][f] = IF f \in Keys THEN Absent ELSE Null
               /\ held'[r][f] = IF f \in Keys THEN Absent ELSE Null
    <3>1. /\ row[f] = IF f \in Keys THEN Absent ELSE Null
          /\ stored[r][f] = IF f \in Keys THEN Absent ELSE Null
          /\ held[r][f] = IF f \in Keys THEN Absent ELSE Null
      BY <1>1 DEF SentInv, Confined, Uses
    <3> QED
      BY <1>4, <3>1
  <2> QED
    BY <1>3, <2>1 DEF Confined, SentInv, Uses
<1>7. Covered'
  <2>1. ASSUME NEW r \in Rows, NEW k \in Keys, Data \notin own
        PROVE  held'[r][k] = held[r][k]
    BY <1>4, <2>1 DEF Attribute, Fields
  <2>2. changed \in [Rows -> SUBSET Keys] /\ deleted \in [Rows -> SUBSET Keys]
    BY DEF SentInv, TypeOK
  <2> QED
    BY <1>2, <1>3, <2>1, <2>2 DEF Covered, SentInv
<1>8. DiffersIfEdited'
  <2>1. SUFFICES ASSUME NEW r \in loaded, NEW f \in Fields \ foreign'[r]
                 PROVE  Shown(held'[r][f]) = Shown(stored'[r][f])
    BY <1>3 DEF DiffersIfEdited
  <2>2. r \in Rows /\ r \in app.rows
    BY <1>3 DEF SentInv, Confined
  <2>3. foreign'[r] = {g \in foreign[r] : Attribute(g) \notin own}
                          \cup ((Stamped \cap app.fields) \ own)
    BY <1>1, <2>1, <2>2 DEF UpdateAll
  <2>4. CASE Attribute(f) \in own
    BY <1>4, <2>2, <2>4
  <2>5. CASE Attribute(f) \notin own
    <3>1. f \in Stamped => f \notin own
      BY <2>5, NamesAssumption DEF Attribute
    <3>2. f \notin foreign[r] /\ f \notin Stamped \cap app.fields
      BY <2>1, <2>3, <2>5, <3>1
    <3>3. Shown(held[r][f]) = Shown(stored[r][f])
      BY <1>2, <2>2, <3>2 DEF SentInv, DiffersIfEdited
    <3> QED
      BY <1>4, <2>2, <2>5, <3>2, <3>3
  <2> QED
    BY <2>4, <2>5
<1> QED
  BY <1>6, <1>7, <1>8

\* Every step that leaves nothing astray keeps the invariant.
LEMMA SentStep ==
    ASSUME SentInv, [Next]_vars, ~astray'
    PROVE  SentInv'
<1>a. app' = app
  BY AppStays
<1>b. TypeOK'
  BY TypeStep DEF SentInv
<1> SUFFICES Confined' /\ Covered' /\ DiffersIfEdited'
  BY <1>b DEF SentInv
<1>1. CASE UNCHANGED vars
  BY <1>1 DEF vars, tracker, SentInv, Confined, Uses, Covered, DiffersIfEdited
<1>2. ASSUME NEW r \in Rows, Load(r)
      PROVE  Confined' /\ Covered' /\ DiffersIfEdited'
  <2>1. /\ loaded' = loaded \cup {r} /\ r \in app.rows \ loaded
        /\ held'[r] = stored[r] /\ changed'[r] = {} /\ deleted'[r] = {} /\ foreign'[r] = {}
        /\ \A q \in Rows \ {r} : /\ held'[q] = held[q] /\ changed'[q] = changed[q]
                                 /\ deleted'[q] = deleted[q] /\ foreign'[q] = foreign[q]
        /\ UNCHANGED <<stored, modified, queue, edited>>
        /\ queue = {} /\ loaded \subseteq Rows
    BY <1>2 DEF Load, SentInv, TypeOK
  <2>2. Confined'
    BY <1>a, <2>1 DEF Confined, SentInv, Uses
  <2>3. Covered'
    BY <2>1 DEF Covered, SentInv
  <2> QED
    BY <2>1, <2>2, <2>3 DEF SentInv, DiffersIfEdited
<1>3. ASSUME NEW r \in Rows, NEW f \in Fields, NEW v \in Contents, Elsewhere(r, f, v)
      PROVE  Confined' /\ Covered' /\ DiffersIfEdited'
  <2>1. stored \in [Rows -> [Fields -> Contents]] /\ foreign \in [Rows -> SUBSET Fields]
        /\ loaded \subseteq Rows
    BY DEF SentInv, TypeOK, Row
  <2>2. /\ \A q \in Rows \ {r} : stored'[q] = stored[q]
        /\ \A g \in Fields \ {f} : stored'[r][g] = stored[r][g]
        /\ f \in app.fields
        /\ \A q \in Rows : foreign[q] \subseteq foreign'[q]
        /\ r \in loaded => f \in foreign'[r]
        /\ UNCHANGED <<loaded, tracker, modified, queue, edited>>
    BY <1>3, <2>1 DEF Elsewhere
  <2>3. Confined'
    BY <1>a, <2>2 DEF Confined, SentInv, Uses, tracker
  <2>4. Covered'
    BY <2>2 DEF Covered, SentInv, tracker
  <2>5. DiffersIfEdited'
    BY <2>1, <2>2 DEF DiffersIfEdited, SentInv, tracker
  <2> QED
    BY <2>3, <2>4, <2>5
<1>4. CASE BeginFlush
  <2>1. \A r \in loaded : \A f \in Fields : f \in edited[r] => r \in queue'
    BY <1>4 DEF BeginFlush, SentInv, Covered, TypeOK, Fields
  <2> QED
    BY <1>a, <1>4, <2>1
    DEF BeginFlush, tracker, SentInv, Confined, Uses, Covered, DiffersIfEdited
<1>5. CASE Rollback
  BY <1>a, <1>b, <1>5, ExpireSent DEF Rollback, SentInv, Confined, Uses
<1>6. CASE UpdateStatement
  BY <1>a, <1>6, UpdateAllSent
<1> QED
  BY <1>a, <1>b, <1>1, <1>2, <1>3, <1>4, <1>5, <1>6, EditSent, UpdateSent, AbandonSent
  DEF Next, Mutate

LEMMA SentInit == Init => SentInv
BY NoRowType, UsesNoRow
DEF Init, SentInv, TypeOK, Outcomes, Confined, Uses, Covered, DiffersIfEdited

LEMMA SentAlways == Spec => [](~astray => SentInv)
<1>1. (~astray => SentInv) /\ [Next]_vars => (~astray => SentInv)'
  BY AstrayStays, SentStep
<1> QED
  BY <1>1, SentInit, PTL DEF Spec

\* What the session holds unmodified is what is stored, whatever it edited, flushed, failed
\* to flush and updated by statements before, in every field that nobody else has written,
\* as long as no document was changed without a mark and no statement was executed for rows
\* with different parameters.
THEOREM WhatIsHeldIsStored == Spec => []HeldIsStored
<1>1. (~astray => SentInv) => HeldIsStored
  BY DEF SentInv, HeldIsStored, TypeOK, Covered, DiffersIfEdited, Fields
<1> QED
  BY <1>1, SentAlways, PTL

\* A flush that ends well has stored every edit of every row that no other client has
\* rewritten, whatever parameters rewrite_update and visit_update made of it, as long as
\* nothing went astray.
THEOREM FlushesStoreEdits == Spec => EditsArrive
<1>1. ASSUME SentInv, [Next]_vars, FlushStep, queue' = {}, outcome' = "ok",
             NEW q \in Rows, NEW f \in edited[q], q \in queue \/ f \notin foreign[q]
      PROVE  Shown(stored'[q][f]) = Shown(held[q][f])
  <2>1. f \in Fields
    BY <1>1 DEF SentInv, TypeOK
  <2>2. q \in loaded
    BY <1>1, <2>1 DEF SentInv, Covered, Fields
  <2>3. PICK r \in Rows, t \in Values : ExecuteUpdate(r, t)
    BY <1>1 DEF Next, FlushStep, vars, Load, SetColumn, SetItem, DelItem, Mutate, ReplaceDocument,
       Edits, ExecuteMany, IsNotParsed, ExecuteFails, Abandon, Elsewhere, BeginFlush,
       Rollback, UpdateStatement
  <2>4. /\ queue = Group(r)
        /\ \A p \in Group(r) : stored'[p] = After(p, t)
        /\ \A p \in Rows \ Group(r) : stored'[p] = stored[p]
    <3>1. IsNext(r) /\ Mix(r) /\ stored' = Executed(r, Group(r), t) /\ ~astray'
      BY <1>1, <2>3 DEF ExecuteUpdate, IsExecuted, FlushStep
    <3>2. Group(r) \subseteq queue
      BY <1>1, <3>1, GroupIsQueued DEF SentInv
    <3>3. queue = Group(r) \/ queue' = queue \ Group(r)
      BY <2>3 DEF ExecuteUpdate, TakeOver
    <3>4. queue = Group(r)
      BY <1>1, <3>2, <3>3
    <3>5. /\ \A p \in Group(r) : stored'[p] = After(p, t)
          /\ \A p \in Rows \ Group(r) : stored'[p] = stored[p]
      BY <1>1, <3>1, ExecutedAlike DEF SentInv
    <3> QED
      BY <3>4, <3>5
  <2>5. CASE q \in queue
    BY <1>1, <2>1, <2>2, <2>4, <2>5, StatementStores
  <2>6. CASE q \notin queue
    BY <1>1, <2>1, <2>2, <2>4, <2>6 DEF FlushStep, SentInv, DiffersIfEdited
  <2> QED
    BY <2>5, <2>6
<1>2. (~astray => SentInv) /\ [Next]_vars =>
          [FlushStep /\ queue' = {} /\ outcome' = "ok" =>
              \A r \in Rows : \A f \in edited[r] :
                  r \in queue \/ f \notin foreign[r]
                      => Shown(stored'[r][f]) = Shown(held[r][f])]_vars
  BY <1>1, AstrayStays DEF FlushStep
<1> QED
  BY <1>2, SentAlways, PTL DEF Spec, EditsArrive

-----------------------------------------------------------------------------
(* What was not edited is left alone.                                      *)

\* A mark that is not false to Python makes the parameter one that is rewritten.
LEMMA MarkRewrites ==
    ASSUME NEW marked, NEW unset, NEW k \in marked \cup unset, k \notin FalsyKeys
    PROVE  IsRewritten(marked, unset)
BY DEF IsRewritten, AnyOf

LEMMA EditExact ==
    ASSUME ExactInv, Careful, Exact, NEW r \in Rows, app' = app,
           \/ \E c \in Columns, v \in Values \cup {Null} : SetColumn(r, c, v)
           \/ \E k \in Keys : DelItem(r, k) \/ \E v \in Values \cup {Null} : SetItem(r, k, v)
           \/ ReplaceDocument(r)
    PROVE  Exact'
<1>0. /\ changed \in [Rows -> SUBSET Keys] /\ deleted \in [Rows -> SUBSET Keys]
      /\ modified \in [Rows -> SUBSET Attributes] /\ edited \in [Rows -> SUBSET Fields]
  BY DEF ExactInv, TypeOK
<1>1. Keys \cap Columns = {} /\ Data \notin Columns
  BY NamesAssumption DEF Fields
<1>2. ASSUME NEW fields, Edits(r, fields)
      PROVE  /\ fields \subseteq app.fields
             /\ edited'[r] = edited[r] \cup fields
             /\ \A q \in Rows \ {r} : edited'[q] = edited[q]
  BY <1>0, <1>2 DEF Edits
<1>3. ASSUME NEW c \in Columns, NEW v, SetColumn(r, c, v)
      PROVE  Exact'
  BY <1>0, <1>1, <1>2, <1>3 DEF SetColumn, Exact
<1>4. ASSUME NEW k \in Keys, NEW v, SetItem(r, k, v)
      PROVE  Exact'
  <2>1. Edits(r, {k}) /\ k \notin FalsyKeys
    BY <1>2, <1>4 DEF SetItem, Careful
  <2>2. /\ modified'[r] = modified[r] \cup {Data}
        /\ changed'[r] = changed[r] \cup {k}
        /\ deleted'[r] = deleted[r] \ {k}
        /\ \A q \in Rows \ {r} : /\ modified'[q] = modified[q]
                                 /\ changed'[q] = changed[q] /\ deleted'[q] = deleted[q]
    BY <1>0, <1>4 DEF SetItem, Marked
  <2>3. IsRewritten(changed'[r], deleted'[r])
    BY <2>1, <2>2, MarkRewrites
  <2> QED
    BY <1>1, <1>2, <2>1, <2>2, <2>3 DEF Exact
<1>5. ASSUME NEW k \in Keys, DelItem(r, k)
      PROVE  Exact'
  <2>1. Edits(r, {k}) /\ k \notin FalsyKeys
    BY <1>2, <1>5 DEF DelItem, Careful
  <2>2. /\ modified'[r] = modified[r] \cup {Data}
        /\ changed' = changed
        /\ deleted'[r] = deleted[r] \cup {k}
        /\ \A q \in Rows \ {r} : modified'[q] = modified[q] /\ deleted'[q] = deleted[q]
    BY <1>0, <1>5 DEF DelItem
  <2>3. IsRewritten(changed'[r], deleted'[r])
    BY <2>1, <2>2, MarkRewrites
  <2> QED
    BY <1>1, <1>2, <2>1, <2>2, <2>3 DEF Exact
<1>6. CASE ReplaceDocument(r)
  <2>1. Edits(r, Keys \cap app.fields)
    BY <1>6 DEF ReplaceDocument
  <2>2. /\ modified'[r] = modified[r] \cup {Data}
        /\ changed'[r] = {} /\ deleted'[r] = {}
        /\ \A q \in Rows \ {r} : /\ modified'[q] = modified[q]
                                 /\ changed'[q] = changed[q] /\ deleted'[q] = deleted[q]
    BY <1>0, <1>6 DEF ReplaceDocument
  <2> QED
    BY <1>1, <1>2, <2>1, <2>2 DEF Exact
<1> QED
  BY <1>3, <1>4, <1>5, <1>6

\* Every step that leaves nothing astray keeps the invariant.
LEMMA ExactStep ==
    ASSUME SentInv, ExactInv, [Next]_vars, ~astray'
    PROVE  ExactInv'
<1>a. app' = app
  BY AppStays
<1>b. TypeOK' /\ Confined' /\ (Careful' <=> Careful)
  BY <1>a, SentStep DEF SentInv, Careful, Keeps
<1> SUFFICES ASSUME Careful, Exact
             PROVE  Exact'
  BY <1>b DEF ExactInv
<1>1. CASE UNCHANGED vars
  BY <1>1 DEF vars, tracker, Exact
<1>2. ASSUME Expire, Settle
      PROVE  Exact'
  <2>1. \A r \in Rows : /\ modified'[r] = {} /\ changed'[r] = {} /\ deleted'[r] = {}
    BY <1>2 DEF Expire, Settle
  <2> QED
    BY <2>1 DEF Exact
<1>3. ASSUME NEW r \in Rows, Load(r)
      PROVE  Exact'
  <2>1. /\ r \notin loaded /\ modified' = modified /\ edited' = edited
        /\ \A q \in Rows : \/ changed'[q] = changed[q] /\ deleted'[q] = deleted[q]
                           \/ q = r /\ changed'[q] = {} /\ deleted'[q] = {}
    BY <1>3 DEF Load, ExactInv, TypeOK
  <2>2. modified[r] = {}
    BY <2>1 DEF SentInv, Covered
  <2> QED
    BY <1>a, <2>1, <2>2 DEF Exact
<1>4. ASSUME NEW r \in Rows, NEW t \in Values, ExecuteUpdate(r, t)
      PROVE  Exact'
  <2>1. CASE queue = Group(r)
    BY <1>2, <1>4, <2>1 DEF ExecuteUpdate, Careful
  <2>2. CASE queue # Group(r)
    BY <1>a, <1>4, <2>2 DEF ExecuteUpdate, TakeOver, Exact
  <2> QED
    BY <2>1, <2>2
<1>5. CASE UpdateStatement
  <2>1. \A r \in Rows : modified[r] = {}
    BY <1>5 DEF UpdateStatement
  <2>2. /\ modified' = modified /\ edited' = edited
        /\ \A r \in Rows : changed'[r] \subseteq changed[r] /\ deleted'[r] \subseteq deleted[r]
    BY <1>5 DEF UpdateStatement, UpdateAll
  <2> QED
    BY <2>1, <2>2 DEF Exact
<1>6. ASSUME UNCHANGED <<changed, deleted, modified, edited>>
      PROVE  Exact'
  BY <1>a, <1>6 DEF Exact
<1> QED
  BY <1>a, <1>1, <1>2, <1>3, <1>4, <1>5, <1>6, EditExact
  DEF Next, Mutate, ExecuteMany, IsNotParsed, ExecuteFails, Abandon, Rollback, BeginFlush, Elsewhere,
      tracker

\* A statement assigns no field that was not edited.
LEMMA StatementSpares ==
    ASSUME ExactInv, Careful, NEW r \in Rows, NEW t \in Values,
           NEW f \in Fields \ (edited[r] \cup Stamped)
    PROVE  After(r, t)[f] = stored[r][f]
<1>1. CASE f \in Columns
  BY <1>1, ColumnSent DEF ExactInv, Exact
<1>2. CASE f \in Keys
  <2>1. CASE f \notin Sent(r)
    BY <1>2, <2>1, KeySent DEF ExactInv
  <2>2. CASE f \in Sent(r)
    <3>1. ~Rewritten(r)
      BY <1>2, <2>2, KeySent DEF ExactInv, Exact, AssignedKeys
    <3>2. f \notin app.fields
      BY <1>2, <2>2, <3>1, KeySent DEF ExactInv, Exact, Rewritten
    <3>3. held[r][f] = Absent /\ stored[r][f] = Absent
      BY <1>2, <3>2 DEF ExactInv, Confined, Uses
    <3> QED
      BY <1>2, <2>2, <3>1, <3>3, KeySent DEF ExactInv
  <2> QED
    BY <2>1, <2>2
<1> QED
  BY <1>1, <1>2 DEF Fields

\* No statement of a flush changes a field that was not edited, whatever another client has
\* stored there, if flushes end in expiry, no key is false to Python and nothing went astray.
THEOREM OthersAreSpared == Spec => OthersSurvive
<1>1. Init => ExactInv
  BY SentInit DEF Init, ExactInv, SentInv, Exact
<1>2. ASSUME ExactInv, [Next]_vars, FlushStep, Careful,
             NEW q \in Rows, NEW f \in Fields \ (edited[q] \cup Stamped)
      PROVE  stored'[q][f] = stored[q][f]
  <2>1. ASSUME NEW r \in Rows, NEW t \in Values, ExecuteUpdate(r, t) \/ ExecuteFails(r, t)
        PROVE  stored'[q] = stored[q] \/ stored'[q] = After(q, t)
    <3>1. PICK rows \in SUBSET Group(r) : stored' = Executed(r, rows, t)
      BY <2>1 DEF ExecuteUpdate, ExecuteFails
    <3>2. IsNext(r) /\ Mix(r)
      BY <2>1 DEF ExecuteUpdate, ExecuteFails, IsExecuted
    <3> QED
      BY <1>2, <3>1, <3>2, ExecutedAlike DEF ExactInv, FlushStep
  <2>2. UNCHANGED stored \/ \E r \in Rows, t \in Values :
            ExecuteUpdate(r, t) \/ ExecuteFails(r, t)
    BY <1>2 DEF Next, FlushStep, vars, Load, SetColumn, SetItem, DelItem, Mutate, ReplaceDocument,
       Edits, ExecuteMany, IsNotParsed, Elsewhere, BeginFlush, Rollback, UpdateStatement
  <2> QED
    BY <1>2, <2>1, <2>2, StatementSpares
<1>3. (~astray => ExactInv) /\ [Next]_vars =>
          [FlushStep /\ ~Keeps /\ app.fields \cap FalsyKeys = {} =>
              \A r \in Rows : \A f \in Fields \ (edited[r] \cup Stamped) :
                  stored'[r][f] = stored[r][f]]_vars
  BY <1>2, AstrayStays DEF Careful, FlushStep
<1>4. (~astray => SentInv) /\ (~astray => ExactInv) /\ [Next]_vars => (~astray => ExactInv)'
  BY AstrayStays, ExactStep
<1> QED
  BY <1>1, <1>3, <1>4, SentAlways, PTL DEF Spec, OthersSurvive

-----------------------------------------------------------------------------
(* Rows are whole.                                                         *)

\* A statement of a flush stores the rows it reaches as it was given them.
LEMMA RowsStored ==
    ASSUME SentInv, [Next]_vars, FlushStep, NEW q \in Rows
    PROVE  \/ stored'[q] = stored[q]
           \/ q \in queue /\ \E t \in Values : stored'[q] = After(q, t)
<1>1. ASSUME NEW r \in Rows, NEW t \in Values, ExecuteUpdate(r, t) \/ ExecuteFails(r, t)
      PROVE  \/ stored'[q] = stored[q]
             \/ q \in queue /\ stored'[q] = After(q, t)
  <2>1. PICK rows \in SUBSET Group(r) : stored' = Executed(r, rows, t)
    BY <1>1 DEF ExecuteUpdate, ExecuteFails
  <2>2. IsNext(r) /\ Mix(r) /\ Group(r) \subseteq queue
    BY <1>1, GroupIsQueued DEF ExecuteUpdate, ExecuteFails, IsExecuted, SentInv
  <2> QED
    BY <2>1, <2>2, ExecutedAlike DEF SentInv, FlushStep
<1>2. UNCHANGED stored \/ \E r \in Rows, t \in Values :
          ExecuteUpdate(r, t) \/ ExecuteFails(r, t)
  BY DEF Next, FlushStep, vars, Load, SetColumn, SetItem, DelItem, Mutate, ReplaceDocument,
     Edits, ExecuteMany, IsNotParsed, Elsewhere, BeginFlush, Rollback, UpdateStatement
<1> QED
  BY <1>1, <1>2

\* No row is stored with some of its edits only, not even by a flush that fails, as long as no
\* document is changed without a mark and no statement is executed for rows with different
\* parameters.
THEOREM RowsStayWhole == Spec => RowsAreWhole
<1>1. ASSUME SentInv, [Next]_vars, FlushStep, NEW q \in Rows, NEW t \in Values, q \in queue,
             stored'[q] = After(q, t), NEW f \in edited[q]
      PROVE  Shown(stored'[q][f]) = Shown(held[q][f])
  <2>1. f \in Fields
    BY <1>1 DEF SentInv, TypeOK
  <2>2. q \in loaded
    BY <1>1, <2>1 DEF SentInv, Covered, Fields
  <2> QED
    BY <1>1, <2>1, <2>2, StatementStores
<1>2. (~astray => SentInv) /\ [Next]_vars =>
          [FlushStep => \A r \in Rows :
              \/ stored'[r] = stored[r]
              \/ \A f \in edited[r] : Shown(stored'[r][f]) = Shown(held[r][f])]_vars
  BY <1>1, RowsStored, AstrayStays DEF FlushStep
<1> QED
  BY <1>2, SentAlways, PTL DEF Spec, RowsAreWhole

-----------------------------------------------------------------------------
(* Flushes that are accepted.                                              *)

\* An application that does not batch has one modified row at a time, and flushes that one.
OneModified ==
    /\ queue \subseteq {r \in loaded : modified[r] # {}}
    /\ "batches" \notin app.habits =>
        \A q, r \in Rows : q # r => modified[q] = {} \/ modified[r] = {}

\* The row whose turn it is has company only where SQLAlchemy 1.3 or a batch gives it some.
LEMMA Alone ==
    ASSUME TypeOK, OneModified, "batches" \notin app.habits, NEW r \in Rows, IsNext(r)
    PROVE  Group(r) = {r}
<1>1. r \in Group(r) /\ Group(r) \subseteq queue
  BY GroupIsQueued
<1>2. \A q \in queue : q = r
  BY DEF OneModified, IsNext, TypeOK
<1> QED
  BY <1>1, <1>2

\* Every step keeps at most one row modified, if the application does not batch.
LEMMA OneModifiedStep ==
    ASSUME TypeOK, OneModified, [Next]_vars
    PROVE  OneModified'
<1>a. app' = app
  BY AppStays
<1>t. modified \in [Rows -> SUBSET Attributes]
  BY DEF TypeOK
<1>1. ASSUME UNCHANGED modified, UNCHANGED loaded, queue' \subseteq queue
      PROVE  OneModified'
  BY <1>a, <1>1 DEF OneModified
<1>2. ASSUME Settle, queue' = {}
      PROVE  OneModified'
  BY <1>2 DEF Settle, OneModified
<1>3. ASSUME NEW r \in Rows, Load(r)
      PROVE  OneModified'
  BY <1>a, <1>3 DEF Load, OneModified
<1>4. ASSUME NEW r \in Rows, NEW fields, Edits(r, fields), NEW x,
             modified' = [modified EXCEPT ![r] = @ \cup {x}]
      PROVE  OneModified'
  <2>1. \A q \in Rows \ {r} : modified'[q] = modified[q]
    BY <1>t, <1>4
  <2> QED
    BY <1>a, <1>4, <2>1 DEF Edits, OneModified
<1>5. ASSUME NEW r \in Rows,
             \/ \E c \in Columns, v \in Values \cup {Null} : SetColumn(r, c, v)
             \/ \E k \in Keys : DelItem(r, k) \/ \E v \in Values \cup {Null} : SetItem(r, k, v)
             \/ ReplaceDocument(r)
      PROVE  OneModified'
  BY <1>4, <1>5 DEF SetColumn, SetItem, DelItem, Mutate, ReplaceDocument
<1>6. CASE BeginFlush
  BY <1>a, <1>6 DEF BeginFlush, OneModified
<1>7. ASSUME NEW r \in Rows, NEW t \in Values, ExecuteUpdate(r, t)
      PROVE  OneModified'
  <2>1. CASE queue = Group(r) /\ ~Keeps
    BY <1>2, <1>7, <2>1 DEF ExecuteUpdate, Expire
  <2>2. CASE queue = Group(r) /\ Keeps
    BY <1>2, <1>7, <2>2 DEF ExecuteUpdate, TakeOver
  <2>3. CASE queue # Group(r)
    BY <1>1, <1>7, <2>3 DEF ExecuteUpdate, TakeOver
  <2> QED
    BY <2>1, <2>2, <2>3
<1>8. ASSUME UNCHANGED <<modified, loaded, queue>>
      PROVE  OneModified'
  BY <1>1, <1>8
<1> QED
  BY <1>2, <1>3, <1>5, <1>6, <1>7, <1>8 DEF Next, vars, Mutate, Edits, ExecuteMany, IsNotParsed,
     ExecuteFails, Abandon, Expire, Rollback, UpdateStatement, UpdateAll, Elsewhere

\* A key that is marked as changed is held, or marked as deleted too.
MarkedIsHeld ==
    \A r \in Rows : \A k \in changed[r] : held[r][k] # Absent \/ k \in deleted[r]

AcceptedInv == TypeOK /\ OneModified /\ (~InheritedMutators => MarkedIsHeld) /\ NoneIsRefused

\* Every step but an unmarked change keeps marked keys held.
LEMMA MarkedStep ==
    ASSUME TypeOK, MarkedIsHeld, ~InheritedMutators, [Next]_vars
    PROVE  MarkedIsHeld'
<1>t. /\ held \in [Rows -> [Fields -> Contents]]
      /\ changed \in [Rows -> SUBSET Keys] /\ deleted \in [Rows -> SUBSET Keys]
      /\ Keys \subseteq Fields
  BY DEF TypeOK, Row, Fields
<1>1. ASSUME UNCHANGED <<changed, deleted>>,
             \A r \in Rows, k \in Keys : held'[r][k] = held[r][k]
      PROVE  MarkedIsHeld'
  BY <1>t, <1>1 DEF MarkedIsHeld
<1>2. ASSUME \A r \in Rows : \/ changed'[r] = {}
                             \/ /\ held'[r] = held[r]
                                /\ changed'[r] = changed[r] /\ deleted'[r] = deleted[r]
      PROVE  MarkedIsHeld'
  BY <1>2 DEF MarkedIsHeld
<1>3. ASSUME NEW r \in Rows, Load(r) \/ ReplaceDocument(r)
      PROVE  MarkedIsHeld'
  BY <1>t, <1>2, <1>3 DEF Load, ReplaceDocument
<1>4. ASSUME NEW r \in Rows, NEW c \in Columns, NEW v, SetColumn(r, c, v)
      PROVE  MarkedIsHeld'
  BY <1>t, <1>1, <1>4, NamesAssumption DEF SetColumn
<1>5. ASSUME NEW r \in Rows, NEW k \in Keys, NEW v \in Values \cup {Null}, SetItem(r, k, v)
      PROVE  MarkedIsHeld'
  <2>1. /\ held'[r][k] = v /\ v # Absent
        /\ \A q \in Rows, j \in Keys : q # r \/ j # k => held'[q][j] = held[q][j]
    BY <1>t, <1>5, ContentsAssumption DEF SetItem
  <2>2. /\ changed'[r] = changed[r] \cup {k} /\ deleted'[r] = deleted[r] \ {k}
        /\ \A q \in Rows \ {r} : changed'[q] = changed[q] /\ deleted'[q] = deleted[q]
    BY <1>t, <1>5 DEF SetItem, Marked
  <2> QED
    BY <1>t, <2>1, <2>2 DEF MarkedIsHeld
<1>6. ASSUME NEW r \in Rows, NEW k \in Keys, DelItem(r, k)
      PROVE  MarkedIsHeld'
  <2>1. \A q \in Rows, j \in Keys : q # r \/ j # k => held'[q][j] = held[q][j]
    BY <1>t, <1>6 DEF DelItem
  <2>2. /\ changed' = changed /\ deleted'[r] = deleted[r] \cup {k}
        /\ \A q \in Rows \ {r} : deleted'[q] = deleted[q]
    BY <1>t, <1>6 DEF DelItem
  <2> QED
    BY <1>t, <2>1, <2>2 DEF MarkedIsHeld
<1>7. ASSUME NEW r \in Rows, NEW t \in Values, TakeOver(r, t)
      PROVE  MarkedIsHeld'
  <2>1. \A q \in Rows, k \in Keys : HeldAfter(q, SentNames(r), t)[k] = held[q][k]
    BY <1>t, NamesAssumption DEF HeldAfter, DefaultTargets
  <2> QED
    BY <1>1, <1>7, <2>1 DEF TakeOver
<1>8. CASE Expire
  BY <1>2, <1>8 DEF Expire
<1>9. CASE UpdateStatement
  <2>1. PICK own \in SUBSET Attributes, row \in Row, t \in Values : UpdateAll(own, row, t)
    BY <1>9 DEF UpdateStatement
  <2>2. CASE Data \in own
    BY <1>2, <2>1, <2>2 DEF UpdateAll
  <2>3. CASE Data \notin own
    <3>1. \A r \in Rows, k \in Keys : held'[r][k] = held[r][k]
      BY <1>t, <2>1, <2>3 DEF UpdateAll, Attribute
    <3>2. UNCHANGED <<changed, deleted>>
      BY <1>t, <2>1, <2>3 DEF UpdateAll
    <3> QED
      BY <1>1, <3>1, <3>2
  <2> QED
    BY <2>2, <2>3
<1>10. ASSUME NEW r \in Rows, NEW t \in Values, ExecuteUpdate(r, t)
       PROVE  MarkedIsHeld'
  BY <1>7, <1>8, <1>10 DEF ExecuteUpdate
<1>11. CASE UNCHANGED tracker
  BY <1>1, <1>11 DEF tracker
<1> QED
  BY <1>3, <1>4, <1>5, <1>6, <1>8, <1>9, <1>10, <1>11 DEF Next, vars, Mutate, BeginFlush,
     ExecuteMany, IsNotParsed, ExecuteFails, Abandon, Rollback, Elsewhere

\* If marked keys are held, a modified row has a column or a key to assign.
LEMMA ModifiedIsSent ==
    ASSUME TypeOK, MarkedIsHeld, NEW r \in Rows, modified[r] # {}
    PROVE  ColumnTargets(SentNames(r)) \cup SubscriptTargets(SentNames(r)) # {}
<1>1. modified[r] \subseteq Columns \cup {Data}
  BY DEF TypeOK, Attributes
<1>2. CASE \E c \in Columns : c \in modified[r]
  BY <1>2, SentNamesAre DEF ColumnTargets, Attributes
<1>3. CASE Data \in modified[r] /\ ~Rewritten(r)
  BY <1>3, SentNamesAre DEF ColumnTargets, Attributes
<1>4. CASE Data \in modified[r] /\ Rewritten(r)
  <2>1. PICK k \in changed[r] \cup deleted[r] : TRUE
    BY <1>4 DEF Rewritten, IsRewritten, AnyOf
  <2>2. k \in Keys /\ Document(r)[k] = held[r][k]
    BY <2>1 DEF TypeOK, Document
  <2>3. k \in AssignedKeys(Document(r), changed[r], deleted[r])
    BY <2>1, <2>2 DEF MarkedIsHeld, AssignedKeys
  <2>4. k \in SentNames(r)
    BY <1>4, <2>2, <2>3, SentNamesAre
  <2> QED
    BY <2>2, <2>4 DEF SubscriptTargets
<1> QED
  BY <1>1, <1>2, <1>3, <1>4

\* Every step keeps flushes accepted.
LEMMA AcceptedStep ==
    ASSUME AcceptedInv, [Next]_vars
    PROVE  AcceptedInv'
<1>a. app' = app
  BY AppStays
<1>1. TypeOK' /\ OneModified' /\ (~InheritedMutators' => MarkedIsHeld')
  BY <1>a, TypeStep, OneModifiedStep, MarkedStep DEF AcceptedInv, InheritedMutators
<1> SUFFICES ASSUME Legacy \/ "batches" \notin app.habits, "quotes" \notin app.habits,
                    ~InheritedMutators
             PROVE  outcome' # "refused"
  BY <1>a, <1>1 DEF AcceptedInv, NoneIsRefused, Legacy, InheritedMutators
<1>2. outcome # "refused"
  BY DEF AcceptedInv, NoneIsRefused
<1>3. ASSUME NEW r \in Rows, ExecuteMany(r)
      PROVE  FALSE
  BY <1>3, Alone DEF ExecuteMany, AcceptedInv
<1>4. ASSUME NEW r \in Rows, IsNotParsed(r)
      PROVE  FALSE
  <2>1. modified[r] # {}
    BY <1>4 DEF IsNotParsed, IsNext, AcceptedInv, OneModified
  <2>2. ColumnTargets(SentNames(r)) \cup SubscriptTargets(SentNames(r)) # {}
    BY <2>1, ModifiedIsSent DEF AcceptedInv
  <2> QED
    BY <1>4, <2>2 DEF IsNotParsed, IsParsed
<1> QED
  BY <1>2, <1>3, <1>4 DEF Next, vars, Load, SetColumn, SetItem, DelItem, Mutate, ReplaceDocument,
     Edits, BeginFlush, ExecuteUpdate, ExecuteFails, Abandon, Rollback, UpdateStatement,
     UpdateAll, Elsewhere

\* Whichever keys were set, deleted and set again, through flushes that keep their marks and
\* flushes that failed, rewrite_update leaves each modified row a column or a key to assign:
\* the flushes of an application that modifies one row at a time, or runs on SQLAlchemy 1.3,
\* has no name that needs quotes and calls no mutator of dict are not refused.
THEOREM FlushesStayAccepted == Spec => []NoneIsRefused
<1>1. Init => AcceptedInv
  BY SentInit DEF Init, AcceptedInv, OneModified, MarkedIsHeld, NoneIsRefused, SentInv
<1>2. AcceptedInv /\ [Next]_vars => AcceptedInv'
  BY AcceptedStep
<1>3. AcceptedInv => NoneIsRefused
  BY DEF AcceptedInv
<1> QED
  BY <1>1, <1>2, <1>3, PTL DEF Spec

-----------------------------------------------------------------------------
(* The promise of EditedRows.                                              *)

\* A row that was read is not one that was not.
LEMMA SeenIsLoaded == \A row : Shows(row) # NotLoaded
<1>1. \A row : DOMAIN Shows(row) = Fields
  BY DEF Shows
<1>2. DOMAIN NotLoaded = {Label} /\ Label \notin Fields
  BY NamesAssumption DEF NotLoaded, Fields
<1> QED
  BY <1>1, <1>2

\* What the promise sees of a row, before a step and after it.
LEMMA RowSeen ==
    ASSUME NEW r \in Rows
    PROVE  /\ StoredRows[r] = Shows(stored[r])
           /\ StoredRows'[r] = Shows(stored'[r])
           /\ SeenRows[r] = IF r \in loaded THEN Shows(held[r]) ELSE NotLoaded
           /\ SeenRows'[r] = IF r \in loaded' THEN Shows(held'[r]) ELSE NotLoaded
BY DEF StoredRows, SeenRows, Shows, NotLoaded, Shown

LEMMA RowsSeen ==
    /\ StoredRows = [r \in Rows |-> StoredRows[r]]
    /\ StoredRows' = [r \in Rows |-> StoredRows'[r]]
    /\ SeenRows = [r \in Rows |-> SeenRows[r]]
    /\ SeenRows' = [r \in Rows |-> SeenRows'[r]]
BY DEF StoredRows, SeenRows

\* What is modified was edited.
ModifiedIsEdited == \A r \in Rows : modified[r] # {} => edited[r] # {}

LEMMA ModifiedStep ==
    ASSUME TypeOK, Confined, ModifiedIsEdited, [Next]_vars
    PROVE  ModifiedIsEdited'
<1>0. /\ modified \in [Rows -> SUBSET Attributes] /\ edited \in [Rows -> SUBSET Fields]
      /\ held \in [Rows -> Row]
  BY DEF TypeOK
<1>1. ASSUME UNCHANGED <<modified, edited>>
      PROVE  ModifiedIsEdited'
  BY <1>1 DEF ModifiedIsEdited
<1>2. ASSUME Settle
      PROVE  ModifiedIsEdited'
  BY <1>2 DEF Settle, ModifiedIsEdited
<1>3. ASSUME NEW r \in Rows, NEW fields, fields # {}, Edits(r, fields), NEW x,
             modified' = [modified EXCEPT ![r] = @ \cup {x}]
      PROVE  ModifiedIsEdited'
  <2>1. edited'[r] # {} /\ \A q \in Rows \ {r} : /\ edited'[q] = edited[q]
                                                 /\ modified'[q] = modified[q]
    BY <1>0, <1>3 DEF Edits
  <2> QED
    BY <2>1 DEF ModifiedIsEdited
<1>4. ASSUME NEW r \in Rows, ReplaceDocument(r)
      PROVE  ModifiedIsEdited'
  <2>1. PICK row \in Row, k \in Keys : row[k] # held[r][k] /\ Uses(row)
    BY <1>4 DEF ReplaceDocument
  <2>2. k \in app.fields
    BY <2>1 DEF Confined, Uses, Fields
  <2> QED
    BY <1>3, <1>4, <2>2 DEF ReplaceDocument
<1>5. ASSUME NEW r \in Rows,
             \/ \E c \in Columns, v \in Values \cup {Null} : SetColumn(r, c, v)
             \/ \E k \in Keys : DelItem(r, k) \/ \E v \in Values \cup {Null} : SetItem(r, k, v)
      PROVE  ModifiedIsEdited'
  <2>1. ASSUME NEW c, NEW v, SetColumn(r, c, v)
        PROVE  ModifiedIsEdited'
    BY <1>3, <2>1 DEF SetColumn
  <2>2. ASSUME NEW k, NEW v, SetItem(r, k, v)
        PROVE  ModifiedIsEdited'
    BY <1>3, <2>2 DEF SetItem
  <2>3. ASSUME NEW k, DelItem(r, k)
        PROVE  ModifiedIsEdited'
    BY <1>3, <2>3 DEF DelItem
  <2> QED
    BY <1>5, <2>1, <2>2, <2>3
<1>6. ASSUME NEW r \in Rows, NEW t \in Values, ExecuteUpdate(r, t)
      PROVE  ModifiedIsEdited'
  BY <1>1, <1>2, <1>6 DEF ExecuteUpdate
<1>7. ASSUME NEW r \in Rows, NEW k \in Keys, NEW c \in Contents, Mutate(r, k, c)
      PROVE  ModifiedIsEdited'
  <2>1. modified' = modified /\ \A q \in Rows : edited[q] \subseteq edited'[q]
    BY <1>0, <1>7 DEF Mutate, Edits
  <2> QED
    BY <2>1 DEF ModifiedIsEdited
<1> QED
  BY <1>1, <1>2, <1>4, <1>5, <1>6, <1>7
  DEF Next, vars, Load, ExecuteMany, IsNotParsed, ExecuteFails, Abandon, Rollback, BeginFlush,
      UpdateStatement, UpdateAll, Elsewhere

\* Reading a row is a fetch.
LEMMA LoadIsFetch ==
    ASSUME TypeOK, NEW r \in Rows, Load(r)
    PROVE  Promise!Fetch(r)
<1>1. /\ r \in loaded' /\ r \notin loaded /\ held'[r] = stored[r]
      /\ \A q \in Rows \ {r} : held'[q] = held[q] /\ (q \in loaded' <=> q \in loaded)
      /\ UNCHANGED <<stored, edited, queue, outcome>> /\ queue = {}
  BY DEF Load, TypeOK
<1>2. \A q \in Rows : SeenRows'[q] = IF q = r THEN StoredRows[r] ELSE SeenRows[q]
  BY <1>1, RowSeen
<1>3. SeenRows' = [SeenRows EXCEPT ![r] = StoredRows[r]]
  BY <1>2, RowsSeen
<1>4. SeenRows[r] = NotLoaded
  BY <1>1, RowSeen
<1>5. StoredRows' = StoredRows
  BY <1>1 DEF StoredRows
<1> QED
  BY <1>1, <1>3, <1>4, <1>5 DEF Promise!Fetch

\* What the session holds of a row changes in fields that are edited.
LEMMA EditedFields ==
    ASSUME TypeOK, Confined, NEW r \in Rows,
           \/ \E c \in Columns, v \in Values \cup {Null} : SetColumn(r, c, v)
           \/ \E k \in Keys : DelItem(r, k) \/ \E v \in Values \cup {Null} : SetItem(r, k, v)
           \/ ReplaceDocument(r)
    PROVE  /\ \A f \in Fields \ edited'[r] : held'[r][f] = held[r][f]
           /\ \A q \in Rows \ {r} : held'[q] = held[q] /\ edited'[q] = edited[q]
           /\ r \in loaded /\ UNCHANGED <<stored, loaded, queue, outcome>> /\ queue = {}
           /\ edited[r] \subseteq edited'[r]
<1>0. /\ edited \in [Rows -> SUBSET Fields] /\ held \in [Rows -> Row]
      /\ Keys \subseteq Fields /\ Columns \subseteq Fields
  BY DEF TypeOK, Fields
<1> DEFINE Goal ==
      /\ \A f \in Fields \ edited'[r] : held'[r][f] = held[r][f]
      /\ \A q \in Rows \ {r} : held'[q] = held[q] /\ edited'[q] = edited[q]
      /\ r \in loaded /\ UNCHANGED <<stored, loaded, queue, outcome>> /\ queue = {}
      /\ edited[r] \subseteq edited'[r]
<1>1. ASSUME NEW fields, Edits(r, fields),
             \A f \in Fields \ fields : held'[r][f] = held[r][f],
             \A q \in Rows \ {r} : held'[q] = held[q]
      PROVE  Goal
  BY <1>0, <1>1 DEF Edits
<1>2. ASSUME NEW c \in Columns, NEW v, SetColumn(r, c, v)
      PROVE  /\ \A f \in Fields \ {c} : held'[r][f] = held[r][f]
             /\ \A q \in Rows \ {r} : held'[q] = held[q]
             /\ Edits(r, {c})
  BY <1>0, <1>2, EditedField DEF SetColumn
<1>3. ASSUME NEW k \in Keys, NEW v, SetItem(r, k, v)
      PROVE  /\ \A f \in Fields \ {k} : held'[r][f] = held[r][f]
             /\ \A q \in Rows \ {r} : held'[q] = held[q]
             /\ Edits(r, {k})
  BY <1>0, <1>3, EditedField DEF SetItem
<1>4. ASSUME NEW k \in Keys, DelItem(r, k)
      PROVE  /\ \A f \in Fields \ {k} : held'[r][f] = held[r][f]
             /\ \A q \in Rows \ {r} : held'[q] = held[q]
             /\ Edits(r, {k})
  BY <1>0, <1>4, EditedField DEF DelItem
<1>5. ASSUME ReplaceDocument(r)
      PROVE  /\ \A f \in Fields \ (Keys \cap app.fields) : held'[r][f] = held[r][f]
             /\ \A q \in Rows \ {r} : held'[q] = held[q]
             /\ Edits(r, Keys \cap app.fields)
  <2>1. PICK row \in Row : /\ held' = [held EXCEPT ![r] = row] /\ Uses(row)
                           /\ \A c \in Columns : row[c] = held[r][c]
    BY <1>5 DEF ReplaceDocument
  <2>2. held'[r] = row /\ \A q \in Rows \ {r} : held'[q] = held[q]
    BY <1>0, <2>1
  <2>3. \A k \in Keys \ app.fields : row[k] = held[r][k]
    BY <2>1 DEF Confined, Uses, Fields
  <2> QED
    BY <1>5, <2>1, <2>2, <2>3 DEF ReplaceDocument, Fields
<1>6. ASSUME NEW c \in Columns, NEW v, SetColumn(r, c, v)
      PROVE  Goal
  BY <1>1, <1>2, <1>6
<1>7. ASSUME NEW k \in Keys, NEW v, SetItem(r, k, v)
      PROVE  Goal
  BY <1>1, <1>3, <1>7
<1>8. ASSUME NEW k \in Keys, DelItem(r, k)
      PROVE  Goal
  BY <1>1, <1>4, <1>8
<1>9. CASE ReplaceDocument(r)
  BY <1>1, <1>5, <1>9
<1> QED
  BY <1>6, <1>7, <1>8, <1>9

\* Edits of any kind are edits.
LEMMA EditIsEdit ==
    ASSUME TypeOK, Confined, NEW r \in Rows,
           \/ \E c \in Columns, v \in Values \cup {Null} : SetColumn(r, c, v)
           \/ \E k \in Keys : DelItem(r, k) \/ \E v \in Values \cup {Null} : SetItem(r, k, v)
           \/ ReplaceDocument(r)
    PROVE  Promise!Edit(r)
<1>1. /\ \A f \in Fields \ edited'[r] : held'[r][f] = held[r][f]
      /\ \A q \in Rows \ {r} : held'[q] = held[q]
  BY EditedFields
<1>2. /\ r \in loaded /\ UNCHANGED <<stored, loaded, queue, outcome>> /\ queue = {}
      /\ edited[r] \subseteq edited'[r] /\ \A q \in Rows \ {r} : edited'[q] = edited[q]
  BY EditedFields
<1>3. \A q \in Rows \ {r} : SeenRows'[q] = SeenRows[q]
  BY <1>1, <1>2, RowSeen
<1>4. /\ SeenRows[r] = Shows(held[r]) /\ SeenRows'[r] = Shows(held'[r])
      /\ SeenRows[r] # NotLoaded /\ SeenRows'[r] # NotLoaded
  BY <1>2, RowSeen, SeenIsLoaded
<1>5. \A f \in Fields \ edited'[r] : SeenRows'[r][f] = SeenRows[r][f]
  BY <1>1, <1>4 DEF Shows
<1>6. StoredRows' = StoredRows
  BY <1>2 DEF StoredRows
<1> QED
  BY <1>2, <1>3, <1>4, <1>5, <1>6 DEF Promise!Edit

LEMMA BeginIsBegin ==
    ASSUME TypeOK, Covered, ModifiedIsEdited, BeginFlush
    PROVE  Promise!Begin
<1>1. \A r \in Rows : r \in loaded /\ modified[r] # {} <=> edited[r] # {}
  BY DEF Covered, ModifiedIsEdited, TypeOK, Fields
<1>2. queue' = {r \in Rows : edited[r] # {}}
  BY <1>1 DEF BeginFlush, TypeOK
<1>3. StoredRows' = StoredRows /\ SeenRows' = SeenRows
  BY DEF BeginFlush, StoredRows, SeenRows, tracker
<1> QED
  BY <1>2, <1>3 DEF BeginFlush, Promise!Begin

\* A session that has expired has forgotten all.
LEMMA ExpiredIsForgotten ==
    ASSUME Expire, Settle
    PROVE  Promise!Forgotten
<1>1. SeenRows' = [r \in Rows |-> NotLoaded]
  BY DEF Expire, SeenRows
<1> QED
  BY <1>1 DEF Expire, Settle, Promise!Forgotten

\* Statements that do not mix rows store them with their edits and no others.
LEMMA StatementIsStores ==
    ASSUME SentInv, ExactInv, Careful, NEW r \in Rows, NEW R \in SUBSET Group(r),
           NEW t \in Values, IsNext(r), Mix(r), ~astray', stored' = Executed(r, R, t)
    PROVE  Promise!Stores(R)
<1>1. /\ \A q \in R : q \in Rows /\ stored'[q] = After(q, t)
      /\ \A q \in Rows \ R : stored'[q] = stored[q]
  BY ExecutedAlike, GroupIsQueued DEF SentInv
<1>2. \A q \in Rows \ R : StoredRows'[q] = StoredRows[q]
  BY <1>1, RowSeen
<1>3. ASSUME NEW q \in R, NEW f \in edited[q]
      PROVE  StoredRows'[q][f] = SeenRows[q][f]
  <2>1. q \in Rows /\ f \in Fields
    BY <1>1, <1>3 DEF SentInv, TypeOK
  <2>2. q \in loaded
    BY <1>3, <2>1 DEF SentInv, Covered, Fields
  <2>3. Shown(stored'[q][f]) = Shown(held[q][f])
    BY <1>1, <1>3, <2>1, <2>2, StatementStores
  <2>4. StoredRows'[q] = Shows(stored'[q]) /\ SeenRows[q] = Shows(held[q])
    BY <2>1, <2>2, RowSeen
  <2> QED
    BY <2>1, <2>3, <2>4 DEF Shows
<1>4. ASSUME NEW q \in R, NEW f \in Fields \ (edited[q] \cup Stamped)
      PROVE  StoredRows'[q][f] = StoredRows[q][f]
  <2>1. stored'[q][f] = stored[q][f]
    BY <1>1, StatementSpares
  <2>2. StoredRows'[q] = Shows(stored'[q]) /\ StoredRows[q] = Shows(stored[q])
    BY <1>1, RowSeen
  <2> QED
    BY <2>1, <2>2 DEF Shows
<1> QED
  BY <1>2, <1>3, <1>4 DEF Promise!Stores

\* What the session takes over of a statement is what the statement stamped.
LEMMA StampsAreTakenOver ==
    ASSUME TypeOK, Confined, Covered, NEW q \in Rows, NEW t \in Values, NEW f \in Fields
    PROVE  HeldThen(q, t)[f] = IF f \in Stamped THEN After(q, t)[f] ELSE held[q][f]
<1>1. CASE f \in Keys
  BY <1>1, KeySent, NamesAssumption DEF Fields
<1>2. CASE f \in Columns \ Stamped
  BY <1>2, ColumnSent
<1>3. CASE f \in Stamped
  <2>1. f \in Columns /\ f \notin Keys
    BY <1>3, NamesAssumption DEF Fields
  <2>2. f \notin app.fields => held[q][f] = stored[q][f]
    BY <2>1 DEF Confined, Uses
  <2> QED
    BY <1>3, <2>1, <2>2, ColumnSent
<1> QED
  BY <1>1, <1>2, <1>3 DEF Fields

\* A statement is a step of the flush, and the last one its end.
LEMMA UpdateIsStore ==
    ASSUME SentInv, ExactInv, OneModified, Careful, NEW r \in Rows, NEW t \in Values,
           ExecuteUpdate(r, t), ~astray'
    PROVE  \E R \in (SUBSET queue) \ {{}} : Promise!Store(R)
<1>1. /\ IsNext(r) /\ Mix(r) /\ stored' = Executed(r, Group(r), t)
      /\ Group(r) \in (SUBSET queue) \ {{}} /\ queue \subseteq Rows
  BY GroupIsQueued DEF ExecuteUpdate, IsExecuted, SentInv
<1>2. Promise!Stores(Group(r))
  BY <1>1, StatementIsStores
<1>3. UNCHANGED outcome
  BY DEF ExecuteUpdate
<1>4. CASE queue = Group(r)
  <2>1. Promise!Forgotten
    BY <1>4, ExpiredIsForgotten DEF ExecuteUpdate, Careful
  <2>2. Promise!Store(Group(r))
    BY <1>2, <1>3, <1>4, <2>1 DEF Promise!Store
  <2> QED
    BY <1>1, <2>2
<1>5. CASE queue # Group(r)
  <2>1. TakeOver(r, t) /\ UNCHANGED edited
    BY <1>5 DEF ExecuteUpdate
  <2>2. \A q \in Group(r) : /\ q \in Rows /\ q \in loaded
                            /\ SentNames(q) = SentNames(r) /\ stored'[q] = After(q, t)
    <3>1. \A q \in Group(r) : SentNames(q) = SentNames(r) /\ stored'[q] = After(q, t)
      BY <1>1, ExecutedAlike DEF SentInv
    <3> QED
      BY <1>1, <3>1 DEF OneModified
  <2>3. /\ \A q \in Group(r) : held'[q] = HeldThen(q, t)
        /\ \A q \in Rows \ Group(r) : held'[q] = held[q]
        /\ loaded' = loaded /\ queue' = queue \ Group(r)
    BY <2>1, <2>2, TakenOverAlike DEF SentInv, TakeOver
  <2>4. \A q \in Rows \ Group(r) : SeenRows'[q] = SeenRows[q]
    BY <2>3, RowSeen
  <2>5. ASSUME NEW q \in Group(r), NEW f \in Fields
        PROVE  SeenRows'[q][f] = IF f \in Stamped THEN StoredRows'[q][f] ELSE SeenRows[q][f]
    <3>1. held'[q][f] = IF f \in Stamped THEN stored'[q][f] ELSE held[q][f]
      BY <2>2, <2>3, StampsAreTakenOver DEF SentInv
    <3>2. /\ SeenRows'[q] = Shows(held'[q]) /\ SeenRows[q] = Shows(held[q])
          /\ StoredRows'[q] = Shows(stored'[q])
      BY <2>2, <2>3, RowSeen
    <3> QED
      BY <3>1, <3>2 DEF Shows
  <2>6. Promise!Store(Group(r))
    BY <1>2, <1>3, <2>1, <2>3, <2>4, <2>5 DEF Promise!Store
  <2> QED
    BY <1>1, <2>6
<1> QED
  BY <1>4, <1>5

\* A statement that fails, or is refused, is a failure of the flush.
LEMMA FailureIsFail ==
    ASSUME SentInv, ExactInv, Careful, NEW r \in Rows, NEW t \in Values,
           ExecuteFails(r, t), ~astray'
    PROVE  queue # {} /\ \E R \in SUBSET queue : Promise!Fail(R)
<1>1. PICK R \in SUBSET Group(r) : stored' = Executed(r, R, t)
  BY DEF ExecuteFails
<1>2. IsNext(r) /\ Mix(r) /\ Group(r) \subseteq queue /\ r \in queue
  BY GroupIsQueued DEF ExecuteFails, IsExecuted, IsNext, SentInv
<1>3. Promise!Stores(R)
  BY <1>1, <1>2, StatementIsStores
<1>4. Promise!Forgotten /\ outcome' = "failed"
  BY ExpiredIsForgotten DEF ExecuteFails, Abandon
<1>5. Promise!Fail(R)
  BY <1>3, <1>4 DEF Promise!Fail
<1> QED
  BY <1>1, <1>2, <1>5

LEMMA RefusalIsFail ==
    ASSUME NEW r \in Rows, ExecuteMany(r) \/ IsNotParsed(r)
    PROVE  queue # {} /\ \E R \in SUBSET queue : Promise!Fail(R)
<1>1. Promise!Forgotten /\ outcome' = "refused" /\ UNCHANGED stored /\ r \in queue
  BY ExpiredIsForgotten DEF ExecuteMany, IsNotParsed, Abandon, IsNext
<1>2. Promise!Stores({})
  BY <1>1 DEF Promise!Stores, StoredRows
<1>3. Promise!Fail({})
  BY <1>1, <1>2 DEF Promise!Fail
<1> QED
  BY <1>1, <1>3

LEMMA RollbackIsRollback ==
    ASSUME Rollback
    PROVE  Promise!Rollback
<1>1. Promise!Forgotten
  BY ExpiredIsForgotten DEF Rollback
<1>2. StoredRows' = StoredRows
  BY DEF Rollback, StoredRows
<1> QED
  BY <1>1, <1>2 DEF Rollback, Promise!Rollback

\* An update of all rows of the application is an assignment.
LEMMA UpdateAllIsAssign ==
    ASSUME SentInv, UpdateStatement
    PROVE  \E R \in SUBSET Rows : Promise!Assign(R)
<1>1. PICK own \in SUBSET (Attributes \cap (app.fields \cup {Data})), row \in Row, t \in Values :
          UpdateAll(own, row, t)
  BY DEF UpdateStatement
<1>2. \A r \in Rows : edited[r] = {}
  BY DEF UpdateStatement, SentInv, TypeOK, Covered, Fields
<1>3. queue = {} /\ UNCHANGED <<edited, queue, outcome, loaded>>
  BY <1>1 DEF UpdateStatement, UpdateAll
<1>4. app.rows \in SUBSET Rows /\ loaded \subseteq app.rows
  BY ApplicationsAssumption DEF SentInv, TypeOK, Confined, Application
<1>5. ASSUME NEW r \in Rows
      PROVE  /\ r \notin app.rows => SeenRows[r] = NotLoaded /\ StoredRows'[r] = StoredRows[r]
             /\ SeenRows[r] = NotLoaded <=> SeenRows'[r] = NotLoaded
  <2>1. r \notin app.rows => stored'[r] = stored[r]
    BY <1>1 DEF UpdateAll
  <2> QED
    BY <1>3, <1>4, <2>1, RowSeen, SeenIsLoaded
<1>6. ASSUME NEW f \in Fields, Attribute(f) \in own
      PROVE  \A q, r \in app.rows :
                 /\ StoredRows'[q][f] = StoredRows'[r][f]
                 /\ SeenRows[r] # NotLoaded => SeenRows'[r][f] = StoredRows'[r][f]
  <2>1. ASSUME NEW r \in app.rows
        PROVE  /\ StoredRows'[r][f] = Shown(row[f])
               /\ SeenRows[r] # NotLoaded => SeenRows'[r][f] = Shown(row[f])
    <3>1. r \in Rows /\ stored'[r][f] = row[f] /\ (r \in loaded => held'[r][f] = row[f])
      BY <1>1, <1>4, <1>6, UpdateAllFields
    <3>2. /\ StoredRows'[r] = Shows(stored'[r])
          /\ SeenRows[r] # NotLoaded => r \in loaded /\ SeenRows'[r] = Shows(held'[r])
      BY <1>3, <3>1, RowSeen
    <3> QED
      BY <3>1, <3>2 DEF Shows
  <2> QED
    BY <2>1
<1>7. ASSUME NEW f \in Fields, Attribute(f) \notin own
      PROVE  \A r \in app.rows :
                 /\ f \notin Stamped => StoredRows'[r][f] = StoredRows[r][f]
                 /\ SeenRows[r] # NotLoaded => SeenRows'[r][f] = SeenRows[r][f]
  <2> SUFFICES ASSUME NEW r \in app.rows
               PROVE  /\ f \notin Stamped => StoredRows'[r][f] = StoredRows[r][f]
                      /\ SeenRows[r] # NotLoaded => SeenRows'[r][f] = SeenRows[r][f]
    OBVIOUS
  <2>0. r \in Rows
    BY <1>4
  <2>1. /\ f \notin Stamped => stored'[r][f] = stored[r][f]
        /\ r \in loaded => held'[r][f] = held[r][f]
    <3>1. f \notin Stamped => f \notin Stamped \cap app.fields
      OBVIOUS
    <3>2. UpdateAll(own, row, t)
      BY <1>1
    <3>3. /\ r \in app.rows /\ Attribute(f) \notin own /\ f \notin Stamped \cap app.fields
                => stored'[r][f] = stored[r][f]
          /\ r \in loaded => held'[r][f] = IF Attribute(f) \in own THEN row[f] ELSE held[r][f]
      BY <2>0, <3>2, UpdateAllFields
    <3> QED
      BY <1>7, <3>1, <3>3
  <2>2. /\ StoredRows'[r] = Shows(stored'[r]) /\ StoredRows[r] = Shows(stored[r])
        /\ SeenRows[r] # NotLoaded => /\ r \in loaded /\ SeenRows[r] = Shows(held[r])
                                      /\ SeenRows'[r] = Shows(held'[r])
    BY <1>3, <2>0, RowSeen
  <2> QED
    BY <2>1, <2>2 DEF Shows
<1>8. Promise!Assign(app.rows)
  BY <1>2, <1>3, <1>5, <1>6, <1>7 DEF Promise!Assign
<1> QED
  BY <1>4, <1>8

LEMMA ElsewhereIsElsewhere ==
    ASSUME TypeOK, NEW r \in Rows, NEW f \in Fields, NEW c \in Contents, Elsewhere(r, f, c)
    PROVE  Promise!Elsewhere(r)
<1>1. /\ \A q \in Rows \ {r} : stored'[q] = stored[q]
      /\ \A g \in Fields \ {f} : stored'[r][g] = stored[r][g]
  BY DEF Elsewhere, TypeOK, Row
<1>2. UNCHANGED <<loaded, held, edited, queue, outcome>>
  BY DEF Elsewhere, tracker
<1>3. \A q \in Rows \ {r} : StoredRows'[q] = StoredRows[q]
  BY <1>1, RowSeen
<1>4. \A g \in Fields \ {f} : StoredRows'[r][g] = StoredRows[r][g]
  <2>1. StoredRows[r] = Shows(stored[r]) /\ StoredRows'[r] = Shows(stored'[r])
    BY RowSeen
  <2> QED
    BY <1>1, <2>1 DEF Shows
<1>5. SeenRows' = SeenRows
  BY <1>2 DEF SeenRows
<1> QED
  BY <1>2, <1>3, <1>4, <1>5 DEF Promise!Elsewhere

\* Every step that leaves nothing astray is one of the promise, or changes nothing of it.
LEMMA PromiseStep ==
    ASSUME SentInv, ExactInv, OneModified, ModifiedIsEdited, Careful, [Next]_vars, ~astray'
    PROVE  [Promise!Next]_(Promise!vars)
<1>t. TypeOK /\ Confined /\ Covered
  BY DEF SentInv
<1>1. CASE UNCHANGED vars
  <2>1. StoredRows' = StoredRows /\ SeenRows' = SeenRows
    BY <1>1 DEF vars, tracker, StoredRows, SeenRows
  <2> QED
    BY <1>1, <2>1 DEF vars, Promise!vars
<1>2. ASSUME NEW r \in Rows, Load(r)
      PROVE  Promise!Next
  BY <1>t, <1>2, LoadIsFetch DEF Promise!Next
<1>3. ASSUME NEW r \in Rows,
             \/ \E c \in Columns, v \in Values \cup {Null} : SetColumn(r, c, v)
             \/ \E k \in Keys : DelItem(r, k) \/ \E v \in Values \cup {Null} : SetItem(r, k, v)
             \/ ReplaceDocument(r)
      PROVE  Promise!Next
  <2>1. Promise!Edit(r)
    BY <1>t, <1>3, EditIsEdit
  <2> QED
    BY <2>1 DEF Promise!Next
<1>4. CASE BeginFlush
  BY <1>t, <1>4, BeginIsBegin DEF Promise!Next
<1>5. ASSUME NEW r \in Rows, NEW t \in Values, ExecuteUpdate(r, t)
      PROVE  Promise!Next
  BY <1>5, UpdateIsStore DEF Promise!Next
<1>6. ASSUME NEW r \in Rows, NEW t \in Values, ExecuteFails(r, t)
      PROVE  Promise!Next
  BY <1>6, FailureIsFail DEF Promise!Next
<1>7. ASSUME NEW r \in Rows, ExecuteMany(r) \/ IsNotParsed(r)
      PROVE  Promise!Next
  BY <1>7, RefusalIsFail DEF Promise!Next
<1>8. CASE Rollback
  BY <1>8, RollbackIsRollback DEF Promise!Next
<1>9. CASE UpdateStatement
  BY <1>9, UpdateAllIsAssign DEF Promise!Next
<1>10. ASSUME NEW r \in Rows, NEW f \in Fields, NEW c \in Contents, Elsewhere(r, f, c)
       PROVE  Promise!Next
  <2>1. Promise!Elsewhere(r)
    BY <1>t, <1>10, ElsewhereIsElsewhere
  <2> QED
    BY <2>1 DEF Promise!Next
<1> QED
  BY <1>1, <1>2, <1>3, <1>4, <1>5, <1>6, <1>7, <1>8, <1>9, <1>10 DEF Next, Mutate

\* rewrite_update, visit_update and SQLAlchemy's unit of work implement EditedRows: edits reach
\* CrateDB row by row and by flushes only, whole, and with nothing that was not edited, next to
\* other clients, failures and statements for all rows, if flushes end in expiry, no key is
\* false to Python and nothing goes astray.
THEOREM PromiseIsKept == Spec => ImplementsEditedRows
<1> DEFINE Inv == AcceptedInv /\ (~astray => SentInv /\ ExactInv /\ ModifiedIsEdited)
<1>1. Init => Inv
  BY SentInit DEF Init, AcceptedInv, OneModified, MarkedIsHeld, NoneIsRefused, SentInv,
     ExactInv, Exact, ModifiedIsEdited
<1>2. ASSUME Inv, [Next]_vars
      PROVE  Inv'
  <2>1. AcceptedInv'
    BY <1>2, AcceptedStep
  <2>2. ASSUME ~astray'
        PROVE  SentInv' /\ ExactInv' /\ ModifiedIsEdited'
    BY <1>2, <2>2, AstrayStays, SentStep, ExactStep, ModifiedStep DEF SentInv
  <2> QED
    BY <2>1, <2>2
<1>3. Init => Promise!Init
  BY DEF Init, Promise!Init, SeenRows
<1>4. Inv /\ [Next]_vars =>
        [~Keeps /\ app.fields \cap FalsyKeys = {} /\ ~astray'
            => [Promise!Next]_(Promise!vars)]_vars
  BY PromiseStep, AstrayStays DEF AcceptedInv, Careful
<1> QED
  BY <1>1, <1>2, <1>3, <1>4, PTL DEF Spec, ImplementsEditedRows
=============================================================================
