------------------------ MODULE ObjectColumnProofs ------------------------
(***************************************************************************)
(* Theorems about ObjectColumn, for any sessions, keys and values.         *)
(***************************************************************************)
EXTENDS ObjectColumn, TLAPS

\* The application never changes: a condition on it holds for ever or never.
LEMMA AppStays == [Next]_vars => app' = app
BY DEF Next, vars

\* The sessions and the keys of an application are sessions and keys.
LEMMA AppType ==
    ASSUME TypeOK
    PROVE  app.sessions \subseteq Sessions /\ app.keys \subseteq Keys
BY ApplicationsAssumption DEF TypeOK, Application

\* The document without keys is a document.
LEMMA NoDocumentType == NoDocument \in Documents
BY DEF NoDocument, Documents, Contents

\* An UPDATE of a document gives a document (rewrite_update invents no content).
LEMMA UpdatedType ==
    ASSUME NEW d \in Documents, NEW i \in Documents,
           NEW c \in SUBSET Keys, NEW e \in SUBSET Keys
    PROVE  Updated(d, i, c, e) \in Documents
BY DEF Documents, Contents, Updated, WrittenKeys, WrittenContent, AssignedKeys,
       AssignedContent

\* What a flush stores is a document.
LEMMA AfterUpdateType ==
    ASSUME TypeOK, NEW s \in Sessions
    PROVE  AfterUpdate(s) \in Documents
BY UpdatedType DEF TypeOK, AfterUpdate

\* A session that drops its attribute keeps every variable in its type.
LEMMA ExpireType ==
    ASSUME TypeOK, NEW s \in Sessions, Expire(s), doc' \in Documents, app' = app
    PROVE  TypeOK'
BY NoDocumentType DEF TypeOK, Expire, Wrapped, Settle, Pending

\* Every step of every session keeps the types.
LEMMA TypeStep ==
    ASSUME TypeOK, [Next]_vars
    PROVE  TypeOK'
<1>a. app' = app
  BY AppStays
<1> USE <1>a
<1>1. CASE UNCHANGED vars
  BY <1>1 DEF TypeOK, vars, tracker
<1>2. ASSUME NEW s \in Sessions, SessionNext(s)
      PROVE  TypeOK'
  <2> USE NoDocumentType
  <2>1. CASE Load(s)
    BY <2>1 DEF TypeOK, Load, Wrapped, Pending
  <2>2. ASSUME NEW k \in Keys, NEW c \in Values \cup {Null}, SetItem(s, k, c)
        PROVE  TypeOK'
    BY <2>2 DEF TypeOK, SetItem, MarkModified, Pending, Documents, Contents
  <2>3. ASSUME NEW k \in Keys, DelItem(s, k)
        PROVE  TypeOK'
    BY <2>3 DEF TypeOK, DelItem, MarkModified, Pending, Documents, Contents
  <2>4. ASSUME NEW k \in Keys, NEW c \in Contents, Mutate(s, k, c)
        PROVE  TypeOK'
    <3>1. items' \in [Sessions -> Documents]
      BY <2>4 DEF TypeOK, Mutate, Documents
    <3> QED
      BY <2>4, <3>1 DEF TypeOK, Mutate
  <2>5. ASSUME NEW d \in Documents, Replace(s, d)
        PROVE  TypeOK'
    BY <2>5 DEF TypeOK, Replace, Wrapped, Pending
  <2>6. CASE Flush(s)
    BY <2>6, AfterUpdateType DEF TypeOK, Flush, Settle, tracker, Pending
  <2>7. CASE Commit(s)
    <3>1. doc' \in Documents
      BY <2>7, AfterUpdateType DEF Commit
    <3>2. CASE ExpireOnCommit
      BY <2>7, <3>1, <3>2, ExpireType DEF Commit
    <3>3. CASE ~ExpireOnCommit
      BY <2>7, <3>1, <3>3 DEF TypeOK, Commit, Settle, tracker, Pending
    <3> QED
      BY <3>2, <3>3
  <2>8. CASE FlushFails(s)
    <3>1. doc' \in Documents
      BY <2>8, AfterUpdateType DEF FlushFails, TypeOK
    <3> QED
      BY <2>8, <3>1, ExpireType DEF FlushFails
  <2>9. CASE Rollback(s)
    BY <2>9, ExpireType DEF Rollback, TypeOK
  <2> QED
    BY <1>2, <2>1, <2>2, <2>3, <2>4, <2>5, <2>6, <2>7, <2>8, <2>9 DEF SessionNext
<1> QED
  BY <1>1, <1>2, AppType DEF Next

\* Every variable keeps its type, whatever the options and the application's habits.
THEOREM TypeCorrect == Spec => []TypeOK
<1>1. Init => TypeOK
  BY NoDocumentType DEF Init, TypeOK, Pending
<1>2. TypeOK /\ [Next]_vars => TypeOK'
  BY TypeStep
<1> QED
  BY <1>1, <1>2, PTL DEF Spec

-----------------------------------------------------------------------------
(* No edit is lost.                                                        *)

\* What a session's marks say of its edits.
Recorded(s) ==
    /\ pending[s] # "clean" => loaded[s]
    /\ edited[s] # {} => IsDirty(s)
    /\ \A k \in deleted[s] : items[s][k] = Absent
    /\ \A k \in changed[s] : items[s][k] # Absent \/ k \in deleted[s]
    /\ pending[s] = "replaced" => changed[s] \cup deleted[s] = {}
    /\ changed[s] \cup deleted[s] # {} => edited[s] \subseteq changed[s] \cup deleted[s]

RecordedInv == TypeOK /\ \A s \in Sessions : Recorded(s)

\* A session that drops its attribute has nothing left to record.
LEMMA ExpireRecorded ==
    ASSUME TypeOK, NEW s \in Sessions, Expire(s), \A t \in Sessions : Recorded(t)
    PROVE  \A t \in Sessions : Recorded(t)'
BY DEF TypeOK, Expire, Wrapped, Settle, Recorded, IsDirty

\* Every step keeps each edited key either marked or part of a whole-document UPDATE.
LEMMA RecordedStep ==
    ASSUME ~EditsReplacement, ~InheritedMutators, RecordedInv, [Next]_vars
    PROVE  RecordedInv'
<1>a. app' = app
  BY AppStays
<1> USE <1>a
<1>1. TypeOK /\ TypeOK'
  BY TypeStep DEF RecordedInv
<1>2. CASE UNCHANGED vars
  BY <1>1, <1>2 DEF RecordedInv, Recorded, IsDirty, vars, tracker
<1>3. ASSUME NEW s \in Sessions, SessionNext(s)
      PROVE  \A t \in Sessions : Recorded(t)'
  <2>0. \A t \in Sessions : Recorded(t)
    BY DEF RecordedInv
  <2>1. CASE Load(s)
    BY <1>1, <2>0, <2>1 DEF TypeOK, Load, Wrapped, Recorded, IsDirty
  <2>2. ASSUME NEW k \in Keys, NEW c \in Values \cup {Null}, SetItem(s, k, c)
        PROVE  \A t \in Sessions : Recorded(t)'
    <3> SUFFICES ASSUME NEW t \in Sessions
                 PROVE  Recorded(t)'
      OBVIOUS
    <3>1. c # Absent
      BY ContentsAssumption
    <3>2. loaded[s] /\ edited[s] \subseteq changed[s] \cup deleted[s]
      BY <2>0, <2>2 DEF SetItem, MayEdit, Recorded
    <3>3. CASE t = s
      BY <1>1, <2>0, <2>2, <3>1, <3>2, <3>3
         DEF TypeOK, SetItem, MarkModified, Recorded, IsDirty, Documents
    <3>4. CASE t # s
      BY <1>1, <2>0, <2>2, <3>4
         DEF TypeOK, SetItem, MarkModified, Recorded, IsDirty, Documents
    <3> QED
      BY <3>3, <3>4
  <2>3. ASSUME NEW k \in Keys, DelItem(s, k)
        PROVE  \A t \in Sessions : Recorded(t)'
    <3> SUFFICES ASSUME NEW t \in Sessions
                 PROVE  Recorded(t)'
      OBVIOUS
    <3>1. loaded[s] /\ edited[s] \subseteq changed[s] \cup deleted[s]
      BY <2>0, <2>3 DEF DelItem, MayEdit, Recorded
    <3>2. CASE t = s
      BY <1>1, <2>0, <2>3, <3>1, <3>2
         DEF TypeOK, DelItem, MarkModified, Recorded, IsDirty, Documents
    <3>3. CASE t # s
      BY <1>1, <2>0, <2>3, <3>3
         DEF TypeOK, DelItem, MarkModified, Recorded, IsDirty, Documents
    <3> QED
      BY <3>2, <3>3
  <2>4. ASSUME NEW k \in Keys, NEW c \in Contents, Mutate(s, k, c)
        PROVE  \A t \in Sessions : Recorded(t)'
    BY <2>4 DEF Mutate
  <2>5. ASSUME NEW d \in Documents, Replace(s, d)
        PROVE  \A t \in Sessions : Recorded(t)'
    BY <1>1, <2>0, <2>5 DEF TypeOK, Replace, Wrapped, Recorded, IsDirty
  <2>6. CASE Flush(s)
    BY <1>1, <2>0, <2>6 DEF TypeOK, Flush, Settle, Recorded, IsDirty, tracker
  <2>7. CASE Commit(s)
    <3>1. CASE ExpireOnCommit
      BY <1>1, <2>0, <2>7, <3>1, ExpireRecorded DEF Commit
    <3>2. CASE ~ExpireOnCommit
      BY <1>1, <2>0, <2>7, <3>2 DEF TypeOK, Commit, Settle, Recorded, IsDirty, tracker
    <3> QED
      BY <3>1, <3>2
  <2>8. CASE FlushFails(s)
    BY <1>1, <2>0, <2>8, ExpireRecorded DEF FlushFails
  <2>9. CASE Rollback(s)
    BY <1>1, <2>0, <2>9, ExpireRecorded DEF Rollback
  <2> QED
    BY <1>3, <2>1, <2>2, <2>3, <2>4, <2>5, <2>6, <2>7, <2>8, <2>9 DEF SessionNext
<1> QED
  BY <1>1, <1>2, <1>3, AppType DEF Next, RecordedInv

\* Edits that are recorded reach the store: rewrite_update sends every marked key.
LEMMA RecordedSuffices == RecordedInv => EditsReachStore
<1> SUFFICES ASSUME RecordedInv, NEW s \in Sessions, NEW k \in edited[s]
             PROVE  Shown(AfterUpdate(s)[k]) = Shown(items[s][k])
  BY DEF EditsReachStore
<1>1. TypeOK /\ Recorded(s) /\ k \in Keys
  BY DEF RecordedInv, TypeOK
<1>2. AfterUpdate(s) = Updated(doc, items[s], changed[s], deleted[s])
  BY <1>1 DEF Recorded, AfterUpdate
<1>3. CASE ~IsRewritten(changed[s], deleted[s])
  BY <1>1, <1>2, <1>3 DEF Updated, WrittenKeys, WrittenContent
<1>4. CASE IsRewritten(changed[s], deleted[s])
  <2>1. k \in changed[s] \cup deleted[s]
    BY <1>1, <1>4 DEF Recorded, IsRewritten, AnyOf
  <2>2. k \in AssignedKeys(items[s], changed[s], deleted[s])
    BY <1>1, <2>1 DEF Recorded, AssignedKeys
  <2>3. AfterUpdate(s)[k] = IF k \in deleted[s] THEN Null ELSE items[s][k]
    BY <1>1, <1>2, <1>4, <2>2
       DEF Updated, WrittenKeys, WrittenContent, AssignedContent
  <2> QED
    BY <1>1, <2>3, ContentsAssumption DEF Recorded, Shown
<1> QED
  BY <1>3, <1>4

\* No edit of an application that uses item assignment and deletion, and does not edit a
\* document it has just assigned, is lost: not by early flushes, by marks left over from
\* an earlier flush, by failed flushes, nor for keys that are false to Python.
THEOREM EditsAreNotLost == Spec => []NoEditIsLost
<1> DEFINE Marking == ~EditsReplacement /\ ~InheritedMutators
           Inv     == Marking => RecordedInv
<1>1. Init => Inv
  BY NoDocumentType DEF Init, RecordedInv, TypeOK, Pending, Recorded, IsDirty
<1>2. Inv /\ [Next]_vars => Inv'
  <2> SUFFICES ASSUME Inv, [Next]_vars, Marking'
               PROVE  RecordedInv'
    OBVIOUS
  <2>1. Marking
    BY AppStays DEF EditsReplacement, InheritedMutators
  <2> QED
    BY <2>1, RecordedStep
<1>3. Inv => NoEditIsLost
  BY RecordedSuffices DEF NoEditIsLost
<1> HIDE DEF Inv
<1> QED
  BY <1>1, <1>2, <1>3, PTL DEF Spec

-----------------------------------------------------------------------------
(* A session alone sees what is stored.                                    *)

Agree(d, e, keys) == \A k \in keys : Shown(d[k]) = Shown(e[k])

\* What a session that is alone holds of the stored document: all of it while it has
\* nothing to send, what it had before an assignment, and else the unmarked keys.
Mirrors(s) ==
    loaded[s] =>
        /\ pending[s] = "clean" => Agree(items[s], doc, Keys)
        /\ pending[s] = "replaced" => Agree(committed[s], doc, Keys)
        /\ pending[s] = "flagged" /\ changed[s] \cup deleted[s] # {} =>
               Agree(items[s], doc, Keys \ (changed[s] \cup deleted[s]))

MirrorInv == RecordedInv /\ \A s \in Sessions : app.sessions = {s} => Mirrors(s)

\* A flush stores what the session sees: the marked keys when there are marks that Python
\* takes for true, and else the whole document.
LEMMA FlushMirrors ==
    ASSUME RecordedInv, NEW s \in Sessions, loaded[s], Mirrors(s)
    PROVE  Agree(items[s], AfterUpdate(s), Keys)
<1>1. TypeOK /\ Recorded(s)
  BY DEF RecordedInv
<1>2. CASE ~IsDirty(s)
  BY <1>1, <1>2 DEF IsDirty, AfterUpdate, Mirrors, Agree, TypeOK, Pending
<1>3. CASE IsDirty(s)
  <2>1. AfterUpdate(s) = Updated(doc, items[s], changed[s], deleted[s])
    BY <1>3 DEF AfterUpdate
  <2>2. CASE ~IsRewritten(changed[s], deleted[s])
    BY <2>1, <2>2 DEF Agree, Updated, WrittenKeys, WrittenContent
  <2>3. CASE IsRewritten(changed[s], deleted[s])
    <3>1. changed[s] \cup deleted[s] # {}
      BY <2>3 DEF IsRewritten, AnyOf
    <3>2. pending[s] = "flagged"
      BY <1>1, <1>3, <3>1 DEF IsDirty, Recorded, TypeOK, Pending
    <3>3. Agree(items[s], doc, Keys \ (changed[s] \cup deleted[s]))
      BY <3>1, <3>2 DEF Mirrors
    <3>4. AssignedKeys(items[s], changed[s], deleted[s]) = changed[s] \cup deleted[s]
      BY <1>1 DEF Recorded, AssignedKeys
    <3> SUFFICES ASSUME NEW k \in Keys
                 PROVE  Shown(items[s][k]) = Shown(AfterUpdate(s)[k])
      BY DEF Agree
    <3>5. CASE k \in changed[s] \cup deleted[s]
      <4>1. AfterUpdate(s)[k] = IF k \in deleted[s] THEN Null ELSE items[s][k]
        BY <2>1, <2>3, <3>4, <3>5
        DEF Updated, WrittenKeys, WrittenContent, AssignedContent
      <4> QED
        BY <1>1, <4>1 DEF Recorded, Shown
    <3>6. CASE k \notin changed[s] \cup deleted[s]
      <4>1. AfterUpdate(s)[k] = doc[k]
        BY <2>1, <2>3, <3>4, <3>6 DEF Updated, WrittenKeys
      <4> QED
        BY <3>3, <3>6, <4>1 DEF Agree
    <3> QED
      BY <3>5, <3>6
  <2> QED
    BY <2>2, <2>3
<1> QED
  BY <1>2, <1>3

\* An edit of one key leaves the view of the others as it was.
LEMMA EditMirrors ==
    ASSUME RecordedInv, ~EditsReplacement, NEW s \in Sessions, Mirrors(s),
           NEW k \in Keys, NEW c, MayEdit(s, k), MarkModified(s), doc' = doc,
           items' = [items EXCEPT ![s][k] = c],
           changed'[s] \cup deleted'[s] = changed[s] \cup deleted[s] \cup {k}
    PROVE  Mirrors(s)'
<1>1. TypeOK /\ Recorded(s) /\ loaded[s]
  BY DEF RecordedInv, MayEdit
<1>2. pending'[s] = "flagged"
  BY <1>1 DEF MarkModified, TypeOK
<1>3. \A j \in Keys \ {k} : items'[s][j] = items[s][j]
  BY <1>1 DEF TypeOK, Documents
<1>4. Agree(items[s], doc, Keys \ (changed[s] \cup deleted[s]))
  <2>1. CASE pending[s] = "clean"
    BY <1>1, <2>1 DEF Mirrors, Agree
  <2>2. CASE pending[s] = "replaced"
    <3>1. ~IsDirty(s)
      BY <1>1, <2>2 DEF MayEdit, Recorded
    <3> QED
      BY <1>1, <2>2, <3>1 DEF IsDirty, Mirrors, Agree
  <2>3. CASE pending[s] = "flagged"
    <3>1. changed[s] \cup deleted[s] # {}
      BY <2>3 DEF MayEdit, IsDirty
    <3> QED
      BY <1>1, <2>3, <3>1 DEF Mirrors
  <2> QED
    BY <1>1, <2>1, <2>2, <2>3 DEF TypeOK, Pending
<1>5. Agree(items'[s], doc', Keys \ (changed'[s] \cup deleted'[s]))
  BY <1>3, <1>4 DEF Agree
<1> QED
  BY <1>2, <1>5 DEF Mirrors, Agree

\* Every step of the only session keeps its view in step with the store.
LEMMA MirrorStep ==
    ASSUME ~EditsReplacement, ~InheritedMutators, MirrorInv, [Next]_vars
    PROVE  MirrorInv'
<1>1. RecordedInv /\ RecordedInv' /\ TypeOK /\ app' = app
  BY RecordedStep, AppStays DEF MirrorInv, RecordedInv
<1> SUFFICES ASSUME NEW s \in Sessions, app.sessions = {s}
             PROVE  Mirrors(s)'
  BY <1>1 DEF MirrorInv
<1>2. Mirrors(s) /\ Recorded(s)
  BY <1>1 DEF MirrorInv, RecordedInv
<1>3. CASE UNCHANGED vars
  BY <1>2, <1>3 DEF Mirrors, Agree, vars, tracker
<1>4. CASE SessionNext(s)
  <2>1. CASE Load(s)
    <3>1. pending'[s] = "clean" /\ items'[s] = doc /\ doc' = doc
      BY <1>1, <1>2, <2>1 DEF Load, Wrapped, Recorded, TypeOK
    <3> QED
      BY <3>1 DEF Mirrors, Agree
  <2>2. ASSUME NEW k \in Keys, NEW c \in Values \cup {Null}, SetItem(s, k, c)
        PROVE  Mirrors(s)'
    <3>1. changed'[s] \cup deleted'[s] = changed[s] \cup deleted[s] \cup {k}
      BY <1>1, <2>2 DEF SetItem, TypeOK
    <3> QED
      BY <1>1, <1>2, <2>2, <3>1, EditMirrors DEF SetItem
  <2>3. ASSUME NEW k \in Keys, DelItem(s, k)
        PROVE  Mirrors(s)'
    <3>1. changed'[s] \cup deleted'[s] = changed[s] \cup deleted[s] \cup {k}
      BY <1>1, <2>3 DEF DelItem, TypeOK
    <3> QED
      BY <1>1, <1>2, <2>3, <3>1, EditMirrors DEF DelItem
  <2>4. ASSUME NEW k \in Keys, NEW c \in Contents, Mutate(s, k, c)
        PROVE  FALSE
    BY <2>4 DEF Mutate
  <2>5. ASSUME NEW d \in Documents, Replace(s, d)
        PROVE  Mirrors(s)'
    <3>1. doc' = doc /\ changed'[s] \cup deleted'[s] = {}
      BY <1>1, <2>5 DEF Replace, Wrapped, TypeOK
    <3>2. CASE loaded[s] /\ pending[s] # "flagged"
      <4>1. /\ pending'[s] = "replaced"
            /\ committed'[s] = IF pending[s] = "clean" THEN items[s] ELSE committed[s]
        BY <1>1, <2>5, <3>2 DEF Replace, TypeOK
      <4>2. Agree(committed'[s], doc, Keys)
        BY <1>1, <1>2, <3>2, <4>1 DEF Mirrors, TypeOK, Pending
      <4> QED
        BY <3>1, <4>1, <4>2 DEF Mirrors, Agree
    <3>3. CASE ~(loaded[s] /\ pending[s] # "flagged")
      <4>1. pending'[s] = "flagged"
        BY <1>1, <2>5, <3>3 DEF Replace, TypeOK
      <4> QED
        BY <3>1, <4>1 DEF Mirrors
    <3> QED
      BY <3>2, <3>3
  <2>6. ASSUME loaded[s], doc' = AfterUpdate(s), Settle(s), UNCHANGED <<loaded, tracker>>
        PROVE  Mirrors(s)'
    <3>1. Agree(items[s], AfterUpdate(s), Keys)
      BY <1>1, <1>2, <2>6, FlushMirrors
    <3>2. pending'[s] = "clean" /\ items'[s] = items[s]
      BY <1>1, <2>6 DEF Settle, tracker, TypeOK
    <3> QED
      BY <2>6, <3>1, <3>2 DEF Mirrors, Agree
  <2>7. CASE Expire(s)
    BY <1>1, <2>7 DEF Expire, Mirrors, TypeOK
  <2>8. CASE Flush(s)
    BY <1>2, <2>6, <2>8 DEF Flush, Recorded
  <2>9. CASE Commit(s)
    BY <2>6, <2>7, <2>9 DEF Commit
  <2>10. CASE FlushFails(s) \/ Rollback(s)
    BY <2>7, <2>10 DEF FlushFails, Rollback
  <2> QED
    BY <1>4, <2>1, <2>2, <2>3, <2>4, <2>5, <2>8, <2>9, <2>10 DEF SessionNext
<1> QED
  BY <1>3, <1>4 DEF Next

\* A session alone with the row, that edits by item assignment and deletion, or assigns
\* whole documents and flushes those before it edits them, sees in its unmodified
\* MutableDict what is stored: after any flushes, failed flushes, rollbacks, with marks
\* left over from flushes, and with keys that are false to Python.
THEOREM ViewIsTheStore == Spec => []ViewIsStored
<1> DEFINE Marking == ~EditsReplacement /\ ~InheritedMutators
           Inv     == Marking => MirrorInv
<1>1. Init => Inv
  BY NoDocumentType DEF Init, MirrorInv, Mirrors, RecordedInv, TypeOK, Pending, Recorded, IsDirty
<1>2. Inv /\ [Next]_vars => Inv'
  <2> SUFFICES ASSUME Inv, [Next]_vars, Marking'
               PROVE  MirrorInv'
    OBVIOUS
  <2>1. Marking
    BY AppStays DEF EditsReplacement, InheritedMutators
  <2> QED
    BY <2>1, MirrorStep
<1>3. Inv => ViewIsStored
  BY DEF ViewIsStored, MirrorInv, Mirrors, Agree
<1> HIDE DEF Inv
<1> QED
  BY <1>1, <1>2, <1>3, PTL DEF Spec

-----------------------------------------------------------------------------
(* No edit of others is overwritten.                                       *)

\* What a session would write is not more than what it edited.
Exact(s) ==
    /\ pending[s] # "clean" => loaded[s]
    /\ changed[s] \cup deleted[s] \subseteq edited[s] \cap app.keys
    /\ pending[s] = "replaced" => changed[s] \cup deleted[s] = {}
    /\ IsDirty(s) /\ changed[s] \cup deleted[s] = {} => edited[s] = Keys

ExactInv == TypeOK /\ \A s \in Sessions : Exact(s)

\* A session that drops its attribute has no mark left.
LEMMA ExpireExact ==
    ASSUME TypeOK, NEW s \in Sessions, Expire(s), app' = app,
           \A t \in Sessions : Exact(t)
    PROVE  \A t \in Sessions : Exact(t)'
BY DEF TypeOK, Expire, Wrapped, Settle, Exact, IsDirty

\* Every step keeps the marks within the edited keys, when each flush ends with expiry.
LEMMA ExactStep ==
    ASSUME ExpireOnCommit, ~FlushesEarly, ExactInv, [Next]_vars
    PROVE  ExactInv'
<1>a. app' = app
  BY AppStays
<1> USE <1>a
<1>1. TypeOK /\ TypeOK'
  BY TypeStep DEF ExactInv
<1>2. CASE UNCHANGED vars
  BY <1>1, <1>2 DEF ExactInv, Exact, IsDirty, vars, tracker
<1>3. ASSUME NEW s \in Sessions, SessionNext(s)
      PROVE  \A t \in Sessions : Exact(t)'
  <2>0. \A t \in Sessions : Exact(t)
    BY DEF ExactInv
  <2>1. CASE Load(s)
    <3> SUFFICES ASSUME NEW t \in Sessions
                 PROVE  Exact(t)'
      OBVIOUS
    <3>1. CASE t = s
      BY <1>1, <2>0, <2>1, <3>1 DEF TypeOK, Load, Wrapped, Exact, IsDirty
    <3>2. CASE t # s
      BY <1>1, <2>0, <2>1, <3>2 DEF TypeOK, Load, Wrapped, Exact, IsDirty
    <3> QED
      BY <3>1, <3>2
  <2>2. ASSUME NEW k \in Keys, NEW c \in Values \cup {Null}, SetItem(s, k, c)
        PROVE  \A t \in Sessions : Exact(t)'
    BY <1>1, <2>0, <2>2 DEF TypeOK, SetItem, MayEdit, MarkModified, Exact, IsDirty
  <2>3. ASSUME NEW k \in Keys, DelItem(s, k)
        PROVE  \A t \in Sessions : Exact(t)'
    BY <1>1, <2>0, <2>3 DEF TypeOK, DelItem, MayEdit, MarkModified, Exact, IsDirty
  <2>4. ASSUME NEW k \in Keys, NEW c \in Contents, Mutate(s, k, c)
        PROVE  \A t \in Sessions : Exact(t)'
    BY <1>1, <2>0, <2>4 DEF TypeOK, Mutate, Exact, IsDirty
  <2>5. ASSUME NEW d \in Documents, Replace(s, d)
        PROVE  \A t \in Sessions : Exact(t)'
    BY <1>1, <2>0, <2>5 DEF TypeOK, Replace, Wrapped, Exact, IsDirty
  <2>6. ~Flush(s)
    BY DEF Flush
  <2>7. CASE Commit(s)
    BY <1>1, <2>0, <2>7, ExpireExact DEF Commit
  <2>8. CASE FlushFails(s)
    BY <1>1, <2>0, <2>8, ExpireExact DEF FlushFails
  <2>9. CASE Rollback(s)
    BY <1>1, <2>0, <2>9, ExpireExact DEF Rollback
  <2> QED
    BY <1>3, <2>1, <2>2, <2>3, <2>4, <2>5, <2>6, <2>7, <2>8, <2>9 DEF SessionNext
<1> QED
  BY <1>1, <1>2, <1>3, AppType DEF Next, ExactInv

\* Marks within the edited keys make rewrite_update write edited keys only.
LEMMA ExactSuffices ==
    ASSUME app.keys \cap FalsyKeys = {}, ExactInv
    PROVE  OnlyEditsReachStore
<1> SUFFICES ASSUME NEW s \in Sessions, NEW k \in Keys \ edited[s]
             PROVE  AfterUpdate(s)[k] = doc[k]
  BY DEF OnlyEditsReachStore
<1>1. TypeOK /\ Exact(s)
  BY DEF ExactInv
<1>2. CASE ~IsDirty(s)
  BY <1>2 DEF AfterUpdate
<1>3. CASE IsDirty(s)
  <2>1. IsRewritten(changed[s], deleted[s])
    BY <1>1, <1>3 DEF Exact, IsRewritten, AnyOf
  <2>2. k \notin AssignedKeys(items[s], changed[s], deleted[s])
    BY <1>1 DEF Exact, AssignedKeys
  <2> QED
    BY <1>3, <2>1, <2>2 DEF AfterUpdate, Updated, WrittenKeys
<1> QED
  BY <1>2, <1>3

\* If no key is false to Python and every flush ends the transaction, with the session
\* expired, then no session overwrites a key it did not edit, however it edits.
THEOREM OthersAreNotOverwritten == Spec => []OthersAreLeftAlone
<1> DEFINE Expiring == ExpireOnCommit /\ ~FlushesEarly
           Inv      == Expiring => ExactInv
<1>1. Init => Inv
  BY NoDocumentType DEF Init, ExactInv, TypeOK, Pending, Exact, IsDirty
<1>2. Inv /\ [Next]_vars => Inv'
  <2> SUFFICES ASSUME Inv, [Next]_vars, Expiring'
               PROVE  ExactInv'
    OBVIOUS
  <2>1. Expiring
    BY AppStays DEF ExpireOnCommit, FlushesEarly
  <2> QED
    BY <2>1, ExactStep
<1>3. Inv => OthersAreLeftAlone
  BY ExactSuffices DEF OthersAreLeftAlone
<1> HIDE DEF Inv
<1> QED
  BY <1>1, <1>2, <1>3, PTL DEF Spec

-----------------------------------------------------------------------------
(* The promise of partial updates is kept.                                 *)

BothInv == RecordedInv /\ ExactInv

\* What a flush would write is what the application edited, neither more nor less.
LEMMA DirtyIsEdited ==
    ASSUME app.keys \cap FalsyKeys = {}, BothInv, NEW s \in Sessions
    PROVE  DirtyKeys(s) = edited[s]
<1>1. TypeOK /\ Recorded(s) /\ Exact(s)
  BY DEF BothInv, RecordedInv, ExactInv
<1>2. CASE ~IsDirty(s)
  BY <1>1, <1>2 DEF DirtyKeys, Recorded
<1>3. CASE IsDirty(s) /\ changed[s] \cup deleted[s] = {}
  BY <1>1, <1>3 DEF DirtyKeys, Exact, WrittenKeys, IsRewritten, AnyOf
<1>4. CASE IsDirty(s) /\ changed[s] \cup deleted[s] # {}
  <2>1. edited[s] = changed[s] \cup deleted[s]
    BY <1>1, <1>4 DEF Recorded, Exact
  <2>2. AssignedKeys(items[s], changed[s], deleted[s]) = changed[s] \cup deleted[s]
    BY <1>1 DEF Recorded, AssignedKeys
  <2> QED
    BY <1>1, <1>4, <2>1, <2>2 DEF Exact, DirtyKeys, WrittenKeys, IsRewritten, AnyOf
<1> QED
  BY <1>2, <1>3, <1>4

\* In every session what a flush would write is what was edited.
LEMMA DirtyIsEditedEverywhere ==
    ASSUME app.keys \cap FalsyKeys = {}
    PROVE  BothInv => [s \in Sessions |-> DirtyKeys(s)] = edited
<1> SUFFICES ASSUME BothInv
             PROVE  [s \in Sessions |-> DirtyKeys(s)] = edited
  OBVIOUS
<1>1. edited = [s \in Sessions |-> edited[s]]
  BY DEF BothInv, RecordedInv, TypeOK
<1> QED
  BY <1>1, DirtyIsEdited

\* The stored document after an UPDATE, as a reader sees it.
LEMMA AfterUpdateShown ==
    ASSUME app.keys \cap FalsyKeys = {}, BothInv, NEW s \in Sessions
    PROVE  ShownDocument(AfterUpdate(s)) =
             [k \in Keys |-> IF k \in edited[s] THEN ShownDocument(items[s])[k]
                                               ELSE ShownDocument(doc)[k]]
<1>1. EditsReachStore /\ OnlyEditsReachStore
  BY RecordedSuffices, ExactSuffices DEF BothInv
<1> QED
  BY <1>1 DEF EditsReachStore, OnlyEditsReachStore, ShownDocument

\* A document as a reader sees it is a document of the promise.
LEMMA ShownType ==
    ASSUME NEW d \in Documents
    PROVE  ShownDocument(d) \in [Keys -> Values \cup {Null}]
BY DEF ShownDocument, Shown, Documents, Contents

\* The empty MutableDict is the empty view.
LEMMA ShownNothing == ShownDocument(NoDocument) = Promise!Nothing
BY DEF ShownDocument, Shown, NoDocument, Promise!Nothing

\* One session's items change: one session's view changes.
LEMMA ViewsExcept ==
    ASSUME TypeOK, NEW s \in Sessions, NEW d, items' = [items EXCEPT ![s] = d]
    PROVE  Views' = [Views EXCEPT ![s] = ShownDocument(d)]
<1>1. \A t \in Sessions : items'[t] = IF t = s THEN d ELSE items[t]
  BY DEF TypeOK
<1>2. Views' = [t \in Sessions |-> ShownDocument(items'[t])]
  BY DEF Views, ShownDocument, Shown
<1>3. \A t \in Sessions : ShownDocument(items'[t]) =
                           IF t = s THEN ShownDocument(d) ELSE ShownDocument(items[t])
  BY <1>1
<1> QED
  BY <1>2, <1>3 DEF Views

\* To drop the attribute is to forget the view.
LEMMA ExpireIsForget ==
    ASSUME TypeOK, NEW s \in Sessions, Expire(s)
    PROVE  /\ Views' = [Views EXCEPT ![s] = Promise!Nothing]
           /\ edited' = [edited EXCEPT ![s] = {}]
BY ViewsExcept, ShownNothing DEF Expire, Wrapped, Settle

\* Every step of a session is a step of the promise, or changes nothing it speaks of.
LEMMA PromiseStep ==
    ASSUME Disciplined, BothInv, [Next]_vars,
           [s \in Sessions |-> DirtyKeys(s)] = edited,
           [s \in Sessions |-> DirtyKeys(s)]' = edited'
    PROVE  [Promise!Next]_(Promise!vars)
<1> USE DEF Disciplined
<1>0. /\ TypeOK
      /\ [s \in Sessions |-> DirtyKeys(s)] = edited
      /\ [s \in Sessions |-> DirtyKeys(s)]' = edited'
  BY DEF BothInv, RecordedInv
<1>1. CASE UNCHANGED vars
  BY <1>0, <1>1 DEF vars, tracker, Promise!vars, Views, ShownDocument
<1>2. ASSUME NEW s \in Sessions, SessionNext(s)
      PROVE  Promise!SessionNext(s)
  <2>1. CASE Load(s)
    <3>1. edited[s] = {}
      BY <2>1 DEF Load, BothInv, RecordedInv, Recorded, IsDirty
    <3>2. Views' = [Views EXCEPT ![s] = ShownDocument(doc)]
      BY <1>0, <2>1, ViewsExcept DEF Load, Wrapped
    <3>3. Promise!Fetch(s)
      BY <1>0, <2>1, <3>1, <3>2 DEF Load, Promise!Fetch, ShownDocument
    <3> QED
      BY <3>3 DEF Promise!SessionNext
  <2>2. ASSUME NEW k \in Keys, NEW c \in Values \cup {Null}, SetItem(s, k, c)
        PROVE  Promise!SessionNext(s)
    <3>1. items' = [items EXCEPT ![s] = [items[s] EXCEPT ![k] = c]]
      BY <2>2 DEF SetItem
    <3>2. ShownDocument([items[s] EXCEPT ![k] = c]) = [Views[s] EXCEPT ![k] = c]
      BY <1>0, ContentsAssumption DEF TypeOK, Documents, Views, ShownDocument, Shown
    <3>3. Views' = [Views EXCEPT ![s][k] = c]
      BY <1>0, <3>1, <3>2, ViewsExcept
    <3>4. Promise!Edit(s, k, c)
      BY <1>0, <2>2, <3>3 DEF SetItem, Promise!Edit, ShownDocument
    <3> QED
      BY <3>4 DEF Promise!SessionNext
  <2>3. ASSUME NEW k \in Keys, DelItem(s, k)
        PROVE  Promise!SessionNext(s)
    <3>1. items' = [items EXCEPT ![s] = [items[s] EXCEPT ![k] = Absent]]
      BY <2>3 DEF DelItem
    <3>2. ShownDocument([items[s] EXCEPT ![k] = Absent]) = [Views[s] EXCEPT ![k] = Null]
      BY <1>0 DEF TypeOK, Documents, Views, ShownDocument, Shown
    <3>3. Views' = [Views EXCEPT ![s][k] = Null]
      BY <1>0, <3>1, <3>2, ViewsExcept
    <3>4. Promise!Edit(s, k, Null)
      BY <1>0, <2>3, <3>3 DEF DelItem, Promise!Edit, ShownDocument
    <3> QED
      BY <3>4 DEF Promise!SessionNext
  <2>4. ASSUME NEW k \in Keys, NEW c \in Contents, Mutate(s, k, c)
        PROVE  FALSE
    BY <2>4 DEF Mutate
  <2>5. ASSUME NEW d \in Documents, Replace(s, d)
        PROVE  Promise!SessionNext(s)
    <3>1. Views' = [Views EXCEPT ![s] = ShownDocument(d)]
      BY <1>0, <2>5, ViewsExcept DEF Replace, Wrapped
    <3>2. \E keys \in {{}, Keys} : edited' = [edited EXCEPT ![s] = keys]
      BY <2>5 DEF Replace
    <3>3. Promise!Overwrite(s, ShownDocument(d))
      BY <1>0, <2>5, <3>1, <3>2 DEF Replace, Promise!Overwrite, ShownDocument
    <3> QED
      BY <3>3, ShownType DEF Promise!SessionNext
  <2>6. ~Flush(s)
    BY DEF Flush
  <2>7. ASSUME Expire(s), doc' = AfterUpdate(s)
        PROVE  Promise!SessionNext(s)
    <3>1. ShownDocument(doc)' = [k \in Keys |-> IF k \in edited[s] THEN Views[s][k]
                                                ELSE ShownDocument(doc)[k]]
      BY <2>7, AfterUpdateShown DEF Views, ShownDocument
    <3>2. Promise!Publish(s)
      BY <1>0, <2>7, <3>1, ExpireIsForget DEF Promise!Publish
    <3> QED
      BY <3>2 DEF Promise!SessionNext
  <2>8. ASSUME Expire(s), doc' = doc
        PROVE  Promise!SessionNext(s)
    <3>1. ShownDocument(doc)' = ShownDocument(doc)
      BY <2>8 DEF ShownDocument
    <3>2. Promise!Forget(s)
      BY <1>0, <2>8, <3>1, ExpireIsForget DEF Promise!Forget
    <3> QED
      BY <3>2 DEF Promise!SessionNext
  <2>9. CASE Commit(s)
    BY <2>7, <2>9 DEF Commit
  <2>10. CASE FlushFails(s)
    BY <2>7, <2>8, <2>10 DEF FlushFails
  <2>11. CASE Rollback(s)
    BY <2>8, <2>11 DEF Rollback
  <2> QED
    BY <1>2, <2>1, <2>2, <2>3, <2>4, <2>5, <2>6, <2>9, <2>10, <2>11 DEF SessionNext
<1> QED
  BY <1>0, <1>1, <1>2, AppType DEF Next, Promise!Next

\* Sessions that edit by item assignment and deletion, or assign whole documents, and
\* commit each flush with expiry, publish exactly what they edited: MutableDict's marks
\* and rewrite_update implement the promise of partial updates.
THEOREM PromiseIsKept == Spec => ImplementsPartialUpdate
<1> DEFINE Inv == Disciplined => BothInv
<1>1. Init => Inv
  BY NoDocumentType DEF Init, BothInv, RecordedInv, ExactInv, TypeOK, Pending,
                        Recorded, Exact, IsDirty
<1>2. Inv /\ [Next]_vars => Inv'
  <2> SUFFICES ASSUME Inv, [Next]_vars, Disciplined'
               PROVE  BothInv'
    OBVIOUS
  <2>1. Disciplined
    BY AppStays
    DEF Disciplined, ExpireOnCommit, FlushesEarly, EditsReplacement, InheritedMutators
  <2> QED
    BY <2>1, RecordedStep, ExactStep DEF BothInv, RecordedInv, Disciplined
<1>3. Init => (Disciplined => Promise!Init)
  <2> SUFFICES ASSUME Init
               PROVE  Promise!Init
    OBVIOUS
  <2>1. [s \in Sessions |-> DirtyKeys(s)] = [s \in Sessions |-> {}]
    BY DEF Init, DirtyKeys, IsDirty
  <2>2. Views = [s \in Sessions |-> Promise!Nothing]
    BY ShownNothing DEF Init, Views
  <2> QED
    BY <2>1, <2>2, ShownType DEF Init, Promise!Init
<1> DEFINE DirtyInv == Disciplined => [s \in Sessions |-> DirtyKeys(s)] = edited
<1>4. Inv => DirtyInv
  BY DirtyIsEditedEverywhere DEF Disciplined
<1>5. Inv /\ DirtyInv /\ DirtyInv' /\ [Next]_vars
        => [Disciplined => [Promise!Next]_(Promise!vars)]_vars
  <2> SUFFICES ASSUME Inv, DirtyInv, DirtyInv', [Next]_vars, Disciplined
               PROVE  [Promise!Next]_(Promise!vars)
    OBVIOUS
  <2>1. Disciplined'
    BY AppStays
    DEF Disciplined, ExpireOnCommit, FlushesEarly, EditsReplacement, InheritedMutators
  <2> QED
    BY <2>1, PromiseStep
<1> HIDE DEF Inv, DirtyInv
<1> QED
  BY <1>1, <1>2, <1>3, <1>4, <1>5, PTL DEF Spec, ImplementsPartialUpdate
=============================================================================
