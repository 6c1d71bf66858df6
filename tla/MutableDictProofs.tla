------------------------- MODULE MutableDictProofs -------------------------
(***************************************************************************)
(* Theorems about MutableDict, for any heap, keys, values and rows.        *)
(***************************************************************************)
EXTENDS MutableDict, TLAPS

\* The application never changes: a condition on it holds for ever or never.
LEMMA AppStays == [Next]_vars => app' = app
BY DEF Next, vars

\* The dictionary without keys is a dictionary.
LEMMA NoDocumentType == NoDocument \in Node
BY DEF NoDocument, Node, Contents

\* A plain dictionary's objects: they are new, and only the top one may be a root.
LEMMA ConvertsFacts ==
    ASSUME TypeOK, NEW N, NEW n, NEW f, NEW g, NEW top, Converts(N, n, f, g, top)
    PROVE  /\ n \in N /\ N \subseteq Obj /\ N \cap live = {}
           /\ f \in [N -> Node]
           /\ g \in [N -> Keys \cup {NoKey}] /\ g[n] = top
           /\ \A m \in N \ {n} : g[m] \in Keys
<1>1. n \in N /\ N \subseteq Obj /\ N \cap live = {}
  BY DEF Converts
<1>2. f \in [N -> Node]
  <2>1. N \subseteq Obj /\ live \subseteq Obj
    BY <1>1 DEF TypeOK
  <2>2. (Contents \cup N \cup (IF Aliasing THEN live ELSE {})) \subseteq Contents \cup Obj
    BY <2>1
  <2>3. f \in [N -> [Keys -> Contents \cup N \cup (IF Aliasing THEN live ELSE {})]]
    BY DEF Converts
  <2>4. \A p \in N : f[p] \in Node
    BY <2>2, <2>3 DEF Node
  <2> QED
    BY <2>3, <2>4
<1>3. g \in [N -> Keys \cup {NoKey}] /\ g[n] = top
  BY DEF Converts
<1>4. ASSUME NEW m \in N \ {n}
      PROVE  g[m] \in Keys
  <2>1. PICK p \in N, k \in Keys : f[p][k] = m
    BY DEF Converts
  <2>2. g[m] = IF g[p] = NoKey THEN k ELSE g[p]
    BY <2>1 DEF Converts
  <2> QED
    BY <1>3, <2>1, <2>2
<1> QED
  BY <1>1, <1>2, <1>3, <1>4

\* Mutable.changed() leaves a flag for every row.
LEMMA FlagType ==
    ASSUME NEW o, Flag(o)
    PROVE  modified' \in [Rows -> BOOLEAN]
BY DEF Flag

\* Every step keeps the types.
LEMMA TypeStep ==
    ASSUME TypeOK, [Next]_vars
    PROVE  TypeOK'
<1>a. app' = app
  BY AppStays
<1> USE <1>a DEF TypeOK
<1>1. CASE UNCHANGED vars
  BY <1>1 DEF vars, heap
<1>2. ASSUME NEW o \in live, NEW k \in Keys, NEW c \in Values \cup {Null} \cup live,
             SetItem(o, k, c)
      PROVE  TypeOK'
  <2>1. c \in Contents \cup Obj /\ o \in Obj /\ root[o] \in Obj /\ OwnKey(o, k) \in Keys
    BY DEF Contents, OwnKey
  <2>2. items' \in [Obj -> Node]
    BY <1>2, <2>1 DEF SetItem, Node
  <2>3. changed' \in [Obj -> SUBSET Keys] /\ deleted' \in [Obj -> SUBSET Keys]
    BY <1>2, <2>1 DEF SetItem, OnKeyChanged
  <2>4. modified' \in [Rows -> BOOLEAN]
    BY <1>2 DEF SetItem, OnKeyChanged, Flag
  <2>5. stale' \in [Rows -> SUBSET Keys]
    BY <1>2 DEF SetItem, Outdate, Outdated, KeysAbove
  <2> QED
    BY <1>2, <2>2, <2>3, <2>4, <2>5 DEF SetItem
<1>3. ASSUME NEW o \in live, NEW k \in Keys, DelItem(o, k)
      PROVE  TypeOK'
  <2>1. o \in Obj /\ root[o] \in Obj
    OBVIOUS
  <2>2. items' \in [Obj -> Node]
    BY <1>3, <2>1 DEF DelItem, Node, Contents
  <2>3. changed' \in [Obj -> SUBSET Keys] /\ deleted' \in [Obj -> SUBSET Keys]
    <3>1. CASE okey[o] = NoKey
      BY <1>3, <2>1, <3>1 DEF DelItem
    <3>2. CASE okey[o] # NoKey
      BY <1>3, <2>1, <3>2 DEF DelItem, OnKeyChanged
    <3> QED
      BY <3>1, <3>2
  <2>4. modified' \in [Rows -> BOOLEAN]
    <3>1. \E p \in Obj : Flag(p)
      BY <1>3, <2>1 DEF DelItem, OnKeyChanged
    <3> QED
      BY <3>1, FlagType
  <2>5. stale' \in [Rows -> SUBSET Keys]
    BY <1>3 DEF DelItem, Outdate, Outdated, KeysAbove
  <2> QED
    BY <1>3, <2>2, <2>3, <2>4, <2>5 DEF DelItem
<1>4. ASSUME NEW N \in NewObjects, NEW n \in N, NEW f \in NewItems(N),
             NEW g \in [N -> Keys \cup {NoKey}],
             NEW o \in live, NEW k \in Keys, SetDict(o, k, N, n, f, g)
      PROVE  TypeOK'
  <2>1. o \in Obj /\ root[o] \in Obj /\ OwnKey(o, k) \in Keys
    BY DEF OwnKey
  <2>2. N \subseteq Obj /\ n \in Obj /\ f \in [N -> Node]
    BY <1>4, ConvertsFacts DEF SetDict
  <2>3. items' \in [Obj -> Node]
    BY <1>4, <2>1, <2>2 DEF SetDict, Node
  <2>4. changed' \in [Obj -> SUBSET Keys] /\ deleted' \in [Obj -> SUBSET Keys]
    BY <1>4, <2>1 DEF SetDict, OnKeyChanged
  <2>5. modified' \in [Rows -> BOOLEAN]
    BY <1>4 DEF SetDict, OnKeyChanged, Flag
  <2>6. stale' \in [Rows -> SUBSET Keys]
    BY <1>4 DEF SetDict, Outdate, Outdated, KeysAbove
  <2>7. live' \subseteq Obj /\ root' \in [Obj -> Obj] /\ okey' \in [Obj -> Keys \cup {NoKey}]
    BY <1>4, <2>1, <2>2 DEF SetDict, Make
  <2> QED
    BY <1>4, <2>3, <2>4, <2>5, <2>6, <2>7 DEF SetDict
<1>5. ASSUME NEW N \in NewObjects, NEW n \in N, NEW f \in NewItems(N),
             NEW g \in [N -> Keys \cup {NoKey}],
             NEW r \in Rows, Load(r, N, n, f, g) \/ Replace(r, N, n, f, g)
      PROVE  TypeOK'
  <2>1. Wrap(r, N, n, f, g) /\ Adopt(r, n)
    BY <1>5 DEF Load, Replace
  <2>2. N \subseteq Obj /\ n \in Obj /\ f \in [N -> Node]
    BY <2>1, ConvertsFacts DEF Wrap
  <2>3. live' \subseteq Obj /\ root' \in [Obj -> Obj] /\ okey' \in [Obj -> Keys \cup {NoKey}]
    BY <2>1, <2>2 DEF Wrap, Make
  <2>4. items' \in [Obj -> Node]
    BY <2>1, <2>2 DEF Wrap
  <2>5. attr' \in [Rows -> Obj \cup {NoObj}] /\ parents' \in [Obj -> SUBSET Rows]
    BY <2>1, <2>2 DEF Wrap, Adopt
  <2>6. modified' \in [Rows -> BOOLEAN] /\ stale' \in [Rows -> SUBSET Keys]
    BY <1>5 DEF Load, Replace
  <2> QED
    BY <2>1, <2>3, <2>4, <2>5, <2>6 DEF Wrap
<1>6. ASSUME NEW r \in Rows, NEW o \in live, Share(r, o)
      PROVE  TypeOK'
  BY <1>6 DEF Share, Adopt
<1>7. ASSUME NEW r \in Rows, Flush(r)
      PROVE  TypeOK'
  BY <1>7 DEF Flush, Settle, heap
<1>8. ASSUME NEW r \in Rows, Expire(r)
      PROVE  TypeOK'
  BY <1>8 DEF Expire, Settle, heap
<1>9. ASSUME NEW G \in SUBSET live, Collect(G)
      PROVE  TypeOK'
  BY <1>9, NoDocumentType DEF Collect
<1>10. ASSUME NEW o \in live, NEW k \in Keys, NEW c \in Contents \cup live, Mutate(o, k, c)
       PROVE  TypeOK'
  <2>1. c \in Contents \cup Obj /\ o \in Obj
    OBVIOUS
  <2>2. items' \in [Obj -> Node]
    BY <1>10, <2>1 DEF Mutate, Node
  <2>3. stale' \in [Rows -> SUBSET Keys]
    BY <1>10 DEF Mutate, Outdate, Outdated, KeysAbove
  <2> QED
    BY <1>10, <2>2, <2>3 DEF Mutate
<1> QED
  BY <1>1, <1>2, <1>3, <1>4, <1>5, <1>6, <1>7, <1>8, <1>9, <1>10 DEF Next, Step

\* Every variable keeps its type, whatever the application does with its objects.
THEOREM TypeCorrect == Spec => []TypeOK
<1>1. Init => TypeOK
  BY NoDocumentType DEF Init, TypeOK
<1>2. TypeOK /\ [Next]_vars => TypeOK'
  BY TypeStep
<1> QED
  BY <1>1, <1>2, PTL DEF Spec

-----------------------------------------------------------------------------
(* Marks are kept on roots only.                                           *)

Rooted(o) ==
    /\ root[o] \in live
    /\ root[root[o]] = root[o]
    /\ okey[root[o]] = NoKey
    /\ okey[o] = NoKey => root[o] = o
    /\ ~Unmarked(o) => root[o] = o
    /\ ~InheritedMutators => \A k \in deleted[o] : items[o][k] = Absent

RootsInv ==
    /\ TypeOK
    /\ \A o \in live : Rooted(o)
    /\ \A o \in Obj \ live : Unmarked(o)

\* New objects: their root is one already, or the only one among them.
LEMMA MakeRooted ==
    ASSUME RootsInv, NEW N, NEW n, NEW f, NEW g, NEW top, NEW to,
           Converts(N, n, f, g, top), Make(N, f, g, to),
           \/ top = NoKey /\ to = n
           \/ top # NoKey /\ to \in live /\ root[to] = to /\ okey[to] = NoKey
    PROVE  /\ \A o \in live' : root'[o] \in live' /\ root'[root'[o]] = root'[o]
           /\ \A o \in live' : okey'[root'[o]] = NoKey
           /\ \A o \in live' : okey'[o] = NoKey => root'[o] = o
           /\ \A o \in live : root'[o] = root[o] /\ okey'[o] = okey[o]
           /\ live' = live \cup N
<1>1. TypeOK /\ \A o \in live : Rooted(o)
  BY DEF RootsInv
<1>2. /\ n \in N /\ N \subseteq Obj /\ N \cap live = {}
      /\ g[n] = top /\ \A m \in N \ {n} : g[m] \in Keys
  BY <1>1, ConvertsFacts
<1>3. /\ live' = live \cup N
      /\ \A o \in N : root'[o] = to /\ okey'[o] = g[o]
      /\ \A o \in live : root'[o] = root[o] /\ okey'[o] = okey[o]
  BY <1>1, <1>2 DEF Make, TypeOK
<1>4. to \in live' /\ root'[to] = to /\ okey'[to] = NoKey
  BY <1>2, <1>3
<1>5. \A o \in N : okey'[o] = NoKey => root'[o] = o
  BY <1>2, <1>3, IdentitiesAssumption
<1>6. \A o \in live :
          /\ root[o] \in live /\ root[root[o]] = root[o]
          /\ okey[root[o]] = NoKey
          /\ okey[o] = NoKey => root[o] = o
  BY <1>1 DEF Rooted
<1>7. ASSUME NEW o \in live'
      PROVE  /\ root'[o] \in live' /\ root'[root'[o]] = root'[o]
             /\ okey'[root'[o]] = NoKey
             /\ okey'[o] = NoKey => root'[o] = o
  <2>1. CASE o \in N
    BY <1>3, <1>4, <1>5, <2>1
  <2>2. CASE o \in live
    BY <1>3, <1>6, <2>2
  <2> QED
    BY <1>3, <2>1, <2>2
<1> QED
  BY <1>3, <1>7

\* An item is set and its key marked.
LEMMA SetRooted ==
    ASSUME RootsInv, NEW o \in live, NEW k \in Keys, NEW c,
           OnKeyChanged(root[o], OwnKey(o, k)),
           \A p \in live, j \in Keys :
               items'[p][j] = IF p = o /\ j = k THEN c ELSE items[p][j]
    PROVE  /\ \A p \in live : changed'[p] \cup deleted'[p] # {} => root[p] = p
           /\ ~InheritedMutators => \A p \in live : \A j \in deleted'[p] : items'[p][j] = Absent
           /\ \A p \in Obj \ live : changed'[p] \cup deleted'[p] = {}
<1>1. TypeOK /\ \A p \in live : Rooted(p)
  BY DEF RootsInv
<1>2. \A p \in Obj \ live : Unmarked(p)
  BY DEF RootsInv
<1> DEFINE R == root[o]
           K == OwnKey(o, k)
<1>3. R \in live /\ root[R] = R /\ okey[R] = NoKey /\ R \in Obj
  BY <1>1 DEF Rooted, TypeOK
<1>4. /\ deleted' = [deleted EXCEPT ![R] = deleted[R] \ {K}]
      /\ changed' = [changed EXCEPT ![R] = changed[R] \cup {K}]
  BY DEF OnKeyChanged
<1>5. \A p \in Obj : p # R => changed'[p] = changed[p] /\ deleted'[p] = deleted[p]
  BY <1>1, <1>4 DEF TypeOK
<1>6. deleted'[R] = deleted[R] \ {K}
  BY <1>1, <1>3, <1>4 DEF TypeOK
<1> HIDE DEF R, K
<1>7. \A p \in live : changed'[p] \cup deleted'[p] # {} => root[p] = p
  BY <1>1, <1>3, <1>5 DEF Rooted, Unmarked, TypeOK
<1>8. ASSUME ~InheritedMutators, NEW p \in live, NEW j \in deleted'[p]
      PROVE  items'[p][j] = Absent
  <2>1. j \in deleted[p] /\ j \in Keys /\ items[p][j] = Absent /\ p \in Obj
    BY <1>1, <1>5, <1>6, <1>8 DEF Rooted, TypeOK
  <2>2. ~(p = o /\ j = k)
    <3> SUFFICES ASSUME p = o, j = k
                 PROVE  FALSE
      OBVIOUS
    <3>1. o = R
      BY <1>1, <2>1 DEF Rooted, Unmarked, R
    <3>2. K = k
      BY <1>3, <3>1 DEF K, OwnKey
    <3> QED
      BY <1>6, <1>8, <3>1, <3>2
  <2> QED
    BY <2>1, <2>2
<1>9. \A p \in Obj \ live : changed'[p] \cup deleted'[p] = {}
  BY <1>2, <1>3, <1>5 DEF Unmarked
<1> QED
  BY <1>7, <1>8, <1>9

\* Every step, whatever the application does, keeps marks on roots and roots one step away.
LEMMA RootsStep ==
    ASSUME RootsInv, [Next]_vars
    PROVE  RootsInv'
<1>1. TypeOK /\ TypeOK' /\ InheritedMutators' = InheritedMutators
  BY TypeStep, AppStays DEF RootsInv, InheritedMutators
<1>2. (\A o \in live : Rooted(o)) /\ (\A o \in Obj \ live : Unmarked(o))
  BY DEF RootsInv
<1>3. CASE UNCHANGED <<live, items, root, okey, changed, deleted>>
  BY <1>1, <1>2, <1>3 DEF RootsInv, Rooted, Unmarked
<1>4. ASSUME NEW o \in live, NEW k \in Keys, NEW c \in Values \cup {Null} \cup live,
             SetItem(o, k, c)
      PROVE  RootsInv'
  <2>1. \A p \in live, j \in Keys :
            items'[p][j] = IF p = o /\ j = k THEN c ELSE items[p][j]
    BY <1>1, <1>4 DEF SetItem, TypeOK, Node
  <2>2. /\ \A p \in live : changed'[p] \cup deleted'[p] # {} => root[p] = p
        /\ ~InheritedMutators => \A p \in live : \A j \in deleted'[p] : items'[p][j] = Absent
        /\ \A p \in Obj \ live : changed'[p] \cup deleted'[p] = {}
    BY <1>4, <2>1, SetRooted DEF SetItem
  <2> QED
    BY <1>1, <1>2, <1>4, <2>2 DEF SetItem, RootsInv, Rooted, Unmarked
<1>5. ASSUME NEW o \in live, NEW k \in Keys, DelItem(o, k)
      PROVE  RootsInv'
  <2>1. \A p \in live, j \in Keys :
            items'[p][j] = IF p = o /\ j = k THEN Absent ELSE items[p][j]
    BY <1>1, <1>5 DEF DelItem, TypeOK, Node
  <2>2. /\ \A p \in live : changed'[p] \cup deleted'[p] # {} => root[p] = p
        /\ ~InheritedMutators => \A p \in live : \A j \in deleted'[p] : items'[p][j] = Absent
        /\ \A p \in Obj \ live : changed'[p] \cup deleted'[p] = {}
    <3>1. CASE okey[o] = NoKey
      <4>1. changed' = changed /\ deleted' = [deleted EXCEPT ![o] = @ \cup {k}]
        BY <1>5, <3>1 DEF DelItem
      <4>2. root[o] = o /\ o \in Obj
        BY <1>1, <1>2, <3>1 DEF Rooted, TypeOK
      <4>3. ~InheritedMutators => \A p \in live : \A j \in deleted'[p] : items'[p][j] = Absent
        BY <1>1, <1>2, <2>1, <4>1, <4>2 DEF Rooted, TypeOK
      <4> QED
        BY <1>1, <1>2, <4>1, <4>2, <4>3 DEF Rooted, Unmarked, TypeOK
    <3>2. CASE okey[o] # NoKey
      <4>1. OnKeyChanged(root[o], OwnKey(o, k))
        BY <1>5, <3>2 DEF DelItem, OwnKey
      <4> QED
        BY <2>1, <4>1, SetRooted
    <3> QED
      BY <3>1, <3>2
  <2> QED
    BY <1>1, <1>2, <1>5, <2>2 DEF DelItem, RootsInv, Rooted, Unmarked
<1>6. ASSUME NEW N \in NewObjects, NEW n \in N, NEW f \in NewItems(N),
             NEW g \in [N -> Keys \cup {NoKey}],
             NEW o \in live, NEW k \in Keys, SetDict(o, k, N, n, f, g)
      PROVE  RootsInv'
  <2>1. Converts(N, n, f, g, OwnKey(o, k)) /\ Make(N, f, g, root[o])
    BY <1>6 DEF SetDict
  <2>2. n \in N /\ N \subseteq Obj /\ N \cap live = {}
    BY <1>1, <2>1, ConvertsFacts
  <2>3. OwnKey(o, k) # NoKey
    BY IdentitiesAssumption DEF OwnKey
  <2>4. root[o] \in live /\ root[root[o]] = root[o] /\ okey[root[o]] = NoKey
    BY <1>2 DEF Rooted
  <2>5. /\ \A p \in live' : root'[p] \in live' /\ root'[root'[p]] = root'[p]
        /\ \A p \in live' : okey'[root'[p]] = NoKey
        /\ \A p \in live' : okey'[p] = NoKey => root'[p] = p
        /\ \A p \in live : root'[p] = root[p] /\ okey'[p] = okey[p]
        /\ live' = live \cup N
    BY <2>1, <2>3, <2>4, MakeRooted
  <2>6. \A p \in live, j \in Keys :
            items'[p][j] = IF p = o /\ j = k THEN n ELSE items[p][j]
    BY <1>1, <1>6, <2>2 DEF SetDict, TypeOK, Node
  <2>7. /\ \A p \in live : changed'[p] \cup deleted'[p] # {} => root[p] = p
        /\ ~InheritedMutators => \A p \in live : \A j \in deleted'[p] : items'[p][j] = Absent
        /\ \A p \in Obj \ live : changed'[p] \cup deleted'[p] = {}
    BY <1>6, <2>6, SetRooted DEF SetDict
  <2> QED
    BY <1>1, <2>2, <2>5, <2>7 DEF RootsInv, Rooted, Unmarked, TypeOK
<1>7. ASSUME NEW N \in NewObjects, NEW n \in N, NEW f \in NewItems(N),
             NEW g \in [N -> Keys \cup {NoKey}],
             NEW r \in Rows, Load(r, N, n, f, g) \/ Replace(r, N, n, f, g)
      PROVE  RootsInv'
  <2>1. Wrap(r, N, n, f, g)
    BY <1>7 DEF Load, Replace
  <2>2. N \subseteq Obj /\ N \cap live = {}
    BY <1>1, <2>1, ConvertsFacts DEF Wrap
  <2>3. /\ \A p \in live' : root'[p] \in live' /\ root'[root'[p]] = root'[p]
        /\ \A p \in live' : okey'[root'[p]] = NoKey
        /\ \A p \in live' : okey'[p] = NoKey => root'[p] = p
        /\ \A p \in live : root'[p] = root[p] /\ okey'[p] = okey[p]
        /\ live' = live \cup N
    BY <2>1, MakeRooted DEF Wrap
  <2>4. \A p \in live : items'[p] = items[p]
    BY <1>1, <2>1, <2>2 DEF Wrap, TypeOK
  <2> QED
    BY <1>1, <1>2, <2>1, <2>2, <2>3, <2>4 DEF Wrap, RootsInv, Rooted, Unmarked, TypeOK
<1>8. ASSUME NEW G \in SUBSET live, Collect(G)
      PROVE  RootsInv'
  <2>1. \A o \in live' : o \in live /\ o \notin G /\ o \in Obj /\ root[o] \in live'
    BY <1>1, <1>2, <1>8 DEF Collect, Rooted, TypeOK
  <2>2. \A o \in Obj : o \notin G =>
            /\ root'[o] = root[o] /\ okey'[o] = okey[o] /\ items'[o] = items[o]
            /\ changed'[o] = changed[o] /\ deleted'[o] = deleted[o]
    BY <1>8 DEF Collect
  <2>3. \A o \in live' : Rooted(o)'
    BY <1>1, <1>2, <2>1, <2>2 DEF Rooted, Unmarked, TypeOK
  <2>4. \A o \in Obj \ live' : Unmarked(o)'
    BY <1>1, <1>2, <1>8 DEF Collect, Unmarked
  <2> QED
    BY <1>1, <2>3, <2>4 DEF RootsInv
<1>9. ASSUME NEW o \in live, NEW k \in Keys, NEW c \in Contents \cup live, Mutate(o, k, c)
      PROVE  RootsInv'
  <2>1. InheritedMutators /\ UNCHANGED <<live, root, okey, changed, deleted>>
    BY <1>9 DEF Mutate
  <2> QED
    BY <1>1, <1>2, <2>1 DEF RootsInv, Rooted, Unmarked
<1> QED
  BY <1>3, <1>4, <1>5, <1>6, <1>7, <1>8, <1>9
     DEF Next, Step, Share, Flush, Expire, vars, heap

\* Whatever the application shares, moves or edits after its removal, only objects made as
\* a root carry marks; and no key that has a value is marked deleted, if the application
\* calls no mutator that MutableDict inherits from dict.
THEOREM RootsCarryTheMarks == Spec => []MarksAreOnRoots
<1>1. Init => RootsInv
  BY NoDocumentType DEF Init, RootsInv, TypeOK, Unmarked
<1>2. RootsInv /\ [Next]_vars => RootsInv'
  BY RootsStep
<1>3. RootsInv => MarksAreOnRoots
  BY DEF RootsInv, Rooted, MarksAreOnRoots
<1> QED
  BY <1>1, <1>2, <1>3, PTL DEF Spec

-----------------------------------------------------------------------------
(* An application that assigns only plain values and plain dictionaries    *)
(* never finds an object under another key than the one it was made for.   *)

\* What is kept object by object: an item has its holder's root, and its holder's key
\* unless the holder is a root.
ItemsAreOwned ==
    \A o \in live, k \in Keys : items[o][k] \in Obj =>
        /\ items[o][k] \in live
        /\ root[items[o][k]] = root[o]
        /\ okey[items[o][k]] = OwnKey(o, k)

RowsHaveRoots ==
    \A r \in Rows : attr[r] # NoObj =>
        /\ attr[r] \in live
        /\ okey[attr[r]] = NoKey
        /\ parents[attr[r]] = {r}

OwnedInv ==
    /\ RootsInv
    /\ ItemsAreOwned
    /\ RowsHaveRoots
    /\ \A o \in Obj \ live : parents[o] = {}

\* Objects made from one plain dictionary own each other as they should.
LEMMA MakeOwned ==
    ASSUME ~Aliasing, OwnedInv, NEW N, NEW n, NEW f, NEW g, NEW top, NEW to,
           Converts(N, n, f, g, top), Make(N, f, g, to),
           \A p \in N : items'[p] = f[p]
    PROVE  \A p \in N, j \in Keys : items'[p][j] \in Obj =>
              /\ items'[p][j] \in live'
              /\ root'[items'[p][j]] = root'[p]
              /\ okey'[items'[p][j]] = (IF okey'[p] = NoKey THEN j ELSE okey'[p])
<1>1. TypeOK
  BY DEF OwnedInv, RootsInv
<1>2. N \subseteq Obj
  BY <1>1, ConvertsFacts
<1>3. \A p \in N : root'[p] = to /\ okey'[p] = g[p] /\ p \in live'
  BY <1>2 DEF Make
<1>4. ASSUME NEW p \in N, NEW j \in Keys, f[p][j] \in Obj
      PROVE  f[p][j] \in N
  <2>1. f \in [N -> [Keys -> Contents \cup N \cup {}]]
    BY DEF Converts
  <2>2. f[p][j] \in Contents \cup N
    BY <2>1
  <2> QED
    BY <1>4, <2>2, IdentitiesAssumption DEF Contents
<1>5. \A p \in N, j \in Keys : f[p][j] \in N =>
          g[f[p][j]] = (IF g[p] = NoKey THEN j ELSE g[p])
  BY DEF Converts
<1> QED
  BY <1>3, <1>4, <1>5

\* Without aliasing every step keeps each item owned by the object it is found in.
LEMMA OwnedStep ==
    ASSUME ~Aliasing, OwnedInv, [Next]_vars
    PROVE  OwnedInv'
<1>1. TypeOK /\ TypeOK' /\ RootsInv'
  BY TypeStep, RootsStep DEF OwnedInv, RootsInv
<1>2. /\ \A o \in live : Rooted(o)
      /\ ItemsAreOwned
      /\ RowsHaveRoots
      /\ \A o \in Obj \ live : parents[o] = {}
  BY DEF OwnedInv, RootsInv
<1>3. CASE UNCHANGED <<heap, attr>>
  BY <1>1, <1>2, <1>3 DEF OwnedInv, ItemsAreOwned, RowsHaveRoots, OwnKey, heap
<1>4. ASSUME NEW o \in live, NEW k \in Keys, NEW c, c \notin Obj,
             items' = [items EXCEPT ![o][k] = c],
             UNCHANGED <<live, root, okey, parents, attr>>
      PROVE  OwnedInv'
  <2>1. \A p \in live, j \in Keys :
            items'[p][j] = IF p = o /\ j = k THEN c ELSE items[p][j]
    BY <1>1, <1>4 DEF TypeOK, Node
  <2>2. ItemsAreOwned'
    BY <1>2, <1>4, <2>1 DEF ItemsAreOwned, OwnKey
  <2>3. RowsHaveRoots'
    BY <1>2, <1>4 DEF RowsHaveRoots
  <2> QED
    BY <1>1, <1>2, <1>4, <2>2, <2>3 DEF OwnedInv
<1>5. ASSUME NEW o \in live, NEW k \in Keys, NEW c \in Values \cup {Null} \cup live,
             SetItem(o, k, c)
      PROVE  OwnedInv'
  <2>1. c \notin Obj
    BY <1>5, IdentitiesAssumption DEF SetItem
  <2> QED
    BY <1>4, <1>5, <2>1 DEF SetItem
<1>6. ASSUME NEW o \in live, NEW k \in Keys, DelItem(o, k)
      PROVE  OwnedInv'
  <2>1. Absent \notin Obj
    BY IdentitiesAssumption
  <2> QED
    BY <1>4, <1>6, <2>1 DEF DelItem
<1>7. ASSUME NEW N \in NewObjects, NEW n \in N, NEW f \in NewItems(N),
             NEW g \in [N -> Keys \cup {NoKey}],
             NEW o \in live, NEW k \in Keys, SetDict(o, k, N, n, f, g)
      PROVE  OwnedInv'
  <2>1. Converts(N, n, f, g, OwnKey(o, k)) /\ Make(N, f, g, root[o])
    BY <1>7 DEF SetDict
  <2>2. n \in N /\ N \subseteq Obj /\ N \cap live = {} /\ g[n] = OwnKey(o, k)
    BY <1>1, <2>1, ConvertsFacts
  <2>3. \A p \in N : items'[p] = f[p]
    BY <1>7, <2>2 DEF SetDict
  <2>4. \A p \in live, j \in Keys :
            items'[p][j] = IF p = o /\ j = k THEN n ELSE items[p][j]
    BY <1>1, <1>7, <2>2 DEF SetDict, TypeOK, Node
  <2>5. /\ live' = live \cup N
        /\ \A p \in live : root'[p] = root[p] /\ okey'[p] = okey[p]
        /\ root'[n] = root[o] /\ okey'[n] = OwnKey(o, k)
    BY <1>1, <2>1, <2>2 DEF Make, TypeOK
  <2>6. \A p \in N, j \in Keys : items'[p][j] \in Obj =>
            /\ items'[p][j] \in live'
            /\ root'[items'[p][j]] = root'[p]
            /\ okey'[items'[p][j]] = (IF okey'[p] = NoKey THEN j ELSE okey'[p])
    BY <2>1, <2>3, MakeOwned
  <2>7. \A p \in live, j \in Keys : items'[p][j] \in Obj =>
            /\ items'[p][j] \in live'
            /\ root'[items'[p][j]] = root'[p]
            /\ okey'[items'[p][j]] = (IF okey'[p] = NoKey THEN j ELSE okey'[p])
    BY <1>2, <2>2, <2>4, <2>5 DEF ItemsAreOwned, OwnKey
  <2>8. ItemsAreOwned'
    BY <2>5, <2>6, <2>7 DEF ItemsAreOwned, OwnKey
  <2>9. RowsHaveRoots'
    BY <1>2, <1>7, <2>5 DEF SetDict, RowsHaveRoots
  <2> QED
    BY <1>1, <1>2, <1>7, <2>5, <2>8, <2>9 DEF SetDict, OwnedInv
<1>8. ASSUME NEW N \in NewObjects, NEW n \in N, NEW f \in NewItems(N),
             NEW g \in [N -> Keys \cup {NoKey}],
             NEW r \in Rows, Load(r, N, n, f, g) \/ Replace(r, N, n, f, g)
      PROVE  OwnedInv'
  <2>1. Wrap(r, N, n, f, g) /\ Adopt(r, n)
    BY <1>8 DEF Load, Replace
  <2>2. Converts(N, n, f, g, NoKey) /\ Make(N, f, g, n)
    BY <2>1 DEF Wrap
  <2>3. n \in N /\ N \subseteq Obj /\ N \cap live = {} /\ g[n] = NoKey
    BY <1>1, <2>2, ConvertsFacts
  <2>4. /\ \A p \in N : items'[p] = f[p]
        /\ \A p \in live : items'[p] = items[p]
    BY <1>1, <2>1, <2>3 DEF Wrap, TypeOK
  <2>5. /\ live' = live \cup N
        /\ \A p \in live : root'[p] = root[p] /\ okey'[p] = okey[p]
        /\ okey'[n] = NoKey
    BY <1>1, <2>2, <2>3 DEF Make, TypeOK
  <2>6. \A p \in N, j \in Keys : items'[p][j] \in Obj =>
            /\ items'[p][j] \in live'
            /\ root'[items'[p][j]] = root'[p]
            /\ okey'[items'[p][j]] = (IF okey'[p] = NoKey THEN j ELSE okey'[p])
    BY <2>2, <2>4, MakeOwned
  <2>7. ItemsAreOwned'
    BY <1>2, <2>4, <2>5, <2>6 DEF ItemsAreOwned, OwnKey
  <2>8. attr' = [attr EXCEPT ![r] = n]
    BY <2>1 DEF Wrap
  <2>9. \A o \in Obj : parents'[o] = IF o = n THEN parents[o] \cup {r}
                                    ELSE IF o = attr[r] THEN parents[o] \ {r}
                                    ELSE parents[o]
    BY <2>1 DEF Adopt
  <2>10. n \in Obj /\ n \notin live /\ parents[n] = {}
    BY <1>2, <2>3
  <2>11. ASSUME NEW q \in Rows, attr'[q] # NoObj
         PROVE  attr'[q] \in live' /\ okey'[attr'[q]] = NoKey /\ parents'[attr'[q]] = {q}
    <3>1. CASE q = r
      BY <1>1, <2>3, <2>5, <2>8, <2>9, <2>10, <3>1 DEF TypeOK
    <3>2. CASE q # r
      <4>1. attr'[q] = attr[q]
        BY <1>1, <2>8, <3>2 DEF TypeOK
      <4>2. attr[q] \in live /\ okey[attr[q]] = NoKey /\ parents[attr[q]] = {q}
        BY <1>2, <2>11, <4>1 DEF RowsHaveRoots
      <4>3. attr[q] # n /\ attr[q] \in Obj
        BY <1>1, <2>10, <4>2 DEF TypeOK
      <4>4. attr[q] # attr[r]
        BY <1>2, <2>11, <3>2, <4>1, <4>2 DEF RowsHaveRoots
      <4> QED
        BY <2>5, <2>9, <4>1, <4>2, <4>3, <4>4
    <3> QED
      BY <3>1, <3>2
  <2>12. \A o \in Obj \ live' : parents'[o] = {}
    BY <1>2, <2>3, <2>5, <2>9
  <2> QED
    BY <1>1, <2>7, <2>11, <2>12 DEF OwnedInv, RowsHaveRoots
<1>9. ASSUME NEW r \in Rows, Expire(r)
      PROVE  OwnedInv'
  <2>1. RowsHaveRoots'
    BY <1>1, <1>2, <1>9 DEF Expire, RowsHaveRoots, heap, TypeOK
  <2>2. ItemsAreOwned'
    BY <1>2, <1>9 DEF Expire, ItemsAreOwned, OwnKey, heap
  <2> QED
    BY <1>1, <1>2, <1>9, <2>1, <2>2 DEF Expire, OwnedInv, heap
<1>10. ASSUME NEW G \in SUBSET live, Collect(G)
       PROVE  OwnedInv'
  <2>1. \A o \in live' : o \in live /\ o \notin G /\ o \in Obj
    BY <1>1, <1>10 DEF Collect, TypeOK
  <2>2. \A o \in Obj : o \notin G =>
            /\ root'[o] = root[o] /\ okey'[o] = okey[o] /\ items'[o] = items[o]
            /\ parents'[o] = parents[o]
    BY <1>10 DEF Collect
  <2>3. \A o \in live', k \in Keys : items[o][k] \notin G
    BY <1>10 DEF Collect
  <2>4. ItemsAreOwned'
    <3> SUFFICES ASSUME NEW o \in live', NEW k \in Keys, items'[o][k] \in Obj
                 PROVE  /\ items'[o][k] \in live'
                        /\ root'[items'[o][k]] = root'[o]
                        /\ okey'[items'[o][k]] = OwnKey(o, k)'
      BY DEF ItemsAreOwned
    <3>1. items'[o][k] = items[o][k] /\ o \in live
      BY <2>1, <2>2
    <3>2. /\ items[o][k] \in live /\ items[o][k] \notin G
          /\ root[items[o][k]] = root[o]
          /\ okey[items[o][k]] = OwnKey(o, k)
      BY <1>2, <2>3, <3>1 DEF ItemsAreOwned
    <3>3. items[o][k] \in live'
      BY <1>10, <3>2 DEF Collect
    <3> QED
      BY <2>1, <2>2, <3>1, <3>2, <3>3 DEF OwnKey
  <2>5. RowsHaveRoots'
    BY <1>1, <1>2, <1>10, <2>2 DEF Collect, RowsHaveRoots, TypeOK
  <2>6. \A o \in Obj \ live' : parents'[o] = {}
    BY <1>2, <1>10 DEF Collect
  <2> QED
    BY <1>1, <2>4, <2>5, <2>6 DEF OwnedInv
<1>11. ASSUME NEW r \in Rows, NEW o \in live, Share(r, o)
       PROVE  FALSE
  BY <1>11 DEF Share
<1>12. ASSUME NEW o \in live, NEW k \in Keys, NEW c \in Contents \cup live, Mutate(o, k, c)
       PROVE  OwnedInv'
  <2>1. c \notin Obj
    BY <1>12, IdentitiesAssumption DEF Mutate, Contents
  <2> QED
    BY <1>4, <1>12, <2>1 DEF Mutate
<1> QED
  BY <1>3, <1>5, <1>6, <1>7, <1>8, <1>9, <1>10, <1>11, <1>12 DEF Next, Step, Flush, vars

\* The objects of one owner under one key are closed under "is an item of", so that all
\* that is found under the key has the row's root and that key.
LEMMA OwnersUnder ==
    ASSUME OwnedInv, NEW r \in Rows, NEW o \in Obj, NEW j \in KeysAbove(r, o)
    PROVE  /\ attr[r] # NoObj /\ j \in Keys /\ items[attr[r]][j] \in Obj
           /\ o \in live /\ root[o] = attr[r] /\ okey[o] = j
<1>1. /\ TypeOK /\ ItemsAreOwned /\ RowsHaveRoots
      /\ \A p \in live : Rooted(p)
  BY DEF OwnedInv, RootsInv
<1>2. /\ attr[r] # NoObj /\ j \in Keys /\ items[attr[r]][j] \in Obj
      /\ o \in Under(items[attr[r]][j])
  BY DEF KeysAbove
<1> DEFINE R == attr[r]
           S == {p \in live : root[p] = R /\ okey[p] = j}
<1>3. R \in live /\ okey[R] = NoKey /\ root[R] = R
  BY <1>1, <1>2 DEF RowsHaveRoots, Rooted
<1>4. items[R][j] \in S
  BY <1>1, <1>2, <1>3 DEF ItemsAreOwned, OwnKey
<1>5. Closed(S)
  <2> SUFFICES ASSUME NEW p \in S, NEW k \in Keys, items[p][k] \in Obj
               PROVE  items[p][k] \in S
    BY DEF Closed
  <2>1. j # NoKey
    BY <1>2, IdentitiesAssumption
  <2> QED
    BY <1>1, <2>1 DEF ItemsAreOwned, OwnKey
<1>6. S \in SUBSET Obj
  BY <1>1 DEF TypeOK
<1>7. o \in S
  BY <1>2, <1>4, <1>5, <1>6 DEF Under
<1> QED
  BY <1>2, <1>7

\* If the application assigns only plain values and plain dictionaries, every object of a
\* row's document still has the root and the key it was made for, at any depth.
THEOREM OwnersStayCurrent == Spec => []OwnersAreCurrent
<1> DEFINE Inv == ~Aliasing => OwnedInv
<1>1. Init => Inv
  BY NoDocumentType DEF Init, OwnedInv, RootsInv, TypeOK, Unmarked, ItemsAreOwned,
                        RowsHaveRoots
<1>2. Inv /\ [Next]_vars => Inv'
  BY OwnedStep, AppStays DEF Aliasing
<1>3. Inv => OwnersAreCurrent
  BY OwnersUnder DEF OwnersAreCurrent
<1> HIDE DEF Inv
<1> QED
  BY <1>1, <1>2, <1>3, PTL DEF Spec

-----------------------------------------------------------------------------
(* No edit of an attached object is lost.                                  *)

\* What the marks of a row's root say of the edits below it.
RowRecorded(r) ==
    /\ stale[r] # {} => modified[r]
    /\ modified[r] => attr[r] # NoObj
    /\ attr[r] # NoObj =>
        /\ \A k \in changed[attr[r]] : items[attr[r]][k] # Absent \/ k \in deleted[attr[r]]
        /\ ~Unmarked(attr[r]) => stale[r] \subseteq changed[attr[r]] \cup deleted[attr[r]]

RecordedInv == OwnedInv /\ \A r \in Rows : RowRecorded(r)

\* An attached object belongs to one row, and an edit of it makes out of date there the
\* one key it is recorded under.
LEMMA AttachedRow ==
    ASSUME OwnedInv, ~DetachedEdits, NEW o \in live, NEW k \in Keys, MayEdit(o)
    PROVE  \E r \in Rows :
              /\ attr[r] = o \/ KeysAbove(r, o) # {}
              /\ attr[r] = root[o] /\ attr[r] # NoObj
              /\ Outdated(r, o, k) = {OwnKey(o, k)}
              /\ \A q \in Rows \ {r} : attr[q] # attr[r] /\ Outdated(q, o, k) = {}
              /\ \/ o = root[o] /\ okey[o] = NoKey
                 \/ /\ o # root[o] /\ okey[o] # NoKey
                    /\ items[root[o]][OwnKey(o, k)] \in Obj
<1>1. /\ TypeOK /\ RowsHaveRoots
      /\ \A p \in live : Rooted(p)
      /\ o \in Obj
  BY DEF OwnedInv, RootsInv, TypeOK
<1>2. PICK r \in Rows : attr[r] = o \/ KeysAbove(r, o) # {}
  BY DEF MayEdit, Attached
<1>3. NoObj \notin Obj /\ NoKey \notin Keys
  BY IdentitiesAssumption
<1>4. /\ attr[r] = root[o] /\ attr[r] # NoObj
      /\ \/ o = root[o] /\ okey[o] = NoKey
         \/ /\ o # root[o] /\ okey[o] # NoKey
            /\ items[root[o]][OwnKey(o, k)] \in Obj
            /\ OwnKey(o, k) \in KeysAbove(r, o)
  <2>1. CASE attr[r] = o
    BY <1>1, <1>3, <2>1 DEF RowsHaveRoots, Rooted
  <2>2. CASE KeysAbove(r, o) # {}
    <3>1. PICK j \in KeysAbove(r, o) : TRUE
      BY <2>2
    <3>2. /\ attr[r] # NoObj /\ j \in Keys /\ items[attr[r]][j] \in Obj
          /\ root[o] = attr[r] /\ okey[o] = j
      BY <1>1, <3>1, OwnersUnder
    <3>3. okey[attr[r]] = NoKey
      BY <1>1, <3>2 DEF RowsHaveRoots
    <3> QED
      BY <1>3, <3>1, <3>2, <3>3 DEF OwnKey
  <2> QED
    BY <1>2, <2>1, <2>2
<1>5. ASSUME NEW q \in Rows \ {r}
      PROVE  attr[q] # attr[r]
  BY <1>1, <1>4 DEF RowsHaveRoots
<1>6. ASSUME NEW q \in Rows \ {r}
      PROVE  Outdated(q, o, k) = {}
  <2>1. KeysAbove(q, o) = {}
    BY <1>1, <1>4, <1>5, <1>6, OwnersUnder
  <2>2. attr[q] # o
    BY <1>1, <1>3, <1>4, <1>5, <1>6 DEF RowsHaveRoots, Rooted
  <2> QED
    BY <2>1, <2>2 DEF Outdated
<1>7. Outdated(r, o, k) = {OwnKey(o, k)}
  <2>1. \A j \in KeysAbove(r, o) : j \in Keys /\ okey[o] = j
    BY <1>1, OwnersUnder
  <2> QED
    BY <1>3, <1>4, <2>1 DEF Outdated, OwnKey
<1> QED
  BY <1>2, <1>4, <1>5, <1>6, <1>7

\* If replaced documents are not edited, the edits of its row so far are all marked.
LEMMA AttachedEdit ==
    ASSUME OwnedInv, ~DetachedEdits, ~EditsReplacement, \A r \in Rows : RowRecorded(r),
           NEW o \in live, NEW k \in Keys, MayEdit(o)
    PROVE  \E r \in Rows :
              /\ attr[r] = root[o] /\ attr[r] # NoObj
              /\ Outdated(r, o, k) = {OwnKey(o, k)}
              /\ \A q \in Rows \ {r} : attr[q] # attr[r] /\ Outdated(q, o, k) = {}
              /\ \/ o = root[o] /\ okey[o] = NoKey
                 \/ /\ o # root[o] /\ okey[o] # NoKey
                    /\ items[root[o]][OwnKey(o, k)] \in Obj
              /\ stale[r] \subseteq changed[root[o]] \cup deleted[root[o]]
<1>1. PICK r \in Rows :
          /\ attr[r] = o \/ KeysAbove(r, o) # {}
          /\ attr[r] = root[o] /\ attr[r] # NoObj
          /\ Outdated(r, o, k) = {OwnKey(o, k)}
          /\ \A q \in Rows \ {r} : attr[q] # attr[r] /\ Outdated(q, o, k) = {}
          /\ \/ o = root[o] /\ okey[o] = NoKey
             \/ /\ o # root[o] /\ okey[o] # NoKey
                /\ items[root[o]][OwnKey(o, k)] \in Obj
  BY AttachedRow
<1>2. ~(modified[r] /\ Unmarked(attr[r]))
  BY <1>1 DEF MayEdit
<1>3. stale[r] \subseteq changed[root[o]] \cup deleted[root[o]]
  BY <1>1, <1>2 DEF RowRecorded
<1> QED
  BY <1>1, <1>3

\* Mutable.changed() of a row's root flags the row, and no flag is ever cleared by it.
LEMMA FlagRow ==
    ASSUME OwnedInv, NEW r \in Rows, attr[r] # NoObj, Flag(attr[r])
    PROVE  modified' = [modified EXCEPT ![r] = TRUE]
<1>1. TypeOK /\ parents[attr[r]] = {r}
  BY DEF OwnedInv, RootsInv, RowsHaveRoots
<1>2. {q \in parents[attr[r]] : attr[q] # NoObj} = {r}
  BY <1>1
<1>3. modified' = [q \in Rows |-> modified[q] \/ q \in {r}]
  BY <1>1, <1>2 DEF Flag
<1>4. \A q \in Rows : (modified[q] \/ q \in {r}) = (IF q = r THEN TRUE ELSE modified[q])
  BY <1>1 DEF TypeOK
<1> QED
  BY <1>1, <1>3, <1>4 DEF TypeOK

\* An item is set, or deleted below the root: the key is marked as changed.
LEMMA SetRecorded ==
    ASSUME RecordedInv, ~DetachedEdits, ~EditsReplacement,
           NEW o \in live, NEW k \in Keys, NEW c,
           MayEdit(o), OnKeyChanged(root[o], OwnKey(o, k)), Outdate(o, k), attr' = attr,
           c # Absent \/ okey[o] # NoKey,
           \A p \in live, j \in Keys :
               items'[p][j] = IF p = o /\ j = k THEN c ELSE items[p][j]
    PROVE  \A r \in Rows : RowRecorded(r)'
<1>1. /\ TypeOK /\ OwnedInv /\ RowsHaveRoots
      /\ \A r \in Rows : RowRecorded(r)
  BY DEF RecordedInv, OwnedInv, RootsInv
<1> DEFINE R == root[o]
           K == OwnKey(o, k)
<1>2. PICK r \in Rows :
          /\ attr[r] = R /\ attr[r] # NoObj
          /\ Outdated(r, o, k) = {K}
          /\ \A q \in Rows \ {r} : attr[q] # attr[r] /\ Outdated(q, o, k) = {}
          /\ \/ o = R /\ okey[o] = NoKey
             \/ o # R /\ okey[o] # NoKey /\ items[R][K] \in Obj
          /\ stale[r] \subseteq changed[R] \cup deleted[R]
  BY <1>1, AttachedEdit
<1>3. R \in Obj /\ R \in live /\ o \in Obj /\ K \in Keys
  BY <1>1, <1>2 DEF RowsHaveRoots, TypeOK, OwnKey
<1>4. /\ changed' = [changed EXCEPT ![R] = changed[R] \cup {K}]
      /\ deleted' = [deleted EXCEPT ![R] = deleted[R] \ {K}]
      /\ modified' = [modified EXCEPT ![r] = TRUE]
  BY <1>1, <1>2, FlagRow DEF OnKeyChanged
<1>5. /\ stale'[r] = stale[r] \cup {K}
      /\ \A q \in Rows \ {r} : stale'[q] = stale[q]
  BY <1>2 DEF Outdate
<1>6. items'[R][K] # Absent
  <2>1. CASE o = R /\ okey[o] = NoKey
    BY <1>3, <2>1 DEF OwnKey
  <2>2. CASE o # R /\ okey[o] # NoKey /\ items[R][K] \in Obj
    BY <1>3, <2>2, IdentitiesAssumption
  <2> QED
    BY <1>2, <2>1, <2>2
<1>7. \A j \in Keys : j # K => items'[R][j] = items[R][j]
  BY <1>2, <1>3 DEF OwnKey
<1>8. RowRecorded(r)'
  <2>1. \A j \in changed'[R] : items'[R][j] # Absent \/ j \in deleted'[R]
    <3> SUFFICES ASSUME NEW j \in changed'[R], j # K
                 PROVE  items'[R][j] # Absent \/ j \in deleted'[R]
      BY <1>6
    <3>1. j \in changed[R] /\ j \in Keys
      BY <1>1, <1>3, <1>4 DEF TypeOK
    <3>2. items[R][j] # Absent \/ j \in deleted[R]
      BY <1>1, <1>2, <3>1 DEF RowRecorded
    <3> QED
      BY <1>1, <1>3, <1>4, <1>7, <3>1, <3>2 DEF TypeOK
  <2>2. stale'[r] \subseteq changed'[R] \cup deleted'[R]
    BY <1>1, <1>2, <1>3, <1>4, <1>5 DEF TypeOK
  <2>3. modified'[r] /\ attr'[r] = R /\ attr'[r] # NoObj
    BY <1>1, <1>2, <1>4 DEF TypeOK
  <2> QED
    BY <2>1, <2>2, <2>3 DEF RowRecorded
<1>9. ASSUME NEW q \in Rows \ {r}
      PROVE  RowRecorded(q)'
  <2>1. RowRecorded(q) /\ attr'[q] = attr[q] /\ attr[q] # R
    BY <1>1, <1>2
  <2>2. modified'[q] = modified[q] /\ stale'[q] = stale[q]
    BY <1>1, <1>4, <1>5 DEF TypeOK
  <2>3. ASSUME attr[q] # NoObj
        PROVE  /\ changed'[attr[q]] = changed[attr[q]]
               /\ deleted'[attr[q]] = deleted[attr[q]]
               /\ attr[q] \in live /\ attr[q] # o
    <3>1. attr[q] \in live /\ attr[q] \in Obj /\ okey[attr[q]] = NoKey
      BY <1>1, <2>3 DEF RowsHaveRoots, TypeOK
    <3> QED
      BY <1>1, <1>2, <1>4, <2>1, <3>1 DEF TypeOK
  <2>4. ASSUME attr[q] # NoObj, NEW j \in Keys
        PROVE  items'[attr[q]][j] = items[attr[q]][j]
    BY <2>3, <2>4
  <2> QED
    BY <1>1, <2>1, <2>2, <2>3, <2>4 DEF RowRecorded, Unmarked, TypeOK
<1> QED
  BY <1>8, <1>9

\* Every step keeps each outdated key of a row either marked or part of a whole UPDATE.
LEMMA RecordedStep ==
    ASSUME ~Aliasing, ~DetachedEdits, ~EditsReplacement, ~InheritedMutators,
           RecordedInv, [Next]_vars
    PROVE  RecordedInv'
<1>1. /\ TypeOK /\ OwnedInv /\ OwnedInv' /\ RowsHaveRoots
      /\ \A r \in Rows : RowRecorded(r)
      /\ \A p \in live : Rooted(p)
      /\ \A p \in Obj \ live : Unmarked(p)
  BY OwnedStep DEF RecordedInv, OwnedInv, RootsInv
<1> SUFFICES \A r \in Rows : RowRecorded(r)'
  BY <1>1 DEF RecordedInv
<1>2. CASE UNCHANGED vars
  BY <1>1, <1>2 DEF RowRecorded, Unmarked, vars, heap
<1>3. ASSUME NEW o \in live, NEW k \in Keys, NEW c \in Values \cup {Null} \cup live,
             SetItem(o, k, c)
      PROVE  \A r \in Rows : RowRecorded(r)'
  <2>1. c # Absent
    BY <1>3, ContentsAssumption DEF SetItem
  <2>2. \A p \in live, j \in Keys :
            items'[p][j] = IF p = o /\ j = k THEN c ELSE items[p][j]
    BY <1>1, <1>3 DEF SetItem, TypeOK, Node
  <2> QED
    BY <1>3, <2>1, <2>2, SetRecorded DEF SetItem
<1>4. ASSUME NEW o \in live, NEW k \in Keys, DelItem(o, k)
      PROVE  \A r \in Rows : RowRecorded(r)'
  <2>1. \A p \in live, j \in Keys :
            items'[p][j] = IF p = o /\ j = k THEN Absent ELSE items[p][j]
    BY <1>1, <1>4 DEF DelItem, TypeOK, Node
  <2>2. CASE okey[o] # NoKey
    <3>1. OnKeyChanged(root[o], OwnKey(o, k))
      BY <1>4, <2>2 DEF DelItem, OwnKey
    <3> QED
      BY <1>4, <2>1, <2>2, <3>1, SetRecorded DEF DelItem
  <2>3. CASE okey[o] = NoKey
    <3>1. root[o] = o /\ o \in Obj /\ OwnKey(o, k) = k
      BY <1>1, <2>3 DEF Rooted, TypeOK, OwnKey
    <3>2. MayEdit(o)
      BY <1>4 DEF DelItem
    <3>3. PICK r \in Rows :
              /\ attr[r] = o /\ attr[r] # NoObj
              /\ Outdated(r, o, k) = {k}
              /\ \A q \in Rows \ {r} : attr[q] # attr[r] /\ Outdated(q, o, k) = {}
              /\ stale[r] \subseteq changed[o] \cup deleted[o]
      BY <1>1, <3>1, <3>2, AttachedEdit
    <3>4. /\ changed' = changed /\ attr' = attr
          /\ deleted' = [deleted EXCEPT ![o] = @ \cup {k}]
          /\ modified' = [modified EXCEPT ![r] = TRUE]
      BY <1>1, <1>4, <2>3, <3>3, FlagRow DEF DelItem
    <3>5. /\ stale'[r] = stale[r] \cup {k}
          /\ \A q \in Rows \ {r} : stale'[q] = stale[q]
      BY <1>4, <3>3 DEF DelItem, Outdate
    <3>6. RowRecorded(r)'
      <4>1. \A j \in changed'[o] : items'[o][j] # Absent \/ j \in deleted'[o]
        BY <1>1, <2>1, <3>1, <3>3, <3>4 DEF RowRecorded, TypeOK
      <4>2. stale'[r] \subseteq changed'[o] \cup deleted'[o]
        BY <1>1, <3>1, <3>3, <3>4, <3>5 DEF TypeOK
      <4> QED
        BY <1>1, <3>3, <3>4, <4>1, <4>2 DEF RowRecorded, TypeOK
    <3>7. ASSUME NEW q \in Rows \ {r}
          PROVE  RowRecorded(q)'
      <4>1. RowRecorded(q) /\ attr'[q] = attr[q] /\ attr[q] # o
        BY <1>1, <3>3, <3>4
      <4>2. modified'[q] = modified[q] /\ stale'[q] = stale[q]
        BY <1>1, <3>4, <3>5 DEF TypeOK
      <4>3. ASSUME attr[q] # NoObj
            PROVE  /\ changed'[attr[q]] = changed[attr[q]]
                   /\ deleted'[attr[q]] = deleted[attr[q]]
                   /\ attr[q] \in live
        BY <1>1, <3>4, <4>1, <4>3 DEF RowsHaveRoots, TypeOK
      <4> QED
        BY <1>1, <2>1, <4>1, <4>2, <4>3 DEF RowRecorded, Unmarked, TypeOK
    <3> QED
      BY <3>6, <3>7
  <2> QED
    BY <2>2, <2>3
<1>5. ASSUME NEW N \in NewObjects, NEW n \in N, NEW f \in NewItems(N),
             NEW g \in [N -> Keys \cup {NoKey}],
             NEW o \in live, NEW k \in Keys, SetDict(o, k, N, n, f, g)
      PROVE  \A r \in Rows : RowRecorded(r)'
  <2>1. n \in N /\ N \subseteq Obj /\ N \cap live = {}
    BY <1>1, <1>5, ConvertsFacts DEF SetDict
  <2>2. n # Absent
    BY <2>1, IdentitiesAssumption
  <2>3. \A p \in live, j \in Keys :
            items'[p][j] = IF p = o /\ j = k THEN n ELSE items[p][j]
    BY <1>1, <1>5, <2>1 DEF SetDict, TypeOK, Node
  <2>4. MayEdit(o) /\ OnKeyChanged(root[o], OwnKey(o, k)) /\ Outdate(o, k) /\ attr' = attr
    BY <1>5 DEF SetDict
  <2> QED
    BY <2>2, <2>3, <2>4, SetRecorded
<1>6. ASSUME NEW N \in NewObjects, NEW n \in N, NEW f \in NewItems(N),
             NEW g \in [N -> Keys \cup {NoKey}],
             NEW r \in Rows, Load(r, N, n, f, g) \/ Replace(r, N, n, f, g)
      PROVE  \A q \in Rows : RowRecorded(q)'
  <2>1. Wrap(r, N, n, f, g)
    BY <1>6 DEF Load, Replace
  <2>2. n \in N /\ N \subseteq Obj /\ N \cap live = {}
    BY <1>1, <2>1, ConvertsFacts DEF Wrap
  <2>3. /\ attr' = [attr EXCEPT ![r] = n] /\ changed' = changed /\ deleted' = deleted
        /\ \A p \in live : items'[p] = items[p]
    BY <1>1, <2>1, <2>2 DEF Wrap, TypeOK
  <2>4. Unmarked(n) /\ n \in Obj /\ n # NoObj
    BY <1>1, <2>2, IdentitiesAssumption
  <2>5. RowRecorded(r)'
    <3>1. attr'[r] = n /\ changed'[n] = {} /\ deleted'[n] = {}
      BY <1>1, <2>3, <2>4 DEF Unmarked, TypeOK
    <3>2. stale'[r] # {} => modified'[r]
      BY <1>1, <1>6 DEF Load, Replace, RowRecorded, TypeOK
    <3> QED
      BY <2>4, <3>1, <3>2 DEF RowRecorded, Unmarked
  <2>6. ASSUME NEW q \in Rows \ {r}
        PROVE  RowRecorded(q)'
    <3>1. attr'[q] = attr[q] /\ modified'[q] = modified[q] /\ stale'[q] = stale[q]
      BY <1>1, <1>6, <2>3 DEF Load, Replace, TypeOK
    <3>2. attr[q] # NoObj => attr[q] \in live
      BY <1>1 DEF RowsHaveRoots
    <3> QED
      BY <1>1, <2>3, <3>1, <3>2 DEF RowRecorded, Unmarked
  <2> QED
    BY <2>5, <2>6
<1>7. ASSUME NEW r \in Rows, Flush(r)
      PROVE  \A q \in Rows : RowRecorded(q)'
  BY <1>1, <1>7 DEF Flush, Settle, RowRecorded, Unmarked, heap, TypeOK
<1>8. ASSUME NEW r \in Rows, Expire(r)
      PROVE  \A q \in Rows : RowRecorded(q)'
  BY <1>1, <1>8 DEF Expire, Settle, RowRecorded, Unmarked, heap, TypeOK
<1>9. ASSUME NEW G \in SUBSET live, Collect(G)
      PROVE  \A q \in Rows : RowRecorded(q)'
  <2> SUFFICES ASSUME NEW q \in Rows
               PROVE  RowRecorded(q)'
    OBVIOUS
  <2>1. /\ attr' = attr /\ modified' = modified /\ stale' = stale
        /\ attr[q] \notin G
    BY <1>9 DEF Collect
  <2>2. ASSUME attr[q] # NoObj
        PROVE  /\ changed'[attr[q]] = changed[attr[q]]
               /\ deleted'[attr[q]] = deleted[attr[q]]
               /\ items'[attr[q]] = items[attr[q]]
    BY <1>1, <1>9, <2>1, <2>2 DEF Collect, TypeOK
  <2> QED
    BY <1>1, <2>1, <2>2 DEF RowRecorded, Unmarked
<1>10. ASSUME NEW r \in Rows, NEW o \in live, Share(r, o)
       PROVE  FALSE
  BY <1>10 DEF Share
<1>11. ASSUME NEW o \in live, NEW k \in Keys, NEW c \in Contents \cup live, Mutate(o, k, c)
       PROVE  FALSE
  BY <1>11 DEF Mutate
<1> QED
  BY <1>2, <1>3, <1>4, <1>5, <1>6, <1>7, <1>8, <1>9, <1>10, <1>11 DEF Next, Step

\* Outdated keys that are recorded are covered by what rewrite_update sends.
LEMMA RecordedSuffices == RecordedInv => EditsAreRecorded
<1> SUFFICES ASSUME RecordedInv, NEW r \in Rows, NEW k \in stale[r]
             PROVE  k \in Sent(r)
  BY DEF EditsAreRecorded
<1>1. TypeOK /\ RowRecorded(r) /\ k \in Keys
  BY DEF RecordedInv, OwnedInv, RootsInv, TypeOK
<1>2. modified[r] /\ attr[r] # NoObj
  BY <1>1 DEF RowRecorded
<1>3. CASE ~IsRewritten(changed[attr[r]], deleted[attr[r]])
  BY <1>1, <1>2, <1>3 DEF Sent, WrittenKeys
<1>4. CASE IsRewritten(changed[attr[r]], deleted[attr[r]])
  <2>1. ~Unmarked(attr[r])
    BY <1>4 DEF IsRewritten, AnyOf, Unmarked
  <2>2. k \in changed[attr[r]] \cup deleted[attr[r]]
    BY <1>1, <1>2, <2>1 DEF RowRecorded
  <2> QED
    BY <1>1, <1>2, <1>4, <2>2 DEF RowRecorded, Sent, WrittenKeys, AssignedKeys
<1> QED
  BY <1>3, <1>4

\* If the application assigns only plain values and plain dictionaries, edits only objects
\* that are part of a row, flushes a document it assigned before it edits it, and calls no
\* mutator that MutableDict inherits from dict, then every edit at every depth is covered
\* by the next UPDATE of its row.
THEOREM NestedEditsAreNotLost == Spec => []NoNestedEditIsLost
<1> DEFINE Tidy == ~Aliasing /\ ~DetachedEdits /\ ~EditsReplacement /\ ~InheritedMutators
           Inv  == Tidy => RecordedInv
<1>1. Init => Inv
  BY NoDocumentType DEF Init, RecordedInv, OwnedInv, RootsInv, TypeOK, Unmarked,
                        ItemsAreOwned, RowsHaveRoots, RowRecorded
<1>2. Inv /\ [Next]_vars => Inv'
  <2> SUFFICES ASSUME Inv, [Next]_vars, Tidy'
               PROVE  RecordedInv'
    OBVIOUS
  <2>1. Tidy
    BY AppStays DEF Aliasing, DetachedEdits, EditsReplacement, InheritedMutators
  <2> QED
    BY <2>1, RecordedStep
<1>3. Inv => NoNestedEditIsLost
  BY RecordedSuffices DEF NoNestedEditIsLost
<1> HIDE DEF Inv
<1> QED
  BY <1>1, <1>2, <1>3, PTL DEF Spec

-----------------------------------------------------------------------------
(* No edited row stays clean.                                              *)

FlaggedInv == OwnedInv /\ \A r \in Rows : stale[r] # {} => modified[r]

\* An object that belongs to no row makes nothing out of date; the parents of one that
\* does are the row that it belongs to.
LEMMA EditFlags ==
    ASSUME FlaggedInv, NEW o \in live, NEW k \in Keys,
           Flag(root[o]), Outdate(o, k)
    PROVE  \A r \in Rows : stale'[r] # {} => modified'[r]
<1>1. TypeOK /\ OwnedInv /\ RowsHaveRoots /\ \A p \in live : Rooted(p)
  BY DEF FlaggedInv, OwnedInv, RootsInv
<1> SUFFICES ASSUME NEW r \in Rows, stale'[r] # {}
             PROVE  modified'[r]
  OBVIOUS
<1>2. CASE stale[r] # {}
  BY <1>2 DEF FlaggedInv, Flag
<1>3. CASE stale[r] = {}
  <2>1. Outdated(r, o, k) # {}
    BY <1>3 DEF Outdate
  <2>2. attr[r] = root[o] /\ attr[r] # NoObj
    <3>1. CASE attr[r] = o
      BY <1>1, <3>1, IdentitiesAssumption DEF RowsHaveRoots, Rooted, TypeOK
    <3>2. CASE KeysAbove(r, o) # {}
      BY <1>1, <3>2, OwnersUnder DEF TypeOK
    <3> QED
      BY <2>1, <3>1, <3>2 DEF Outdated
  <2>3. modified' = [modified EXCEPT ![r] = TRUE]
    BY <1>1, <2>2, FlagRow
  <2> QED
    BY <1>1, <2>3 DEF TypeOK
<1> QED
  BY <1>2, <1>3

\* Every step but an unmarked change leaves each row with an edit below it flagged.
LEMMA FlaggedStep ==
    ASSUME ~Aliasing, ~InheritedMutators, FlaggedInv, [Next]_vars
    PROVE  FlaggedInv'
<1>1. /\ TypeOK /\ OwnedInv /\ OwnedInv'
      /\ \A r \in Rows : stale[r] # {} => modified[r]
      /\ \A p \in live : Rooted(p)
  BY OwnedStep DEF FlaggedInv, OwnedInv, RootsInv
<1> SUFFICES \A r \in Rows : stale'[r] # {} => modified'[r]
  BY <1>1 DEF FlaggedInv
<1>2. CASE UNCHANGED <<modified, stale>>
  BY <1>1, <1>2
<1>3. ASSUME NEW o \in live, NEW k \in Keys, NEW c \in Values \cup {Null} \cup live,
             SetItem(o, k, c)
      PROVE  \A r \in Rows : stale'[r] # {} => modified'[r]
  BY <1>3, EditFlags DEF SetItem, OnKeyChanged
<1>4. ASSUME NEW o \in live, NEW k \in Keys, DelItem(o, k)
      PROVE  \A r \in Rows : stale'[r] # {} => modified'[r]
  <2>1. Flag(root[o])
    <3>1. CASE okey[o] = NoKey
      BY <1>1, <1>4, <3>1 DEF DelItem, Rooted
    <3>2. CASE okey[o] # NoKey
      BY <1>4, <3>2 DEF DelItem, OnKeyChanged
    <3> QED
      BY <3>1, <3>2
  <2> QED
    BY <1>4, <2>1, EditFlags DEF DelItem
<1>5. ASSUME NEW N \in NewObjects, NEW n \in N, NEW f \in NewItems(N),
             NEW g \in [N -> Keys \cup {NoKey}],
             NEW o \in live, NEW k \in Keys, SetDict(o, k, N, n, f, g)
      PROVE  \A r \in Rows : stale'[r] # {} => modified'[r]
  BY <1>5, EditFlags DEF SetDict, OnKeyChanged
<1>6. ASSUME NEW N \in NewObjects, NEW n \in N, NEW f \in NewItems(N),
             NEW g \in [N -> Keys \cup {NoKey}],
             NEW r \in Rows, Load(r, N, n, f, g) \/ Replace(r, N, n, f, g)
      PROVE  \A q \in Rows : stale'[q] # {} => modified'[q]
  BY <1>1, <1>6 DEF Load, Replace, TypeOK
<1>7. ASSUME NEW r \in Rows, Settle(r)
      PROVE  \A q \in Rows : stale'[q] # {} => modified'[q]
  BY <1>1, <1>7 DEF Settle, TypeOK
<1>8. ASSUME NEW r \in Rows, NEW o \in live, Share(r, o)
      PROVE  FALSE
  BY <1>8 DEF Share
<1>9. ASSUME NEW o \in live, NEW k \in Keys, NEW c \in Contents \cup live, Mutate(o, k, c)
      PROVE  FALSE
  BY <1>9 DEF Mutate
<1> QED
  BY <1>2, <1>3, <1>4, <1>5, <1>6, <1>7, <1>8, <1>9
     DEF Next, Step, Flush, Expire, Collect, vars

\* If the application assigns only plain values and plain dictionaries and calls no mutator
\* that MutableDict inherits from dict, every row with an edit below it, at any depth,
\* takes part in the next flush, whatever else was edited, replaced or kept.
THEOREM EditedRowsStayFlagged == Spec => []EditedRowsAreFlagged
<1> DEFINE Tidy == ~Aliasing /\ ~InheritedMutators
           Inv  == Tidy => FlaggedInv
<1>1. Init => Inv
  BY NoDocumentType DEF Init, FlaggedInv, OwnedInv, RootsInv, TypeOK, Unmarked,
                        ItemsAreOwned, RowsHaveRoots
<1>2. Inv /\ [Next]_vars => Inv'
  <2> SUFFICES ASSUME Inv, [Next]_vars, Tidy'
               PROVE  FlaggedInv'
    OBVIOUS
  <2>1. Tidy
    BY AppStays DEF Aliasing, InheritedMutators
  <2> QED
    BY <2>1, FlaggedStep
<1>3. Inv => EditedRowsAreFlagged
  BY DEF EditedRowsAreFlagged, FlaggedInv
<1> HIDE DEF Inv
<1> QED
  BY <1>1, <1>2, <1>3, PTL DEF Spec

-----------------------------------------------------------------------------
(* Nothing but edits is sent.                                              *)

\* What is marked was edited, and a row that is sent as a whole was assigned as a whole.
RowExact(r) ==
    /\ modified[r] => attr[r] # NoObj
    /\ modified[r] /\ Unmarked(attr[r]) => stale[r] = Keys
    /\ attr[r] # NoObj => changed[attr[r]] \cup deleted[attr[r]] \subseteq stale[r]

ExactInv == OwnedInv /\ \A r \in Rows : RowExact(r)

\* An edit of an attached object marks the one key that it makes out of date.
LEMMA EditExact ==
    ASSUME ExactInv, ~DetachedEdits, NEW o \in live, NEW k \in Keys,
           MayEdit(o), Flag(root[o]), Outdate(o, k), attr' = attr,
           OwnKey(o, k) \in changed'[root[o]] \cup deleted'[root[o]],
           changed'[root[o]] \cup deleted'[root[o]]
               \subseteq changed[root[o]] \cup deleted[root[o]] \cup {OwnKey(o, k)},
           \A p \in Obj \ {root[o]} : changed'[p] = changed[p] /\ deleted'[p] = deleted[p]
    PROVE  \A r \in Rows : RowExact(r)'
<1>1. TypeOK /\ OwnedInv /\ \A r \in Rows : RowExact(r)
  BY DEF ExactInv, OwnedInv, RootsInv
<1>2. PICK r \in Rows :
          /\ attr[r] = root[o] /\ attr[r] # NoObj
          /\ Outdated(r, o, k) = {OwnKey(o, k)}
          /\ \A q \in Rows \ {r} : attr[q] # attr[r] /\ Outdated(q, o, k) = {}
  BY <1>1, AttachedRow
<1>3. modified' = [modified EXCEPT ![r] = TRUE]
  BY <1>1, <1>2, FlagRow
<1>4. /\ stale'[r] = stale[r] \cup {OwnKey(o, k)}
      /\ \A q \in Rows \ {r} : stale'[q] = stale[q]
  BY <1>2 DEF Outdate
<1>5. RowExact(r)'
  BY <1>1, <1>2, <1>4 DEF RowExact, Unmarked
<1>6. ASSUME NEW q \in Rows \ {r}
      PROVE  RowExact(q)'
  <2>1. /\ attr'[q] = attr[q] /\ stale'[q] = stale[q] /\ RowExact(q)
        /\ modified'[q] = modified[q]
    BY <1>1, <1>3, <1>4 DEF TypeOK
  <2>2. attr[q] # NoObj => attr[q] \in Obj \ {root[o]}
    BY <1>1, <1>2 DEF TypeOK
  <2> QED
    BY <2>1, <2>2 DEF RowExact, Unmarked
<1> QED
  BY <1>5, <1>6

\* on_key_changed marks one key of one object.
LEMMA OneMark ==
    ASSUME TypeOK, NEW x \in Obj, NEW k \in Keys, OnKeyChanged(x, k)
    PROVE  /\ Flag(x)
           /\ k \in changed'[x] \cup deleted'[x]
           /\ changed'[x] \cup deleted'[x] \subseteq changed[x] \cup deleted[x] \cup {k}
           /\ \A p \in Obj \ {x} : changed'[p] = changed[p] /\ deleted'[p] = deleted[p]
BY DEF OnKeyChanged, TypeOK

\* Every step but an early flush keeps marks and edits together.
LEMMA ExactStep ==
    ASSUME ~Aliasing, ~DetachedEdits, ~FlushesEarly, ExactInv, [Next]_vars
    PROVE  ExactInv'
<1>1. /\ TypeOK /\ OwnedInv /\ OwnedInv' /\ RowsHaveRoots
      /\ \A r \in Rows : RowExact(r)
      /\ \A p \in live : Rooted(p)
      /\ \A p \in Obj \ live : Unmarked(p)
  BY OwnedStep DEF ExactInv, OwnedInv, RootsInv
<1> SUFFICES \A r \in Rows : RowExact(r)'
  BY <1>1 DEF ExactInv
<1>2. \A o \in live, k \in Keys : root[o] \in Obj /\ OwnKey(o, k) \in Keys
  BY <1>1 DEF TypeOK, OwnKey
<1>3. CASE UNCHANGED vars
  BY <1>1, <1>3 DEF RowExact, Unmarked, vars, heap
<1>4. ASSUME NEW o \in live, NEW k \in Keys, NEW c \in Values \cup {Null} \cup live,
             SetItem(o, k, c)
      PROVE  \A r \in Rows : RowExact(r)'
  <2>1. MayEdit(o) /\ OnKeyChanged(root[o], OwnKey(o, k)) /\ Outdate(o, k) /\ attr' = attr
    BY <1>4 DEF SetItem
  <2> QED
    BY <1>1, <1>2, <2>1, OneMark, EditExact
<1>5. ASSUME NEW o \in live, NEW k \in Keys, DelItem(o, k)
      PROVE  \A r \in Rows : RowExact(r)'
  <2>1. MayEdit(o) /\ Outdate(o, k) /\ attr' = attr
    BY <1>5 DEF DelItem
  <2>2. CASE okey[o] # NoKey
    <3>1. OnKeyChanged(root[o], OwnKey(o, k))
      BY <1>5, <2>2 DEF DelItem, OwnKey
    <3> QED
      BY <1>1, <1>2, <2>1, <3>1, OneMark, EditExact
  <2>3. CASE okey[o] = NoKey
    <3>1. root[o] = o /\ o \in Obj /\ OwnKey(o, k) = k
      BY <1>1, <2>3 DEF Rooted, TypeOK, OwnKey
    <3>2. changed' = changed /\ deleted' = [deleted EXCEPT ![o] = @ \cup {k}] /\ Flag(o)
      BY <1>5, <2>3 DEF DelItem
    <3>3. deleted'[o] = deleted[o] \cup {k} /\ \A p \in Obj \ {o} : deleted'[p] = deleted[p]
      BY <1>1, <3>1, <3>2 DEF TypeOK
    <3> QED
      BY <2>1, <3>1, <3>2, <3>3, EditExact
  <2> QED
    BY <2>2, <2>3
<1>6. ASSUME NEW N \in NewObjects, NEW n \in N, NEW f \in NewItems(N),
             NEW g \in [N -> Keys \cup {NoKey}],
             NEW o \in live, NEW k \in Keys, SetDict(o, k, N, n, f, g)
      PROVE  \A r \in Rows : RowExact(r)'
  <2>1. MayEdit(o) /\ OnKeyChanged(root[o], OwnKey(o, k)) /\ Outdate(o, k) /\ attr' = attr
    BY <1>6 DEF SetDict
  <2> QED
    BY <1>1, <1>2, <2>1, OneMark, EditExact
<1>7. ASSUME NEW N \in NewObjects, NEW n \in N, NEW f \in NewItems(N),
             NEW g \in [N -> Keys \cup {NoKey}],
             NEW r \in Rows, Load(r, N, n, f, g) \/ Replace(r, N, n, f, g)
      PROVE  \A q \in Rows : RowExact(q)'
  <2>1. Wrap(r, N, n, f, g)
    BY <1>7 DEF Load, Replace
  <2>2. n \in N /\ N \subseteq Obj /\ N \cap live = {}
    BY <1>1, <2>1, ConvertsFacts DEF Wrap
  <2>3. /\ attr' = [attr EXCEPT ![r] = n] /\ changed' = changed /\ deleted' = deleted
        /\ n # NoObj /\ changed[n] \cup deleted[n] = {}
    BY <1>1, <2>1, <2>2, IdentitiesAssumption DEF Wrap, Unmarked
  <2>4. RowExact(r)'
    <3>1. attr'[r] = n
      BY <1>1, <2>3 DEF TypeOK
    <3>2. modified'[r] => stale'[r] = Keys
      BY <1>1, <1>7 DEF Load, Replace, RowExact, TypeOK
    <3> QED
      BY <2>3, <3>1, <3>2 DEF RowExact
  <2>5. ASSUME NEW q \in Rows \ {r}
        PROVE  RowExact(q)'
    <3>1. attr'[q] = attr[q] /\ modified'[q] = modified[q] /\ stale'[q] = stale[q]
      BY <1>1, <1>7, <2>3 DEF Load, Replace, TypeOK
    <3> QED
      BY <1>1, <2>3, <3>1 DEF RowExact, Unmarked
  <2> QED
    BY <2>4, <2>5
<1>8. ASSUME NEW r \in Rows, Expire(r)
      PROVE  \A q \in Rows : RowExact(q)'
  BY <1>1, <1>8 DEF Expire, Settle, RowExact, Unmarked, heap, TypeOK
<1>9. ASSUME NEW G \in SUBSET live, Collect(G)
      PROVE  \A q \in Rows : RowExact(q)'
  <2> SUFFICES ASSUME NEW q \in Rows
               PROVE  RowExact(q)'
    OBVIOUS
  <2>1. /\ attr' = attr /\ modified' = modified /\ stale' = stale
        /\ attr[q] \notin G
    BY <1>9 DEF Collect
  <2>2. ASSUME attr[q] # NoObj
        PROVE  /\ changed'[attr[q]] = changed[attr[q]]
               /\ deleted'[attr[q]] = deleted[attr[q]]
    BY <1>1, <1>9, <2>1, <2>2 DEF Collect, TypeOK
  <2> QED
    BY <1>1, <2>1, <2>2 DEF RowExact, Unmarked
<1>10. ASSUME NEW r \in Rows, NEW o \in live, Share(r, o)
       PROVE  FALSE
  BY <1>10 DEF Share
<1>11. ASSUME NEW r \in Rows, Flush(r)
       PROVE  FALSE
  BY <1>11 DEF Flush
<1>12. ASSUME NEW o \in live, NEW k \in Keys, NEW c \in Contents \cup live, Mutate(o, k, c)
       PROVE  \A q \in Rows : RowExact(q)'
  <2>1. /\ UNCHANGED <<attr, changed, deleted, modified>>
        /\ \A q \in Rows : stale[q] \subseteq stale'[q] /\ stale'[q] \subseteq Keys
    BY <1>1, <1>12 DEF Mutate, Outdate, Outdated, KeysAbove, TypeOK
  <2> SUFFICES ASSUME NEW q \in Rows
               PROVE  RowExact(q)'
    OBVIOUS
  <2>2. RowExact(q) /\ stale[q] \subseteq stale'[q] /\ stale'[q] \subseteq Keys
    BY <1>1, <2>1
  <2>3. stale[q] = Keys => stale'[q] = Keys
    BY <2>2
  <2> QED
    BY <2>1, <2>2, <2>3 DEF RowExact, Unmarked
<1> QED
  BY <1>3, <1>4, <1>5, <1>6, <1>7, <1>8, <1>9, <1>10, <1>11, <1>12 DEF Next, Step

\* If the application assigns only plain values and plain dictionaries, edits only objects
\* that are part of a row, flushes only when it commits, and has no key that is false,
\* then the next UPDATE of a row writes no top-level key without an edit below it: a row
\* that was not assigned as a whole is never sent as a whole.
THEOREM NothingElseIsSent == Spec => []OnlyEditsAreSent
<1> DEFINE Tidy == ~Aliasing /\ ~DetachedEdits /\ ~FlushesEarly
           Inv  == Tidy => ExactInv
<1>1. Init => Inv
  BY NoDocumentType DEF Init, ExactInv, OwnedInv, RootsInv, TypeOK, Unmarked,
                        ItemsAreOwned, RowsHaveRoots, RowExact
<1>2. Inv /\ [Next]_vars => Inv'
  <2> SUFFICES ASSUME Inv, [Next]_vars, Tidy'
               PROVE  ExactInv'
    OBVIOUS
  <2>1. Tidy
    BY AppStays DEF Aliasing, DetachedEdits, FlushesEarly
  <2> QED
    BY <2>1, ExactStep
<1>3. Inv => OnlyEditsAreSent
  <2> SUFFICES ASSUME ExactInv, FalsyKeys = {}, NEW r \in Rows, modified[r]
               PROVE  Sent(r) \subseteq stale[r]
    BY DEF OnlyEditsAreSent, Sent
  <2>1. RowExact(r) /\ attr[r] # NoObj
    BY DEF ExactInv, RowExact
  <2>2. CASE IsRewritten(changed[attr[r]], deleted[attr[r]])
    BY <2>1, <2>2 DEF Sent, WrittenKeys, AssignedKeys, RowExact
  <2>3. CASE ~IsRewritten(changed[attr[r]], deleted[attr[r]])
    <3>1. Unmarked(attr[r])
      BY <2>3 DEF IsRewritten, AnyOf, Unmarked
    <3> QED
      BY <2>1, <2>3, <3>1 DEF Sent, WrittenKeys, RowExact
  <2> QED
    BY <2>2, <2>3
<1> HIDE DEF Inv
<1> QED
  BY <1>1, <1>2, <1>3, PTL DEF Spec
=============================================================================
