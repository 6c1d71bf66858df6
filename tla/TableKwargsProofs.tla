-------------------------- MODULE TableKwargsProofs --------------------------
(* Proofs about TableKwargs, for any number of threads, options and contexts. *)
EXTENDS TableKwargs, SequenceTheorems, WellFoundedInduction, TLAPS

\* A set of natural numbers that is not empty has a least element.
LEMMA LeastExists ==
    ASSUME NEW I, I \subseteq Nat, I # {}
    PROVE  \E i \in I : \A j \in I : i <= j
<1>1. \E i \in I : \A j \in I : <<j, i>> \notin OpToRel(<, Nat)
  BY NatLessThanWellFounded, WFMin
<1>2. \A i, j \in I : <<j, i>> \notin OpToRel(<, Nat) => i <= j
  BY DEF OpToRel
<1> QED
  BY <1>1, <1>2

\* What is left when one element of a sequence is removed is a sequence, one shorter.
LEMMA RemoveType ==
    ASSUME NEW S, NEW s \in Seq(S), NEW i \in 1 .. Len(s)
    PROVE  /\ RemoveAt(s, i) \in Seq(S)
           /\ Len(RemoveAt(s, i)) = Len(s) - 1
<1>1. SubSeq(s, 1, i - 1) \in Seq(S) /\ Len(SubSeq(s, 1, i - 1)) = i - 1
  OBVIOUS
<1>2. SubSeq(s, i + 1, Len(s)) \in Seq(S)
  OBVIOUS
<1>3. Len(SubSeq(s, i + 1, Len(s))) = Len(s) - i
  OBVIOUS
<1>4. /\ SubSeq(s, 1, i - 1) \o SubSeq(s, i + 1, Len(s)) \in Seq(S)
      /\ Len(SubSeq(s, 1, i - 1) \o SubSeq(s, i + 1, Len(s)))
            = Len(SubSeq(s, 1, i - 1)) + Len(SubSeq(s, i + 1, Len(s)))
  BY <1>1, <1>2, ConcatProperties
<1>5. (i - 1) + (Len(s) - i) = Len(s) - 1
  OBVIOUS
<1> QED
  BY <1>1, <1>3, <1>4, <1>5 DEF RemoveAt

\* When the last element is removed the others stay where they are.
LEMMA RemoveLast ==
    ASSUME NEW S, NEW s \in Seq(S), Len(s) # 0
    PROVE  \A j \in 1 .. Len(s) - 1 : RemoveAt(s, Len(s))[j] = s[j]
BY DEF RemoveAt

\* One context takes a step and keeps what it was entered with.
LEMMA SaveType ==
    ASSUME TypeOK, NEW i \in DOMAIN open, Save(i)
    PROVE  TypeOK'
<1>1. open[i] \in Contexts /\ i \in 1 .. Len(open)
  BY ElementOfSeq, LenProperties DEF TypeOK
<1>2. [open[i] EXCEPT !.at = "saved", !.original = current] \in Contexts
  BY <1>1 DEF TypeOK, Contexts, Steps
<1>3. open' = [open EXCEPT ![i] = [open[i] EXCEPT !.at = "saved", !.original = current]]
  BY <1>1 DEF Save
<1>4. open' \in Seq(Contexts)
  BY <1>1, <1>2, <1>3, ExceptSeq DEF TypeOK
<1> QED
  BY <1>4 DEF TypeOK, Save

\* The new function is a function.
LEMMA InstallType ==
    ASSUME TypeOK, NEW i \in DOMAIN open, Install(i)
    PROVE  TypeOK'
<1>1. open[i] \in Contexts /\ i \in 1 .. Len(open)
  BY ElementOfSeq, LenProperties DEF TypeOK
<1>2. [open[i] EXCEPT !.at = "active"] \in Contexts
  BY <1>1 DEF Contexts, Steps
<1>3. open' = [open EXCEPT ![i] = [open[i] EXCEPT !.at = "active"]]
  BY <1>1 DEF Install
<1>4. open' \in Seq(Contexts)
  BY <1>1, <1>2, <1>3, ExceptSeq DEF TypeOK
<1>5. current' \in Chains
  BY <1>1, AppendProperties DEF Install, PutInPlace, Contexts, Chains
<1> QED
  BY <1>4, <1>5 DEF TypeOK

\* Every step of every thread keeps the types.
LEMMA TypeStep ==
    ASSUME TypeOK, [Next]_vars
    PROVE  TypeOK'
<1>1. CASE UNCHANGED vars
  BY <1>1 DEF vars, TypeOK
<1>2. ASSUME NEW t \in Threads, NEW kwargs \in Kwargs, Enter(t, kwargs)
      PROVE  TypeOK'
  <2>1. [thread |-> t, kwargs |-> kwargs, at |-> "captured",
         dist |-> current, original |-> <<>>] \in Contexts
    BY EmptySeq DEF TypeOK, Contexts, Steps, Chains
  <2> QED
    BY <1>2, <2>1, AppendProperties DEF TypeOK, Enter
<1>3. ASSUME NEW i \in DOMAIN open, Save(i)
      PROVE  TypeOK'
  BY <1>3, SaveType
<1>4. ASSUME NEW i \in DOMAIN open, Install(i)
      PROVE  TypeOK'
  BY <1>4, InstallType
<1>5. ASSUME NEW i \in DOMAIN open, Exit(i)
      PROVE  TypeOK'
  <2>1. open[i] \in Contexts /\ i \in 1 .. Len(open)
    BY ElementOfSeq, LenProperties DEF TypeOK
  <2> QED
    BY <1>5, <2>1, RemoveType DEF TypeOK, Exit, Restore, Contexts
<1> QED
  BY <1>1, <1>2, <1>3, <1>4, <1>5 DEF Next

\* Whatever order threads enter and leave in, a function is in the place of Table._new.
THEOREM TypeCorrect == Spec => []TypeOK
<1>1. Init => TypeOK
  BY EmptySeq DEF Init, TypeOK, Chains
<1>2. TypeOK /\ [Next]_vars => TypeOK'
  BY TypeStep
<1> QED
  BY <1>1, <1>2, PTL DEF Spec

-----------------------------------------------------------------------------
(* Contexts that nest.                                                     *)

\* The functions in `chain` are those of the first n of `contexts`.
IsChainOf(chain, contexts, n) ==
    /\ Len(chain) = n
    /\ \A j \in 1 .. n : chain[j] = contexts[j].kwargs

\* Context i calls and puts back the functions of the contexts below it.
OnTopOf(contexts, i) ==
    /\ IsChainOf(contexts[i].dist, contexts, i - 1)
    /\ contexts[i].at # "captured" => IsChainOf(contexts[i].original, contexts, i - 1)

\* How many of n contexts have their function in place: all, or all but the newest.
InPlace(contexts, n) ==
    IF n # 0 /\ contexts[n].at # "active" THEN n - 1 ELSE n

StackedBy(contexts, n, chain) ==
    /\ \A i \in 1 .. n :
        /\ i # n => contexts[i].at = "active"
        /\ OnTopOf(contexts, i)
    /\ IsChainOf(chain, contexts, InPlace(contexts, n))

Stacked == StackedBy(open, Len(open), current)

StackInv == TypeOK /\ Stacked

\* A chain is the chain of any contexts with the same options.
LEMMA SameChain ==
    ASSUME NEW chain, NEW s, NEW t, NEW n,
           IsChainOf(chain, s, n), \A j \in 1 .. n : s[j].kwargs = t[j].kwargs
    PROVE  IsChainOf(chain, t, n)
BY DEF IsChainOf

\* What stays below a context keeps it on top.
LEMMA StaysOnTop ==
    ASSUME NEW s, NEW t, NEW i \in Nat, OnTopOf(s, i), s[i] = t[i],
           \A j \in 1 .. i - 1 : s[j].kwargs = t[j].kwargs
    PROVE  OnTopOf(t, i)
BY SameChain DEF OnTopOf

\* A context is entered on top of contexts that are all in place.
LEMMA EnterStacked ==
    ASSUME NEW s, NEW t, NEW n \in Nat, NEW chain, StackedBy(s, n, chain),
           \A i \in 1 .. n : s[i].at = "active" /\ t[i] = s[i],
           t[n + 1].at = "captured", t[n + 1].dist = chain
    PROVE  StackedBy(t, n + 1, chain)
<1>1. InPlace(s, n) = n /\ InPlace(t, n + 1) = n
  BY DEF InPlace
<1>2. IsChainOf(chain, t, n)
  BY <1>1, SameChain DEF StackedBy
<1>3. \A i \in 1 .. n : OnTopOf(t, i)
  BY StaysOnTop DEF StackedBy
<1>4. OnTopOf(t, n + 1)
  BY <1>2 DEF OnTopOf
<1> QED
  BY <1>1, <1>2, <1>3, <1>4 DEF StackedBy

\* The newest context learns what to put back.
LEMMA SaveStacked ==
    ASSUME NEW s, NEW t, NEW n \in Nat \ {0}, NEW chain, StackedBy(s, n, chain),
           \A i \in 1 .. n - 1 : t[i] = s[i],
           s[n].at = "captured", t[n].at = "saved",
           t[n].dist = s[n].dist, t[n].original = chain
    PROVE  StackedBy(t, n, chain)
<1>1. InPlace(s, n) = n - 1 /\ InPlace(t, n) = n - 1
  BY DEF InPlace
<1>2. IsChainOf(chain, t, n - 1)
  BY <1>1, SameChain DEF StackedBy
<1>3. \A i \in 1 .. n - 1 : OnTopOf(t, i)
  BY StaysOnTop DEF StackedBy
<1>4. IsChainOf(t[n].dist, t, n - 1)
  BY SameChain DEF StackedBy, OnTopOf
<1>5. OnTopOf(t, n)
  BY <1>2, <1>4 DEF OnTopOf
<1> QED
  BY <1>1, <1>2, <1>3, <1>5 DEF StackedBy

\* The newest context puts its function in place, on top of those it calls.
LEMMA InstallStacked ==
    ASSUME NEW s, NEW t, NEW n \in Nat \ {0}, NEW old, NEW chain, StackedBy(s, n, old),
           \A i \in 1 .. n - 1 : t[i] = s[i],
           s[n].at = "saved", t[n].at = "active", t[n].kwargs = s[n].kwargs,
           t[n].dist = s[n].dist, t[n].original = s[n].original,
           Len(chain) = Len(s[n].dist) + 1,
           \A j \in 1 .. Len(s[n].dist) : chain[j] = s[n].dist[j],
           chain[n] = s[n].kwargs
    PROVE  StackedBy(t, n, chain)
<1>1. InPlace(t, n) = n
  BY DEF InPlace
<1>2. IsChainOf(s[n].dist, s, n - 1) /\ IsChainOf(s[n].original, s, n - 1)
  BY DEF StackedBy, OnTopOf
<1>3. IsChainOf(chain, t, n)
  <2>1. Len(chain) = n
    BY <1>2 DEF IsChainOf
  <2>2. \A j \in 1 .. n - 1 : chain[j] = s[j].kwargs
    BY <1>2 DEF IsChainOf
  <2> QED
    BY <2>1, <2>2 DEF IsChainOf
<1>4. \A i \in 1 .. n - 1 : OnTopOf(t, i)
  BY StaysOnTop DEF StackedBy
<1>5. OnTopOf(t, n)
  BY <1>2, SameChain DEF OnTopOf
<1> QED
  BY <1>1, <1>3, <1>4, <1>5 DEF StackedBy

\* The newest context is left: what it puts back are the functions below it.
LEMMA ExitStacked ==
    ASSUME NEW s, NEW t, NEW n \in Nat \ {0}, NEW chain, StackedBy(s, n, chain),
           \A i \in 1 .. n - 1 : t[i] = s[i], s[n].at = "active"
    PROVE  StackedBy(t, n - 1, s[n].original)
<1>1. \A i \in 1 .. n - 1 : t[i].at = "active"
  BY DEF StackedBy
<1>2. InPlace(t, n - 1) = n - 1
  BY <1>1 DEF InPlace
<1>3. IsChainOf(s[n].original, t, n - 1)
  BY SameChain DEF StackedBy, OnTopOf
<1>4. \A i \in 1 .. n - 1 : OnTopOf(t, i)
  BY StaysOnTop DEF StackedBy
<1> QED
  BY <1>1, <1>2, <1>3, <1>4 DEF StackedBy

\* Every step keeps the contexts stacked, when contexts nest.
LEMMA StackStep ==
    ASSUME Nested, StackInv, [Next]_vars
    PROVE  StackInv'
<1>1. TypeOK /\ TypeOK'
  BY TypeStep DEF StackInv
<1>2. StackedBy(open, Len(open), current)
  BY DEF StackInv, Stacked
<1>3. /\ Len(open) \in Nat
      /\ DOMAIN open = 1 .. Len(open)
      /\ \A i \in 1 .. Len(open) : open[i] \in Contexts
  BY <1>1, ElementOfSeq, LenProperties DEF TypeOK
<1>4. ASSUME UNCHANGED vars
      PROVE  Stacked'
  BY <1>2, <1>4 DEF vars, Stacked
<1>5. ASSUME NEW t \in Threads, NEW kwargs \in Kwargs, Enter(t, kwargs)
      PROVE  Stacked'
  <2>1. \A i \in 1 .. Len(open) : open[i].at = "active"
    <3>1. \A i \in 1 .. Len(open) : open[i].thread \in Threads
      BY <1>3 DEF Contexts
    <3> QED
      BY <1>3, <1>5, <3>1 DEF Enter, Ready
  <2>2. PICK new : open' = Append(open, new) /\ new.at = "captured" /\ new.dist = current
    BY <1>5 DEF Enter
  <2>3. /\ Len(open') = Len(open) + 1
        /\ open'[Len(open) + 1] = new
        /\ \A i \in 1 .. Len(open) : open'[i] = open[i]
    BY <1>1, <2>2 DEF TypeOK
  <2>4. StackedBy(open', Len(open) + 1, current)
    BY <1>2, <1>3, <2>1, <2>2, <2>3, EnterStacked
  <2> QED
    BY <1>5, <2>3, <2>4 DEF Stacked, Enter
<1>6. ASSUME NEW i \in DOMAIN open, Save(i)
      PROVE  Stacked'
  <2>1. i = Len(open) /\ Len(open) \in Nat \ {0}
    BY <1>2, <1>3, <1>6 DEF Save, StackedBy
  <2>2. /\ Len(open') = Len(open)
        /\ \A j \in 1 .. Len(open) - 1 : open'[j] = open[j]
    BY <1>1, <1>6, <2>1 DEF Save, TypeOK
  <2>3. /\ open[i].at = "captured"
        /\ open'[i].at = "saved"
        /\ open'[i].dist = open[i].dist
        /\ open'[i].original = current
    BY <1>3, <1>6 DEF Save, Contexts
  <2>4. StackedBy(open', i, current)
    <3>1. i \in Nat \ {0} /\ StackedBy(open, i, current)
      BY <1>2, <2>1
    <3>2. \A j \in 1 .. i - 1 : open'[j] = open[j]
      BY <2>1, <2>2
    <3> QED
      BY <2>3, <3>1, <3>2, SaveStacked
  <2> QED
    BY <1>6, <2>1, <2>2, <2>4 DEF Stacked, Save
<1>7. ASSUME NEW i \in DOMAIN open, Install(i)
      PROVE  Stacked'
  <2>1. i = Len(open) /\ Len(open) \in Nat \ {0}
    BY <1>2, <1>3, <1>7 DEF Install, StackedBy
  <2>2. /\ Len(open') = Len(open)
        /\ \A j \in 1 .. Len(open) - 1 : open'[j] = open[j]
    BY <1>1, <1>7, <2>1 DEF Install, TypeOK
  <2>3. /\ open'[i].at = "active"
        /\ open'[i].kwargs = open[i].kwargs
        /\ open'[i].dist = open[i].dist
        /\ open'[i].original = open[i].original
    BY <1>3, <1>7 DEF Install, Contexts
  <2>4. Len(open[i].dist) = i - 1
    BY <1>2, <1>3 DEF StackedBy, OnTopOf, IsChainOf
  <2>5. /\ Len(current') = Len(open[i].dist) + 1
        /\ \A j \in 1 .. Len(open[i].dist) : current'[j] = open[i].dist[j]
        /\ current'[Len(open[i].dist) + 1] = open[i].kwargs
    <3>1. open[i].dist \in Seq(Kwargs) /\ open[i].kwargs \in Kwargs
      BY <1>3 DEF Contexts, Chains
    <3> QED
      BY <1>7, <3>1, AppendProperties DEF Install, PutInPlace
  <2>6. StackedBy(open', i, current')
    <3>1. i \in Nat \ {0} /\ StackedBy(open, i, current)
      BY <1>2, <2>1
    <3>2. \A j \in 1 .. i - 1 : open'[j] = open[j]
      BY <2>1, <2>2
    <3>3. open[i].at = "saved" /\ current'[i] = open[i].kwargs
      BY <1>7, <2>1, <2>4, <2>5 DEF Install
    <3> QED
      BY <2>3, <2>5, <3>1, <3>2, <3>3, InstallStacked
  <2> QED
    BY <2>1, <2>2, <2>6 DEF Stacked
<1>8. ASSUME NEW i \in DOMAIN open, Exit(i)
      PROVE  Stacked'
  <2>1. i = Len(open) /\ Len(open) \in Nat \ {0}
    BY <1>3, <1>8 DEF Exit
  <2>2. /\ Len(open') = Len(open) - 1
        /\ \A j \in 1 .. Len(open) - 1 : open'[j] = open[j]
    BY <1>1, <1>3, <1>8, <2>1, RemoveType, RemoveLast DEF Exit, TypeOK
  <2>3. StackedBy(open', Len(open) - 1, open[Len(open)].original)
    BY <1>2, <1>8, <2>1, <2>2, ExitStacked DEF Exit
  <2> QED
    BY <1>8, <2>1, <2>2, <2>3 DEF Stacked, Exit, Restore
<1>9. Stacked'
  BY <1>4, <1>5, <1>6, <1>7, <1>8 DEF Next
<1> QED
  BY <1>1, <1>9 DEF StackInv

\* Of contexts that are stacked, those that are in place are the first in the chain, and
\* a thread that is about to create a table finds all of its own among them.
LEMMA StackSuffices ==
    ASSUME StackInv
    PROVE  TablesGetOptions
<1>1. /\ Len(open) \in Nat
      /\ DOMAIN open = 1 .. Len(open)
      /\ \A i \in 1 .. Len(open) : open[i].kwargs \in Kwargs
  <2>1. open \in Seq(Contexts)
    BY DEF StackInv, TypeOK
  <2>2. \A i \in 1 .. Len(open) : open[i] \in Contexts
    BY <2>1, ElementOfSeq
  <2> QED
    BY <2>1, <2>2, LenProperties DEF Contexts
<1> DEFINE n == InPlace(open, Len(open))
<1>2. n \in Nat /\ n <= Len(open)
  BY <1>1 DEF InPlace
<1>3. DOMAIN current = 1 .. n /\ \A j \in 1 .. n : current[j] = open[j].kwargs
  BY LenProperties DEF StackInv, TypeOK, Chains, Stacked, StackedBy, IsChainOf
<1>4. \A i \in 1 .. Len(open) : open[i].at = "active" => i \in 1 .. n
  BY <1>1 DEF InPlace
<1> HIDE DEF n
<1>5. \A own \in Kwargs, o \in Options :
        \/ /\ \A i \in 1 .. n : open[i].kwargs[o] = Unset
           /\ Received(own)[o] = own[o]
        \/ \E i \in 1 .. n : /\ open[i].kwargs[o] # Unset
                            /\ Received(own)[o] = open[i].kwargs[o]
  <2> SUFFICES ASSUME NEW own \in Kwargs, NEW o \in Options
               PROVE  \/ /\ \A i \in 1 .. n : open[i].kwargs[o] = Unset
                         /\ Received(own)[o] = own[o]
                      \/ \E i \in 1 .. n : /\ open[i].kwargs[o] # Unset
                                          /\ Received(own)[o] = open[i].kwargs[o]
    OBVIOUS
  <2> DEFINE setting == {i \in DOMAIN current : current[i][o] # Unset}
             first   == CHOOSE i \in setting : \A j \in setting : i <= j
  <2>1. Received(own)[o] = IF setting = {} THEN own[o] ELSE current[first][o]
    BY DEF Received, ReceivedBy
  <2>2. CASE setting = {}
    BY <1>3, <2>1, <2>2
  <2>3. CASE setting # {}
    <3>1. setting \subseteq Nat
      BY <1>2, <1>3
    <3>2. first \in setting
      BY <2>3, <3>1, LeastExists
    <3> QED
      BY <1>3, <2>1, <2>3, <3>2
  <2> QED
    BY <2>2, <2>3
<1>6. TablesGetOptions
  <2> SUFFICES ASSUME NEW t \in Threads, NEW own \in Kwargs, NEW o \in Options, Ready(t),
                      NEW i \in DOMAIN open, open[i].thread = t, open[i].kwargs[o] # Unset
               PROVE  Received(own)[o] \in SetBy(DOMAIN open, o)
    BY DEF TablesGetOptions, SetBy
  <2>1. i \in 1 .. n
    BY <1>1, <1>4 DEF Ready
  <2>2. PICK j \in 1 .. n : /\ open[j].kwargs[o] # Unset
                            /\ Received(own)[o] = open[j].kwargs[o]
    BY <1>5, <2>1
  <2> QED
    BY <1>1, <1>2, <2>2 DEF SetBy
<1> QED
  BY <1>6

\* At the start no context is open and nothing is in place.
LEMMA StackInit == Init => StackInv
<1> SUFFICES ASSUME Init
             PROVE  StackInv
  OBVIOUS
<1>1. TypeOK
  BY EmptySeq DEF Init, TypeOK, Chains
<1>2. StackedBy(<<>>, 0, <<>>)
  BY DEF StackedBy, IsChainOf, InPlace
<1> QED
  BY <1>1, <1>2 DEF Init, StackInv, Stacked

\* As long as contexts nest, in one thread or in several, a table created inside of them
\* has the options they set.
THEOREM OptionsAreReceived ==
    ASSUME Nested
    PROVE  Spec => []TablesGetOptions
<1>1. Init => StackInv
  BY StackInit
<1>2. StackInv /\ [Next]_vars => StackInv'
  BY StackStep
<1>3. StackInv => TablesGetOptions
  BY StackSuffices
<1> QED
  BY <1>1, <1>2, <1>3, PTL DEF Spec

-----------------------------------------------------------------------------
(* The promise of ScopedOptions.                                           *)

\* The element that is chosen as the least one is the least one.
LEMMA LeastIsChosen ==
    ASSUME NEW I \in SUBSET Nat, NEW i \in I, \A j \in I : i <= j
    PROVE  (CHOOSE k \in I : \A j \in I : k <= j) = i
<1>1. \A k \in I : (\A j \in I : k <= j) => k = i
  OBVIOUS
<1> QED
  BY <1>1

\* An option is given by the oldest function that adds it.
LEMMA OldestDecides ==
    ASSUME NEW chain \in Chains, NEW own, NEW o \in Options
    PROVE  /\ (\A i \in 1 .. Len(chain) : chain[i][o] = Unset)
                => ReceivedBy(chain, own)[o] = own[o]
           /\ \A i \in 1 .. Len(chain) :
                /\ chain[i][o] # Unset
                /\ \A j \in 1 .. i - 1 : chain[j][o] = Unset
                => ReceivedBy(chain, own)[o] = chain[i][o]
<1> DEFINE setting == {i \in DOMAIN chain : chain[i][o] # Unset}
<1>1. DOMAIN chain = 1 .. Len(chain) /\ Len(chain) \in Nat
  BY LenProperties DEF Chains
<1>2. ReceivedBy(chain, own)[o] =
        IF setting = {} THEN own[o]
        ELSE chain[CHOOSE i \in setting : \A j \in setting : i <= j][o]
  BY DEF ReceivedBy
<1>3. ASSUME \A i \in 1 .. Len(chain) : chain[i][o] = Unset
      PROVE  ReceivedBy(chain, own)[o] = own[o]
  BY <1>1, <1>2, <1>3
<1>4. ASSUME NEW i \in 1 .. Len(chain), chain[i][o] # Unset,
             \A j \in 1 .. i - 1 : chain[j][o] = Unset
      PROVE  ReceivedBy(chain, own)[o] = chain[i][o]
  <2>1. setting \in SUBSET Nat /\ i \in setting
    BY <1>1, <1>4
  <2>2. \A j \in setting : i <= j
    BY <1>1, <1>4
  <2>3. (CHOOSE k \in setting : \A j \in setting : k <= j) = i
    BY <2>1, <2>2, LeastIsChosen
  <2> QED
    BY <1>2, <2>1, <2>3
<1> QED
  BY <1>3, <1>4

\* A chain of functions either leaves an option alone or has one that adds it first.
LEMMA OldestExists ==
    ASSUME NEW chain \in Chains, NEW o \in Options
    PROVE  \/ \A i \in 1 .. Len(chain) : chain[i][o] = Unset
           \/ \E i \in 1 .. Len(chain) :
                chain[i][o] # Unset /\ \A j \in 1 .. i - 1 : chain[j][o] = Unset
<1> DEFINE setting == {i \in 1 .. Len(chain) : chain[i][o] # Unset}
<1>1. Len(chain) \in Nat /\ setting \subseteq Nat
  BY LenProperties DEF Chains
<1>2. CASE setting = {}
  BY <1>2
<1>3. CASE setting # {}
  <2>1. PICK i \in setting : \A j \in setting : i <= j
    BY <1>1, <1>3, LeastExists
  <2>2. ASSUME NEW j \in 1 .. i - 1
        PROVE  chain[j][o] = Unset
    BY <1>1, <2>1
  <2> QED
    BY <2>1, <2>2
<1> QED
  BY <1>2, <1>3

\* A function that is added to a chain overrides what the chain is given.
LEMMA OneMoreOverrides ==
    ASSUME NEW chain \in Chains, NEW kwargs \in Kwargs
    PROVE  Gets(Append(chain, kwargs)) =
               [own \in Kwargs |-> Gets(chain)[Promise!Overridden(own, kwargs)]]
<1> DEFINE more == Append(chain, kwargs)
<1>1. /\ more \in Chains /\ Len(chain) \in Nat /\ Len(more) = Len(chain) + 1
      /\ more[Len(chain) + 1] = kwargs
      /\ \A i \in 1 .. Len(chain) : more[i] = chain[i]
  BY AppendProperties, LenProperties DEF Chains
<1> HIDE DEF more
<1>2. ASSUME NEW own \in Kwargs
      PROVE  ReceivedBy(more, own) = ReceivedBy(chain, Promise!Overridden(own, kwargs))
  <2> DEFINE over == Promise!Overridden(own, kwargs)
  <2>1. ASSUME NEW o \in Options
        PROVE  ReceivedBy(more, own)[o] = ReceivedBy(chain, over)[o]
    <3>1. over[o] = IF kwargs[o] = Unset THEN own[o] ELSE kwargs[o]
      BY DEF Promise!Overridden, Kwargs
    <3> HIDE DEF over
    <3>2. CASE \A i \in 1 .. Len(chain) : chain[i][o] = Unset
      <4>1. ReceivedBy(chain, over)[o] = over[o]
        BY <3>2, OldestDecides
      <4>2. CASE kwargs[o] = Unset
        <5>1. \A i \in 1 .. Len(more) : more[i][o] = Unset
          BY <1>1, <3>2, <4>2
        <5> QED
          BY <1>1, <3>1, <4>1, <4>2, <5>1, OldestDecides
      <4>3. CASE kwargs[o] # Unset
        <5>1. /\ Len(chain) + 1 \in 1 .. Len(more) /\ more[Len(chain) + 1][o] # Unset
              /\ \A j \in 1 .. (Len(chain) + 1) - 1 : more[j][o] = Unset
          BY <1>1, <3>2, <4>3
        <5>2. ReceivedBy(more, own)[o] = more[Len(chain) + 1][o]
          BY <1>1, <5>1, OldestDecides
        <5> QED
          BY <1>1, <3>1, <4>1, <4>3, <5>2
      <4> QED
        BY <4>2, <4>3
    <3>3. ASSUME NEW i \in 1 .. Len(chain), chain[i][o] # Unset,
                 \A j \in 1 .. i - 1 : chain[j][o] = Unset
          PROVE  ReceivedBy(more, own)[o] = ReceivedBy(chain, over)[o]
      <4>1. ReceivedBy(chain, over)[o] = chain[i][o]
        BY <3>3, OldestDecides
      <4>2. /\ i \in 1 .. Len(more) /\ more[i][o] # Unset
            /\ \A j \in 1 .. i - 1 : more[j][o] = Unset
        BY <1>1, <3>3
      <4>3. ReceivedBy(more, own)[o] = more[i][o]
        BY <1>1, <4>2, OldestDecides
      <4> QED
        BY <1>1, <4>1, <4>3
    <3> QED
      BY <3>2, <3>3, OldestExists
  <2>2. /\ ReceivedBy(more, own) = [o \in Options |-> ReceivedBy(more, own)[o]]
        /\ ReceivedBy(chain, over) = [o \in Options |-> ReceivedBy(chain, over)[o]]
    BY DEF ReceivedBy
  <2> QED
    BY <2>1, <2>2
<1>3. \A own \in Kwargs : Promise!Overridden(own, kwargs) \in Kwargs
  BY DEF Promise!Overridden, Kwargs
<1> QED
  BY <1>2, <1>3 DEF Gets, more

\* The options that the first n contexts add, the oldest first.
KwargsOf(contexts, n) == [i \in 1 .. n |-> contexts[i].kwargs]

\* All of n contexts are in place, or all but the last.
LEMMA AllButTheLast ==
    ASSUME NEW s, NEW n \in Nat
    PROVE  /\ n = 0 \/ s[n].at = "active" => InPlace(s, n) = n
           /\ n # 0 /\ s[n].at # "active" => InPlace(s, n) = n - 1
BY DEF InPlace

\* The contexts before the last are contexts, and none of them is the last.
LEMMA EarlierOnes ==
    ASSUME NEW l \in Nat
    PROVE  \A j \in 1 .. l - 1 : j \in 1 .. l /\ j # l
OBVIOUS

\* What comes before the last comes at most as late as the one before it.
LEMMA BelowTheLast ==
    ASSUME NEW l \in Nat, NEW j \in 1 .. l, j # l, NEW n, n = l \/ n = l - 1
    PROVE  j <= n
OBVIOUS

\* Of contexts that are stacked, those in place are the first, and their functions the chain.
LEMMA StackedView ==
    ASSUME StackInv
    PROVE  LET n == InPlace(open, Len(open)) IN
           /\ n \in Nat /\ n <= Len(open)
           /\ current = KwargsOf(open, n)
           /\ {j \in DOMAIN open : open[j].at = "active"} = 1 .. n
<1> DEFINE n == InPlace(open, Len(open))
<1>1. Len(open) \in Nat /\ DOMAIN open = 1 .. Len(open)
  BY LenProperties DEF StackInv, TypeOK
<1>2. n \in Nat /\ n <= Len(open)
  BY <1>1 DEF InPlace
<1>3. /\ \A i \in 1 .. Len(open) : i # Len(open) => open[i].at = "active"
      /\ Len(current) = n /\ \A j \in 1 .. n : current[j] = open[j].kwargs
  BY DEF StackInv, Stacked, StackedBy, IsChainOf
<1>4. current = KwargsOf(open, n)
  <2>1. current = [j \in 1 .. n |-> current[j]]
    BY <1>3, LenProperties DEF StackInv, TypeOK, Chains
  <2> QED
    BY <1>3, <2>1 DEF KwargsOf
<1>5. {j \in DOMAIN open : open[j].at = "active"} = 1 .. n
  <2>1. ASSUME NEW j \in 1 .. Len(open)
        PROVE  open[j].at = "active" <=> j <= n
    <3>1. CASE j = Len(open)
      <4>1. Len(open) # 0 /\ Len(open) \in Nat
        BY <1>1
      <4>2. CASE open[j].at = "active"
        <5>1. n = Len(open)
          BY <3>1, <4>2 DEF InPlace
        <5> HIDE DEF n
        <5> QED
          BY <3>1, <4>1, <4>2, <5>1
      <4>3. CASE open[j].at # "active"
        <5>1. n = Len(open) - 1
          BY <3>1, <4>1, <4>3 DEF InPlace
        <5> HIDE DEF n
        <5> QED
          BY <3>1, <4>1, <4>3, <5>1
      <4> QED
        BY <4>2, <4>3
    <3>2. CASE j # Len(open)
      <4>1. open[j].at = "active"
        BY <1>1, <1>3, <3>2
      <4>2. n = Len(open) \/ n = Len(open) - 1
        BY DEF InPlace
      <4>3. j <= n
        BY <1>1, <3>2, <4>2, BelowTheLast
      <4> QED
        BY <4>1, <4>3
    <3> QED
      BY <3>1, <3>2
  <2> HIDE DEF n
  <2> QED
    BY <1>1, <1>2, <2>1
<1> QED
  BY <1>2, <1>4, <1>5

\* What n contexts do to tables, and what was before each of them.
GetsWithin(contexts, n)  == Gets(KwargsOf(contexts, n))
OuterWithin(contexts, n) == [i \in 1 .. n |-> GetsWithin(contexts, i - 1)]

\* The promise sees the contexts that are in place, as if nothing else had happened.
IsSeen ==
    LET n == InPlace(open, Len(open)) IN
    /\ Gets(current) = GetsWithin(open, n)
    /\ [i \in {j \in DOMAIN open : open[j].at = "active"} |-> Within(i - 1)]
            = OuterWithin(open, n)

\* It does so when contexts are stacked.
LEMMA StackIsSeen == StackInv => IsSeen
BY StackedView DEF IsSeen, GetsWithin, OuterWithin, Within, KwargsOf

\* What the promise sees of contexts depends on their options only.
LEMMA SameOptions ==
    ASSUME NEW s, NEW t, NEW n \in Nat, \A i \in 1 .. n : s[i].kwargs = t[i].kwargs
    PROVE  GetsWithin(s, n) = GetsWithin(t, n) /\ OuterWithin(s, n) = OuterWithin(t, n)
<1>1. ASSUME NEW m \in 0 .. n
      PROVE  KwargsOf(s, m) = KwargsOf(t, m)
  BY DEF KwargsOf
<1>2. \A m \in 0 .. n : GetsWithin(s, m) = GetsWithin(t, m)
  BY <1>1 DEF GetsWithin
<1>3. \A i \in 1 .. n : i - 1 \in 0 .. n
  OBVIOUS
<1> QED
  BY <1>2, <1>3 DEF OuterWithin

\* One context more is one scope more.
LEMMA OneMoreScope ==
    ASSUME NEW s, NEW n \in Nat, \A i \in 1 .. n + 1 : s[i].kwargs \in Kwargs
    PROVE  /\ OuterWithin(s, n + 1) = Append(OuterWithin(s, n), GetsWithin(s, n))
           /\ GetsWithin(s, n + 1) =
                [own \in Kwargs |->
                    GetsWithin(s, n)[Promise!Overridden(own, s[n + 1].kwargs)]]
<1>1. OuterWithin(s, n + 1) = Append(OuterWithin(s, n), GetsWithin(s, n))
  <2> DEFINE S == {GetsWithin(s, i) : i \in 0 .. n}
  <2>1. \A i \in 1 .. n + 1 : i - 1 \in 0 .. n
    OBVIOUS
  <2>2. OuterWithin(s, n) \in Seq(S) /\ Len(OuterWithin(s, n)) = n
    BY <2>1 DEF OuterWithin
  <2>3. OuterWithin(s, n + 1) \in Seq(S) /\ Len(OuterWithin(s, n + 1)) = n + 1
    BY <2>1 DEF OuterWithin
  <2>4. /\ Append(OuterWithin(s, n), GetsWithin(s, n)) \in Seq(S)
        /\ Len(Append(OuterWithin(s, n), GetsWithin(s, n))) = n + 1
        /\ \A i \in 1 .. n :
              Append(OuterWithin(s, n), GetsWithin(s, n))[i] = OuterWithin(s, n)[i]
        /\ Append(OuterWithin(s, n), GetsWithin(s, n))[n + 1] = GetsWithin(s, n)
    BY <2>2, AppendProperties
  <2>5. \A i \in 1 .. n + 1 : OuterWithin(s, n + 1)[i] = GetsWithin(s, i - 1)
    BY DEF OuterWithin
  <2>6. \A i \in 1 .. n : OuterWithin(s, n)[i] = GetsWithin(s, i - 1)
    BY DEF OuterWithin
  <2>7. \A i \in 1 .. n + 1 :
          OuterWithin(s, n + 1)[i] = Append(OuterWithin(s, n), GetsWithin(s, n))[i]
    BY <2>4, <2>5, <2>6
  <2> HIDE DEF S
  <2> QED
    BY <2>3, <2>4, <2>7, SeqEqual
<1>2. KwargsOf(s, n) \in Chains /\ Len(KwargsOf(s, n)) = n
  BY DEF KwargsOf, Chains
<1>3. KwargsOf(s, n + 1) = Append(KwargsOf(s, n), s[n + 1].kwargs)
  <2>1. KwargsOf(s, n + 1) \in Seq(Kwargs) /\ Len(KwargsOf(s, n + 1)) = n + 1
    BY DEF KwargsOf
  <2>2. s[n + 1].kwargs \in Kwargs
    OBVIOUS
  <2>3. /\ Append(KwargsOf(s, n), s[n + 1].kwargs) \in Seq(Kwargs)
        /\ Len(Append(KwargsOf(s, n), s[n + 1].kwargs)) = n + 1
        /\ \A i \in 1 .. n :
              Append(KwargsOf(s, n), s[n + 1].kwargs)[i] = KwargsOf(s, n)[i]
        /\ Append(KwargsOf(s, n), s[n + 1].kwargs)[n + 1] = s[n + 1].kwargs
    BY <1>2, <2>2, AppendProperties DEF Chains
  <2>4. \A i \in 1 .. n + 1 :
          KwargsOf(s, n + 1)[i] = Append(KwargsOf(s, n), s[n + 1].kwargs)[i]
    BY <2>3 DEF KwargsOf
  <2> QED
    BY <2>1, <2>3, <2>4, SeqEqual
<1>4. Gets(Append(KwargsOf(s, n), s[n + 1].kwargs)) =
        [own \in Kwargs |->
            Gets(KwargsOf(s, n))[Promise!Overridden(own, s[n + 1].kwargs)]]
  <2>1. s[n + 1].kwargs \in Kwargs
    OBVIOUS
  <2> QED
    BY <1>2, <2>1, OneMoreOverrides
<1> QED
  BY <1>1, <1>3, <1>4 DEF GetsWithin

\* Every step of contexts that nest is one of the promise, or changes nothing of it.
LEMMA PromiseStep ==
    ASSUME Nested, StackInv, IsSeen, IsSeen', [Next]_vars
    PROVE  [Promise!Next]_(Promise!vars)
<1> DEFINE n == InPlace(open, Len(open))
           m == InPlace(open', Len(open'))
           view == [i \in {j \in DOMAIN open : open[j].at = "active"} |-> Within(i - 1)]
<1>1. TypeOK /\ StackedBy(open, Len(open), current)
  BY DEF StackInv, Stacked
<1>2. Len(open) \in Nat /\ DOMAIN open = 1 .. Len(open)
  BY <1>1, LenProperties DEF TypeOK
<1>3. \A i \in 1 .. Len(open) : open[i] \in Contexts
  BY <1>1, ElementOfSeq DEF TypeOK
<1>4. \A i \in 1 .. Len(open) : open[i].kwargs \in Kwargs
  BY <1>3 DEF Contexts
<1>5. Gets(current) = GetsWithin(open, n) /\ view = OuterWithin(open, n)
  BY DEF IsSeen
<1>6. Gets(current') = GetsWithin(open', m) /\ view' = OuterWithin(open', m)
  BY DEF IsSeen
<1>7. n \in Nat /\ n <= Len(open)
  BY <1>2 DEF InPlace
<1> HIDE DEF view
<1>8. ASSUME m = n, \A i \in 1 .. n : open'[i].kwargs = open[i].kwargs
      PROVE  UNCHANGED <<Gets(current), view>>
  <2>1. GetsWithin(open', n) = GetsWithin(open, n) /\ OuterWithin(open', n) = OuterWithin(open, n)
    BY <1>7, <1>8, SameOptions
  <2> QED
    BY <1>5, <1>6, <1>8, <2>1
<1>9. CASE UNCHANGED vars
  BY <1>9 DEF vars, Promise!vars, view, Within
<1>10. ASSUME NEW t \in Threads, NEW kwargs \in Kwargs, Enter(t, kwargs)
       PROVE  UNCHANGED <<Gets(current), view>>
  <2>1. PICK new : open' = Append(open, new) /\ new \in Contexts /\ new.at = "captured"
    <3>1. [thread |-> t, kwargs |-> kwargs, at |-> "captured",
           dist |-> current, original |-> <<>>] \in Contexts
      BY <1>1, EmptySeq DEF TypeOK, Contexts, Steps, Chains
    <3> QED
      BY <1>10, <3>1 DEF Enter
  <2>2. /\ Len(open') = Len(open) + 1 /\ open'[Len(open) + 1] = new
        /\ \A i \in 1 .. Len(open) : open'[i] = open[i]
    BY <1>1, <2>1 DEF TypeOK
  <2>3. \A i \in 1 .. Len(open) : open[i].at = "active"
    <3>1. \A i \in 1 .. Len(open) : open[i].thread \in Threads
      BY <1>3 DEF Contexts
    <3> QED
      BY <1>2, <1>10, <3>1 DEF Enter, Ready
  <2>4. m = n
    BY <1>2, <2>1, <2>2, <2>3 DEF InPlace
  <2> QED
    BY <1>7, <1>8, <2>2, <2>4
<1>11. ASSUME NEW i \in DOMAIN open, Save(i)
       PROVE  UNCHANGED <<Gets(current), view>>
  <2>1. i = Len(open) /\ i \in 1 .. Len(open) /\ open[i].at = "captured"
    BY <1>1, <1>2, <1>11 DEF Save, StackedBy
  <2>2. /\ Len(open') = Len(open) /\ open'[i].at = "saved"
        /\ \A j \in 1 .. Len(open) : open'[j].kwargs = open[j].kwargs
    BY <1>1, <1>2, <1>3, <1>11, <2>1 DEF Save, TypeOK, Contexts
  <2>3. m = n
    BY <1>2, <2>1, <2>2 DEF InPlace
  <2> QED
    BY <1>7, <1>8, <2>2, <2>3
<1>12. ASSUME NEW i \in DOMAIN open, Install(i)
       PROVE  Promise!Next
  <2>1. i = Len(open) /\ i \in 1 .. Len(open) /\ open[i].at = "saved"
    BY <1>1, <1>2, <1>12 DEF Install, StackedBy
  <2>2. /\ Len(open') = Len(open) /\ open'[i].at = "active"
        /\ \A j \in 1 .. Len(open) : open'[j].kwargs = open[j].kwargs
    BY <1>1, <1>2, <1>3, <1>12, <2>1 DEF Install, TypeOK, Contexts
  <2>3. m = n + 1 /\ m = Len(open)
    <3>1. Len(open) \in Nat /\ Len(open) # 0 /\ open[Len(open)].at # "active"
      BY <1>2, <2>1
    <3>2. n = Len(open) - 1
      BY <3>1, AllButTheLast
    <3>3. Len(open') = Len(open) /\ open'[Len(open)].at = "active"
      BY <2>1, <2>2
    <3>4. InPlace(open', Len(open)) = Len(open)
      BY <3>1, <3>3, AllButTheLast
    <3>5. m = Len(open)
      BY <3>3, <3>4
    <3> HIDE DEF n, m
    <3> QED
      BY <3>1, <3>2, <3>5
  <2>4. GetsWithin(open', m) = GetsWithin(open, m) /\ OuterWithin(open', m) = OuterWithin(open, m)
    BY <1>2, <2>2, <2>3, SameOptions
  <2>5. /\ OuterWithin(open, m) = Append(OuterWithin(open, n), GetsWithin(open, n))
        /\ GetsWithin(open, m) =
              [own \in Kwargs |-> GetsWithin(open, n)[Promise!Overridden(own, open[m].kwargs)]]
    BY <1>4, <1>7, <2>3, OneMoreScope
  <2>6. open[m].kwargs \in Kwargs
    BY <1>4, <2>1, <2>3
  <2> HIDE DEF n, m
  <2>7. Promise!Open(open[m].kwargs)
    BY <1>5, <1>6, <2>4, <2>5 DEF Promise!Open, view
  <2> QED
    BY <2>6, <2>7 DEF Promise!Next, Promise!Open
<1>13. ASSUME NEW i \in DOMAIN open, Exit(i)
       PROVE  Promise!Next
  <2>1. i = Len(open) /\ i \in 1 .. Len(open) /\ open[i].at = "active"
    BY <1>2, <1>13 DEF Exit
  <2>2. /\ Len(open') = Len(open) - 1
        /\ \A j \in 1 .. Len(open) - 1 : open'[j] = open[j]
    <3>1. open \in Seq(Contexts) /\ Len(open) \in 1 .. Len(open) /\ Len(open) # 0
      BY <1>1, <1>2, <2>1 DEF TypeOK
    <3>2. open' = RemoveAt(open, Len(open))
      BY <1>13, <2>1 DEF Exit
    <3> QED
      BY <3>1, <3>2, RemoveType, RemoveLast
  <2>3. \A j \in 1 .. Len(open) - 1 : open[j].at = "active"
    <3>1. \A j \in 1 .. Len(open) : j # Len(open) => open[j].at = "active"
      BY <1>1 DEF StackedBy
    <3>2. \A j \in 1 .. Len(open) - 1 : j \in 1 .. Len(open) /\ j # Len(open)
      BY <1>2, EarlierOnes
    <3> QED
      BY <3>1, <3>2
  <2>4. n = Len(open) /\ m = Len(open) - 1 /\ m \in Nat /\ n = m + 1
    <3>1. n = Len(open)
      BY <1>2, <2>1, AllButTheLast
    <3>2. Len(open) - 1 \in Nat /\ Len(open') = Len(open) - 1
      BY <1>2, <2>1, <2>2
    <3>3. Len(open') = 0 \/ open'[Len(open')].at = "active"
      <4>1. Len(open') # 0 => Len(open') \in 1 .. Len(open) - 1
        BY <3>2
      <4> QED
        BY <2>2, <2>3, <4>1
    <3>4. m = Len(open')
      BY <3>2, <3>3, AllButTheLast
    <3> HIDE DEF n, m
    <3> QED
      BY <1>2, <3>1, <3>2, <3>4
  <2>5. GetsWithin(open', m) = GetsWithin(open, m) /\ OuterWithin(open', m) = OuterWithin(open, m)
    BY <2>2, <2>4, SameOptions
  <2>6. OuterWithin(open, n) = Append(OuterWithin(open, m), GetsWithin(open, m))
    BY <1>4, <2>4, OneMoreScope
  <2> HIDE DEF n, m
  <2>7. Promise!Close
    BY <1>5, <1>6, <2>5, <2>6 DEF Promise!Close, view
  <2> QED
    BY <2>7 DEF Promise!Next
<1>14. ASSUME UNCHANGED <<Gets(current), view>>
       PROVE  UNCHANGED Promise!vars
  BY <1>14 DEF Promise!vars, view
<1> QED
  BY <1>9, <1>10, <1>11, <1>12, <1>13, <1>14 DEF Next

\* As long as contexts nest, in one thread or in several, the options of tables have dynamic
\* scope: whatever is opened inside of a context, what tables get after it is what they got before.
THEOREM PromiseIsKept ==
    ASSUME Nested
    PROVE  Spec => ImplementsScopedOptions
<1>1. Init => StackInv
  BY StackInit
<1>2. StackInv /\ [Next]_vars => StackInv'
  BY StackStep
<1>3. Init => Promise!Init
  <2> SUFFICES ASSUME Init
               PROVE  Promise!Init
    OBVIOUS
  <2>1. current = <<>> /\ open = <<>>
    BY DEF Init
  <2>2. \A own \in Kwargs : ReceivedBy(<<>>, own) = own
    BY DEF ReceivedBy, Kwargs
  <2>3. Gets(current) = [own \in Kwargs |-> own]
    BY <2>1, <2>2 DEF Gets
  <2>4. [i \in {j \in DOMAIN open : open[j].at = "active"} |-> Within(i - 1)] = <<>>
    BY <2>1
  <2> QED
    BY <2>3, <2>4 DEF Promise!Init
<1>4. StackInv /\ IsSeen /\ IsSeen' /\ [Next]_vars
        => [Nested => [Promise!Next]_(Promise!vars)]_vars
  BY PromiseStep
<1> QED
  BY <1>1, <1>2, <1>3, <1>4, StackIsSeen, PTL DEF Spec, ImplementsScopedOptions
=============================================================================
