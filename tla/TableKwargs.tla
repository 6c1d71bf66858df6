---------------------------- MODULE TableKwargs ----------------------------
(***************************************************************************)
(* `table_kwargs` (support/pandas.py): a context manager that adds options *)
(* to the tables that are created while it is open.                        *)
(*                                                                         *)
(* It puts a function in the place of SQLAlchemy's `Table._new` (`_init`   *)
(* before version 2.0).  The function adds the options and calls the one   *)
(* that was there when the context was entered.  The class belongs to the  *)
(* process, not to the thread, and between reading the old function and    *)
(* storing the new one another thread may run.                             *)
(***************************************************************************)
EXTENDS Naturals, Sequences, SequencesExt

CONSTANTS
    Threads,
    Options,     \* the dialect options of a table
    Settings,    \* what an option may be set to
    Unset,       \* the option is not among the keyword arguments
    MaxPatches,  \* bound: contexts open, and functions in a chain
    Nested       \* contexts of different threads open and close like parentheses

ASSUME OptionsAssumption == Unset \notin Settings
ASSUME NestedAssumption  == Nested \in BOOLEAN
ASSUME BoundAssumption   == MaxPatches \in Nat

VARIABLES
    current,  \* `Table._new`: the options its functions add, the newest function last
    open      \* the contexts that are open, the newest last

vars == <<current, open>>

Kwargs == [Options -> Settings \cup {Unset}]
Chains == Seq(Kwargs)
Steps  == {"captured",  \* the function to call is known
           "saved",     \* the function to put back is known as well
           "active"}    \* the new function is in place
Contexts == [thread : Threads, kwargs : Kwargs, at : Steps, dist : Chains, original : Chains]

\* Every variable keeps its type: what is in the place of Table._new is a function.
TypeOK ==
    /\ current \in Chains
    /\ open    \in Seq(Contexts)

Init ==
    /\ current = <<>>
    /\ open    = <<>>

\* The context thread t entered last.
IsNewestOf(t, i) ==
    /\ open[i].thread = t
    /\ \A j \in DOMAIN open : j > i => open[j].thread # t

Ready(t) == \A i \in DOMAIN open : open[i].thread = t => open[i].at = "active"

\* `with table_kwargs(...)`: the first read of `Table._new`.
Enter(t, kwargs) ==
    /\ Len(open) < MaxPatches
    /\ Len(current) < MaxPatches
    /\ Ready(t)
    /\ Nested => \A u \in Threads : Ready(u)
    /\ open' = Append(open, [thread |-> t, kwargs |-> kwargs,
                             at |-> "captured", dist |-> current, original |-> <<>>])
    /\ UNCHANGED current

\* `patch` looks up what it replaces: the second read.
Save(i) ==
    /\ open[i].at = "captured"
    /\ open' = [open EXCEPT ![i].at = "saved", ![i].original = current]
    /\ UNCHANGED current

\* Faulty variant: the new function calls SQLAlchemy's own, not the one it found.
PutInPlaceAlone(i) == current' = <<open[i].kwargs>>

\* The new function adds its options and calls the one that was read first.
PutInPlace(i) == current' = Append(open[i].dist, open[i].kwargs)

\* `patch` puts the new function in place.
Install(i) ==
    /\ open[i].at = "saved"
    /\ open'    = [open EXCEPT ![i].at = "active"]
    /\ PutInPlace(i)

\* Faulty variant: the context is put back rather than the function it replaced.
RestoreContext(i) == current' = <<open[i]>>

\* `patch` puts back what it replaced, whatever is in place by now.
Restore(i) == current' = open[i].original

\* The thread's newest context is left, by its end or by an exception.
Exit(i) ==
    /\ open[i].at = "active"
    /\ IsNewestOf(open[i].thread, i)
    /\ Nested => i = Len(open)
    /\ Restore(i)
    /\ open' = RemoveAt(open, i)

Next ==
    \/ \E t \in Threads, kwargs \in Kwargs : Enter(t, kwargs)
    \/ \E i \in DOMAIN open : Save(i) \/ Install(i) \/ Exit(i)

Spec == Init /\ [][Next]_vars

-----------------------------------------------------------------------------
(* Tables.                                                                 *)

\* What the functions in `chain` make of the options `own`.  Every function overrides what
\* it is given and calls the one before it: the oldest has the last word.
ReceivedBy(chain, own) ==
    [o \in Options |->
        LET setting == {i \in DOMAIN chain : chain[i][o] # Unset} IN
        IF setting = {} THEN own[o]
        ELSE chain[CHOOSE i \in setting : \A j \in setting : i <= j][o]]

\* The options a table gets that is created now with the options `own`.
Received(own) == ReceivedBy(current, own)

\* What the contexts in I set option o to.
SetBy(I, o) == {open[i].kwargs[o] : i \in I} \ {Unset}

\* A table that a thread creates inside of its contexts has every option that they set,
\* with a value that an open context gave (table_kwargs, `kw.update`).
TablesGetOptions ==
    \A t \in Threads, own \in Kwargs, o \in Options :
        LET mine == {i \in DOMAIN open : open[i].thread = t} IN
        Ready(t) /\ SetBy(mine, o) # {}
            => Received(own)[o] \in SetBy(DOMAIN open, o)

\* What tables get within functions that add these options, and within the first n contexts.
Gets(chain) == [own \in Kwargs |-> ReceivedBy(chain, own)]
Within(n)   == Gets([i \in 1 .. n |-> open[i].kwargs])

Promise == INSTANCE ScopedOptions WITH
    gets  <- Gets(current),
    outer <- [i \in {j \in DOMAIN open : open[j].at = "active"} |-> Within(i - 1)]

\* Contexts that nest, in one thread or in several, implement the promise, ScopedOptions: a
\* context opens its scope when its function is in place, and closes it when it is left.
ImplementsScopedOptions ==
    /\ Promise!Init
    /\ [][Nested => [Promise!Next]_(Promise!vars)]_vars
=============================================================================
