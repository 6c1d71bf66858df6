---------------------------- MODULE SharedColumn ----------------------------
(***************************************************************************)
(* What the types of the dialect promise of a column: its sessions share a *)
(* value, read it, change what they see of it and store what they changed, *)
(* and no conversion is seen on the way.                                   *)
(*                                                                         *)
(* A session may store what is unchanged, but never leaves a change behind *)
(* unless its transaction fails.                                           *)
(***************************************************************************)
CONSTANTS
    Sessions,
    Nothing,   \* the value that is none
    Hidden,    \* values that are read as Nothing
    Unknown    \* the session has not read the column, or has lost track of what it read

VARIABLES
    column,    \* the value
    view,      \* view[s]: what the session sees
    known,     \* known[s]: what the session read or stored last
    pending,   \* pending[s]: the session's next commit stores its view
    others     \* what other clients may store; it never changes

vars == <<column, view, known, pending, others>>

Init ==
    /\ column  = Nothing
    /\ view    = [s \in Sessions |-> Unknown]
    /\ known   = [s \in Sessions |-> Unknown]
    /\ pending = [s \in Sessions |-> FALSE]

Fetch(s) ==
    /\ view[s] = Unknown
    /\ \E seen \in {column} \cup (IF column \in Hidden THEN {Nothing} ELSE {}) :
        /\ view'  = [view  EXCEPT ![s] = seen]
        /\ known' = [known EXCEPT ![s] = seen]
    /\ UNCHANGED <<column, pending>>

\* The view becomes any value.  Nothing is pending only if it is the known one.
Change(s) ==
    /\ view' = [view EXCEPT ![s] = view'[s]]
    /\ \/ /\ pending' = [pending EXCEPT ![s] = TRUE]
          /\ \E last \in {known[s], Unknown} : known' = [known EXCEPT ![s] = last]
       \/ /\ view'[s] = known[s]
          /\ pending' = [pending EXCEPT ![s] = FALSE]
          /\ UNCHANGED known
    /\ UNCHANGED column

Forgets(s) ==
    /\ view'    = [view    EXCEPT ![s] = Unknown]
    /\ known'   = [known   EXCEPT ![s] = Unknown]
    /\ pending' = [pending EXCEPT ![s] = FALSE]

Keeps(s) ==
    /\ known'   = [known   EXCEPT ![s] = view[s]]
    /\ pending' = [pending EXCEPT ![s] = FALSE]
    /\ UNCHANGED view

Commit(s) ==
    /\ column' = IF pending[s] THEN view[s] ELSE column
    /\ Forgets(s) \/ Keeps(s)

\* What was pending is stored or not, and nobody knows.
Fail(s) ==
    /\ pending[s]
    /\ column' \in {column, view[s]}
    /\ Forgets(s)

Rollback(s) == Forgets(s) /\ UNCHANGED column

\* Another client stores a value.
Elsewhere ==
    /\ column' \in others
    /\ UNCHANGED <<view, known, pending>>

Next ==
    /\ \/ \E s \in Sessions :
            Fetch(s) \/ Change(s) \/ Commit(s) \/ Fail(s) \/ Rollback(s)
       \/ Elsewhere
    /\ UNCHANGED others

Spec == Init /\ [][Next]_vars
=============================================================================
