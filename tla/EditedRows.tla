----------------------------- MODULE EditedRows -----------------------------
(***************************************************************************)
(* What flushes promise a session that forgets its rows with each of them, *)
(* in a database without transactions: a row is stored by one step, with   *)
(* all of the session's edits and nothing else, and a flush that fails has *)
(* stored some of its rows.  Nothing but a flush stores an edit.           *)
(***************************************************************************)
CONSTANTS
    Rows, Fields,
    Stamped,  \* the fields that take a value of their own when a row is stored
    Unknown   \* the session has not read the row

VARIABLES
    rows,     \* the rows
    view,     \* view[r]: row r as the session sees it
    edited,   \* edited[r]: the fields it has edited
    writing,  \* the rows that a flush has still to store
    failed    \* the last flush failed

vars == <<rows, view, edited, writing, failed>>

Forgotten ==
    /\ view'    = [r \in Rows |-> Unknown]
    /\ edited'  = [r \in Rows |-> {}]
    /\ writing' = {}

Init ==
    /\ view    = [r \in Rows |-> Unknown]
    /\ edited  = [r \in Rows |-> {}]
    /\ writing = {}
    /\ failed  = FALSE

Fetch(r) ==
    /\ writing = {}
    /\ view[r] = Unknown
    /\ view' = [view EXCEPT ![r] = rows[r]]
    /\ UNCHANGED <<rows, edited, writing, failed>>

Edit(r) ==
    /\ writing = {}
    /\ view[r] # Unknown /\ view'[r] # Unknown
    /\ edited[r] \subseteq edited'[r]
    /\ \A f \in Fields \ edited'[r] : view'[r][f] = view[r][f]
    /\ \A q \in Rows \ {r} : view'[q] = view[q] /\ edited'[q] = edited[q]
    /\ UNCHANGED <<rows, writing, failed>>

Begin ==
    /\ writing  = {}
    /\ writing' = {r \in Rows : edited[r] # {}}
    /\ failed'  = FALSE
    /\ UNCHANGED <<rows, view, edited>>

\* Of the rows in R the edited fields are stored, and no others but those that are stamped.
Stores(R) ==
    /\ \A r \in Rows \ R : rows'[r] = rows[r]
    /\ \A r \in R :
        /\ \A f \in edited[r] : rows'[r][f] = view[r][f]
        /\ \A f \in Fields \ (edited[r] \cup Stamped) : rows'[r][f] = rows[r][f]

\* Some rows are stored.  If they are the last ones, the flush is over.
Store(R) ==
    /\ Stores(R)
    /\ \/ R = writing /\ Forgotten
       \/ /\ writing' = writing \ R
          /\ \A r \in Rows \ R : view'[r] = view[r]
          /\ \A r \in R : \A f \in Fields :
                view'[r][f] = IF f \in Stamped THEN rows'[r][f] ELSE view[r][f]
          /\ UNCHANGED edited
    /\ UNCHANGED failed

Fail(R) == Stores(R) /\ Forgotten /\ failed' = TRUE

Rollback == writing = {} /\ Forgotten /\ UNCHANGED <<rows, failed>>

\* Without edits, some fields get the same values in all rows of R, and in what the session
\* sees of them.
Assign(R) ==
    /\ writing = {} /\ UNCHANGED <<edited, writing, failed>>
    /\ \A r \in Rows :
        /\ edited[r] = {}
        /\ r \notin R => view[r] = Unknown /\ rows'[r] = rows[r]
        /\ view[r] = Unknown <=> view'[r] = Unknown
    /\ \A f \in Fields :
        \/ \A q, r \in R :
            /\ rows'[q][f] = rows'[r][f]
            /\ view[r] # Unknown => view'[r][f] = rows'[r][f]
        \/ \A r \in R :
            /\ f \notin Stamped   => rows'[r][f] = rows[r][f]
            /\ view[r] # Unknown => view'[r][f] = view[r][f]

\* Another client stores one field of a row.
Elsewhere(r) ==
    /\ UNCHANGED <<view, edited, writing, failed>>
    /\ \A q \in Rows \ {r} : rows'[q] = rows[q]
    /\ \E f \in Fields : \A g \in Fields \ {f} : rows'[r][g] = rows[r][g]

Next ==
    \/ \E r \in Rows : Fetch(r) \/ Edit(r) \/ Elsewhere(r)
    \/ Begin
    \/ \E R \in (SUBSET writing) \ {{}} : Store(R)
    \/ writing # {} /\ \E R \in SUBSET writing : Fail(R)
    \/ Rollback
    \/ \E R \in SUBSET Rows : Assign(R)

Spec == Init /\ [][Next]_vars
=============================================================================
