--------------------------- MODULE ConsistentRows ---------------------------
(***************************************************************************)
(* What the event handlers promise an application that adds and deletes    *)
(* rows in one flush at a time: a database with immediate consistency and  *)
(* unique columns.  Nothing but the flush under way changes what searches  *)
(* find, they find all of it when it has returned, and it is refused for a *)
(* reason that searches find, too.                                         *)
(***************************************************************************)
CONSTANTS
    Rows, Classes, Values, NoRow, ClassOf, Checked,
    Finds    \* Finds[c]: the rows that searches of class c find, once they are there

VARIABLES
    found,   \* triples: a search of the class finds the row, with the values
    wanted,  \* pairs of a row and the values, or NoRow, that the flush under way gives it
    doomed   \* rows that searches may find as they were before they were deleted

vars == <<found, wanted, doomed>>

Init ==
    /\ found  = {}
    /\ wanted = {}
    /\ doomed = {}

\* Several rows are deleted and one is added, which is not there.
Begin ==
    /\ wanted = {} /\ wanted' # {}
    /\ \A p, q \in wanted' :
        /\ p[1] = q[1] => p = q
        /\ p[2] # NoRow /\ q[2] # NoRow => p = q
    /\ \A p \in wanted', f \in found : p[1] = f[2] /\ p[2] # NoRow => f[2] \in doomed
    /\ UNCHANGED <<found, doomed>>

\* A row is deleted before searches miss it, and may be added again before they do.
Store(p) ==
    /\ IF p[2] = NoRow THEN doomed' = doomed \cup {p[1]}
                      ELSE doomed' \in {doomed, doomed \ {p[1]}}
    /\ UNCHANGED <<found, wanted>>

\* No two rows of a checked class are found with the same values.
Unique ==
    \A f, g \in found :
        /\ f[1] = g[1] /\ f[3] = g[3] /\ f[1] \in Checked
        /\ ClassOf[f[2]] = f[1] /\ ClassOf[g[2]] = f[1]
        => f = g

\* Searches find more of the rows that are added, and miss more of those that are deleted.
Show ==
    /\ \A f \in found' \ found : <<f[2], f[3]>> \in wanted
    /\ \A f \in found \ found' : f[2] \in doomed
    /\ doomed' \subseteq doomed
    /\ Unique'
    /\ UNCHANGED wanted

\* The flush returns, and its rows are as it gave them, wherever searches look for them.
Return ==
    /\ \A p \in wanted : \A c \in Classes, v \in Values :
        p[1] \in Finds[c] => (<<c, p[1], v>> \in found <=> v = p[2])
    /\ wanted' = {}
    /\ UNCHANGED <<found, doomed>>

\* The flush raises: the values of its row are taken, or a row is no longer there.
Refuse(p) ==
    /\ \/ ClassOf[p[1]] \in Checked /\ \E f \in found : f[1] = ClassOf[p[1]] /\ f[3] = p[2]
       \/ p[2] = NoRow /\ \A f \in found : f[2] = p[1] => f[1] # ClassOf[p[1]]
    /\ wanted' = {}
    /\ UNCHANGED <<found, doomed>>

Next ==
    \/ Begin
    \/ \E p \in wanted : Store(p) \/ Refuse(p)
    \/ Show
    \/ Return

Spec == Init /\ [][Next]_vars
=============================================================================
