--------------------------- MODULE PartialUpdate ---------------------------
(***************************************************************************)
(* What the dialect promises of a column of type OBJECT.  Sessions edit    *)
(* their own view of a shared document key by key, and publishing writes   *)
(* the keys a session edited, with the contents of its view, and no other. *)
(* (docs/overview.rst: "the UPDATE statement sent to CrateDB will only     *)
(* include the data necessary to update the changed sub-columns")          *)
(*                                                                         *)
(* To a reader of the promise a key that is missing holds Null.            *)
(***************************************************************************)
CONSTANTS Sessions, Keys, Contents, Null

VARIABLES doc,    \* the stored document
          view,   \* view[s]: the document as session s sees it
          dirty   \* dirty[s]: the keys session s has edited and not published

vars == <<doc, view, dirty>>

Nothing == [k \in Keys |-> Null]

Init ==
    /\ doc   \in [Keys -> Contents]
    /\ view  = [s \in Sessions |-> Nothing]
    /\ dirty = [s \in Sessions |-> {}]

Fetch(s) ==
    /\ dirty[s] = {}
    /\ view' = [view EXCEPT ![s] = doc]
    /\ UNCHANGED <<doc, dirty>>

Edit(s, k, c) ==
    /\ view'  = [view  EXCEPT ![s][k] = c]
    /\ dirty' = [dirty EXCEPT ![s] = @ \cup {k}]
    /\ UNCHANGED doc

\* A document assigned as a whole is dirty as a whole, or not at all when it restores
\* what the session had read.
Overwrite(s, d) ==
    /\ view'  = [view EXCEPT ![s] = d]
    /\ \E keys \in {{}, Keys} : dirty' = [dirty EXCEPT ![s] = keys]
    /\ UNCHANGED doc

Forget(s) ==
    /\ view'  = [view  EXCEPT ![s] = Nothing]
    /\ dirty' = [dirty EXCEPT ![s] = {}]
    /\ UNCHANGED doc

\* The transaction ends: the view is forgotten as well.
Publish(s) ==
    /\ doc'   = [k \in Keys |-> IF k \in dirty[s] THEN view[s][k] ELSE doc[k]]
    /\ view'  = [view  EXCEPT ![s] = Nothing]
    /\ dirty' = [dirty EXCEPT ![s] = {}]

SessionNext(s) ==
    \/ Fetch(s)
    \/ \E k \in Keys, c \in Contents : Edit(s, k, c)
    \/ \E d \in [Keys -> Contents] : Overwrite(s, d)
    \/ Forget(s)
    \/ Publish(s)

Next == \E s \in Sessions : SessionNext(s)

Spec == Init /\ [][Next]_vars
=============================================================================
