--------------------------- MODULE MCMutableDict ---------------------------
(* Instances of MutableDict for TLC.                                       *)
EXTENDS MutableDict, TLC

CONSTANTS r1, o1, o2, o3, a, b, v

OneRow    == {r1}
ThreeObj  == {o1, o2, o3}
TwoKeys   == {a, b}
OneValue  == {v}
NoKeys    == {}

App(maxLive, maxNew, habits) == [maxLive |-> maxLive, maxNew |-> maxNew, habits |-> habits]

\* One that edits documents of three levels, small ones with more and more habits, and
\* two that call the mutators of dict.
Various ==
    {App(3, 2, {}), App(2, 2, {"flushes"}), App(2, 1, {"detaches", "reassigns"}),
     App(2, 1, Habits \ {"inherits"}),
     App(2, 1, {"inherits"}), App(1, 1, Habits \ {"aliases"})}

\* Objects are interchangeable: nothing but equality is asked of them.
Identities == Permutations(Obj)
=============================================================================
