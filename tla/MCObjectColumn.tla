-------------------------- MODULE MCObjectColumn --------------------------
(***************************************************************************)
(* Instances of ObjectColumn for TLC.  Sessions behave alike and so do the *)
(* keys that are not false to Python, but no symmetry is used: the run     *)
(* with a temporal property would not be sound under it.                   *)
(***************************************************************************)
EXTENDS ObjectColumn

CONSTANTS s1, s2, a, b, empty, v

TwoSessions == {s1, s2}
ThreeKeys   == {a, b, empty}
TheEmptyKey == {empty}
OneValue    == {v}

App(sessions, keys, habits) == [sessions |-> sessions, keys |-> keys, habits |-> habits]

\* Two sessions that reassign, that keep their objects and have a key that is false to
\* Python, that edit one key in every way; one alone, with and without such a key; two that
\* edit by item assignment and deletion, and commit.
Various ==
    {App({s1, s2}, {a, b}, {"reassigns"}),
     App({s1, s2}, {a, empty}, {"keeps", "flushes"}),
     App({s1, s2}, {a}, {"reassigns", "inherits"}),
     App({s1}, {a, b, empty}, {"keeps", "flushes"}),
     App({s1}, {a, b}, {"flushes"}),
     App({s1, s2}, {a, b}, {})}

Reassigning == {App({s1}, {a, b}, {"reassigns"})}
Flushing    == {App({s1, s2}, {a, b}, {"flushes"})}
=============================================================================
