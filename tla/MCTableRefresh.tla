--------------------------- MODULE MCTableRefresh ---------------------------
(* Instances of TableRefresh for TLC.                                      *)
EXTENDS TableRefresh, TLC

CONSTANTS s1, s2, r1, r2, r3, v1, v2, parent, child, base, derived

OneSession  == {s1}
TwoSessions == {s1, s2}
ThreeRows   == {r1, r2, r3}
OneValue    == {v1}
TwoValues   == {v1, v2}

\* A class and one that inherits from it: rows of the second are in both tables.
TwoTables  == {parent, child}
TwoClasses == {base, derived}
TheClasses == [r \in Rows |-> IF r = r1 THEN derived ELSE base]
TheTables  == [c \in Classes |-> IF c = derived THEN {parent, child} ELSE {parent}]
TheNames   == [c \in Classes |-> IF c = derived THEN child ELSE parent]

App(listener, rows, values, habits) ==
    [listener |-> listener, rows |-> rows, values |-> values, habits |-> habits]

\* Applications that do anything to one row in two tables; that write two rows of one
\* table in flushes that overlap and fail, or also by statements; that change a row; and
\* that add and delete one row at a time.
Various ==
    {App("engine",  {r1}, {v1}, Habits),
     App("session", {r1}, {v1}, Habits),
     App("session", {r2, r3}, {v1, v2}, {"overlap", "batches", "failure"}),
     App("engine",  {r2, r3}, {v1}, {"overlap", "batches", "bulk"}),
     App("engine",  {r2}, {v1, v2}, {"overlap", "updates", "bulk"}),
     App("session", {r2}, {v1, v2}, {"overlap", "updates", "raw"}),
     App("session", {r2, r3}, {v1, v2}, {}),
     App("engine",  {r1, r2, r3}, {v1}, {})}

Batching == {App("engine", {r2, r3}, {v1}, {"batches"})}
=============================================================================
