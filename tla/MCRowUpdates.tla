--------------------------- MODULE MCRowUpdates ---------------------------
(* Instances of RowUpdates for TLC.                                        *)
EXTENDS RowUpdates

CONSTANTS x, ts, data, label, a, b, empty, v

TwoRows     == {1, 2}
ThreeRows   == {1, 2, 3}
TwoColumns  == {x, ts}
OneStamped  == {ts}
ThreeKeys   == {a, b, empty}
TheEmptyKey == {empty}
OneValue    == {v}

App(rows, fields, habits) == [rows |-> rows, fields |-> fields, habits |-> habits]

\* Applications that flush several rows while another client writes them; that keep one row
\* and its marks; whose OBJECT column needs quotes; that call the mutators of dict; that
\* update all rows at once; that run on SQLAlchemy 1.3, where one statement is executed for
\* several rows.
Various ==
    {App({1, 2}, {x, a}, {"batches", "shares"}),
     App({1}, {x, ts, a}, {"keeps", "replaces", "shares"}),
     App({1}, {a, b, empty}, {"keeps"}),
     App({1}, {a, b}, {"replaces", "shares"}),
     App({1}, {x, a}, {"quotes", "replaces"}),
     App({1}, {a, b}, {"inherits"}),
     App({1, 2}, {x, ts}, {"keeps", "batches", "statements"}),
     App({1}, {ts, a, b}, {"keeps", "statements"}),
     App({1, 2}, {x, a}, {"statements"}),
     App({1, 2}, {ts, a}, {"legacy", "batches"}),
     App({1, 2}, {a, b}, {"legacy", "batches"})}

\* One that changes the same attribute of two rows.
Batching == {App({1, 2}, {x}, {"batches"})}
=============================================================================
