--------------------------- MODULE MCTableKwargs ---------------------------
(* Instances of TableKwargs for TLC.                                       *)
EXTENDS TableKwargs

CONSTANTS t1, t2, partitioned, clustered, on, off

TwoThreads   == {t1, t2}
TwoOptions   == {partitioned, clustered}
TwoSettings  == {on, off}
=============================================================================
