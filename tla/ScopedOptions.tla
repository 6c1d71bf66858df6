--------------------------- MODULE ScopedOptions ---------------------------
(***************************************************************************)
(* What `table_kwargs` promises: the options of tables have dynamic scope. *)
(* A scope overrides what is asked for inside of it, the scopes around it  *)
(* have the last word, and when it is closed all is as it was before.      *)
(***************************************************************************)
EXTENDS Sequences

CONSTANTS
    Kwargs,  \* settings of the options
    Unset    \* the option is left to others

VARIABLES
    gets,  \* gets[own]: the options of a table that is created now with the options `own`
    outer  \* what `gets` was outside of each open scope, that of the outermost first

vars == <<gets, outer>>

Init ==
    /\ gets  = [own \in Kwargs |-> own]
    /\ outer = <<>>

Overridden(own, kwargs) ==
    [o \in DOMAIN own |-> IF kwargs[o] = Unset THEN own[o] ELSE kwargs[o]]

Open(kwargs) ==
    /\ gets'  = [own \in Kwargs |-> gets[Overridden(own, kwargs)]]
    /\ outer' = Append(outer, gets)

Close == outer = Append(outer', gets')

Next == Close \/ \E kwargs \in Kwargs : Open(kwargs)

Spec == Init /\ [][Next]_vars
=============================================================================
